------------------------------ MODULE Routing ------------------------------
(***************************************************************************)
(* What the framework reads out of a request target and a form:            *)
(* parseRequestTarget() and parseQuery() of src/src/framework/url.ts, the  *)
(* decoding of urlencoded() of body-parsers.ts, compilePath() and          *)
(* pathMatches() of app.ts, and the path of a static file (static.ts);     *)
(* and what each of them means.  Words are sequences of symbols, as in     *)
(* Lines.                                                                  *)
(***************************************************************************)
EXTENDS Lines, SequencesExt, FiniteSets

CONSTANTS
  Escape,     \* percent escapes, with the character each stands for
  Malformed,  \* symbols that make decodeURIComponent() throw
  Root        \* the root directory of staticFiles(): its segments

SLASH == "/"
QMARK == "?"
AMP == "&"
EQUALS == "="
PLUS == "+"
DOT == "."
DOTS == ".."
PROTO == "__proto__"

ASSUME RoutingAssumption ==
  /\ Malformed \cap DOMAIN Escape = {}
  /\ (Malformed \cup DOMAIN Escape) \cap {SLASH, QMARK, AMP, EQUALS, PLUS, SP} = {}
  /\ Root \in Seq(Word) /\ Root # <<>>
  /\ \A i \in 1..Len(Root) : Root[i] \notin {<<>>, <<DOT>>, <<DOTS>>}
-----------------------------------------------------------------------------
(* The member of a set of numbers that has n members below it.             *)
Ranked(S, n) == CHOOSE i \in S : Cardinality({j \in S : j < i}) = n

(* String.split(c), and the two parts around the first c.                  *)
Cuts(word, c) == {i \in 1..Len(word) : word[i] = c} \cup {0, Len(word) + 1}
Split(word, c) ==
  LET cuts == Cuts(word, c)
  IN  [k \in 1..(Cardinality(cuts) - 1) |->
         Between(word, Ranked(cuts, k - 1), Ranked(cuts, k))]
Cut(word, c) ==
  LET i == IndexOf(word, c, 1)
  IN  IF i = 0 THEN <<word, <<>>>> ELSE <<Before(word, i), After(word, i)>>

(* decodeURIComponent(), which throws when the word is not Decodable.      *)
Decodable(word) == Without(word, Malformed)
Decode(word) ==
  [i \in DOMAIN word |-> IF word[i] \in DOMAIN Escape THEN Escape[word[i]] ELSE word[i]]

(* out[name] = value, on an object: its __proto__ takes no string; and the  *)
(* loop that assigns one pair after the other, of those that are kept.      *)
NoEntries == <<>>
Assign(out, name, value) ==
  IF name = <<PROTO>> THEN out
  ELSE [n \in DOMAIN out \cup {name} |-> IF n = name THEN value ELSE out[n]]

AssignAll(names, values, kept) ==
  LET out[n \in 0..Len(names)] ==
        IF n = 0 THEN NoEntries
        ELSE IF n \in kept THEN Assign(out[n - 1], names[n], values[n]) ELSE out[n - 1]
  IN  out[Len(names)]

(* parseRequestTarget(), parseQuery(): a pair that cannot be decoded is     *)
(* kept as it is.                                                          *)
Path(target) == Cut(target, QMARK)[1]
Query(target) == Cut(target, QMARK)[2]

NotEmpty(pairs) == {i \in DOMAIN pairs : pairs[i] # <<>>}
QueryPart(pair, i) ==
  IF \A k \in {1, 2} : Decodable(Cut(pair, EQUALS)[k]) THEN Decode(Cut(pair, EQUALS)[i])
                                                      ELSE Cut(pair, EQUALS)[i]
FromQuery(pairs) ==
  AssignAll([i \in DOMAIN pairs |-> QueryPart(pairs[i], 1)],
            [i \in DOMAIN pairs |-> QueryPart(pairs[i], 2)], NotEmpty(pairs))

(* Mutant of ParseQuery: the first pair of a name wins.                    *)
ParseQueryFirst(query) == FromQuery(Reverse(Split(query, AMP)))

ParseQuery(query) == FromQuery(Split(query, AMP))

(* The loop of urlencoded(): "+" is a space, and a pair that cannot be      *)
(* decoded makes the form invalid.                                         *)
Spaced(word) == [i \in DOMAIN word |-> IF word[i] = PLUS THEN SP ELSE word[i]]
FormPart(pair, i) == Spaced(Cut(pair, EQUALS)[i])

ValidForm(text) ==
  LET pairs == Split(text, AMP)
  IN  \A i \in NotEmpty(pairs), k \in {1, 2} : Decodable(FormPart(pairs[i], k))

ParseForm(text) ==
  LET pairs == Split(text, AMP)
  IN  AssignAll([i \in DOMAIN pairs |-> Decode(FormPart(pairs[i], 1))],
                [i \in DOMAIN pairs |-> Decode(FormPart(pairs[i], 2))], NotEmpty(pairs))
-----------------------------------------------------------------------------
(* compilePath(): the regular expression ^...$, whose parts are joined by   *)
(* slashes: a group ([^/]+) for a parameter, any other segment escaped; and *)
(* the names of the groups.                                                *)
IsParam(segment) == segment # <<>> /\ segment[1] = COLON
ParamsOf(segments) == {k \in DOMAIN segments : IsParam(segments[k])}

ParamNames(pattern) ==
  LET segments == Split(pattern, SLASH)
      at       == ParamsOf(segments)
  IN  [i \in 1..Cardinality(at) |-> Tail(segments[Ranked(at, i - 1)])]

(* Mutant of Consumes: a group takes any characters.                       *)
ConsumesAny(segment, text) == IF IsParam(segment) THEN text # <<>> ELSE text = segment

(* What one part matches.                                                  *)
Consumes(segment, text) ==
  IF IsParam(segment) THEN text # <<>> /\ Without(text, {SLASH}) ELSE text = segment

(* RegExp.exec(): every way to read the path, as how far the parts come     *)
(* and what the groups among them hold.                                    *)
Unread == [at |-> 0, groups |-> <<>>]

ReadSegment(path, readings, segment) ==
  UNION {{[at |-> j, groups |-> IF IsParam(segment)
                                THEN Append(r.groups, SubSeq(path, r.at + 1, j))
                                ELSE r.groups] :
            j \in {j \in r.at..Len(path) : Consumes(segment, SubSeq(path, r.at + 1, j))}} :
         r \in readings}

ReadSlash(path, readings) ==
  {[r EXCEPT !.at = @ + 1] : r \in {r \in readings : r.at < Len(path) /\ path[r.at + 1] = SLASH}}

Readings(pattern, path) ==
  LET segments == Split(pattern, SLASH)
      read[k \in 1..Len(segments)] ==
        ReadSegment(path, IF k = 1 THEN {Unread} ELSE ReadSlash(path, read[k - 1]), segments[k])
  IN  read[Len(segments)]

Captures(pattern, path) ==
  {r.groups : r \in {r \in Readings(pattern, path) : r.at = Len(path)}}

(* r.matcher.test(), and the loop that fills req.params.                   *)
Matches(pattern, path) == Captures(pattern, path) # {}

Params(pattern, path) ==
  LET names == ParamNames(pattern)
  IN  AssignAll(names, CHOOSE g \in Captures(pattern, path) : TRUE, DOMAIN names)

(* pathMatches()                                                           *)
PathMatches(prefix, path) ==
  \/ prefix \in {<<SLASH>>, <<>>}
  \/ path = prefix
  \/ IsPrefix(prefix \o <<SLASH>>, path)
-----------------------------------------------------------------------------
(* static.ts: the rest of the path behind the prefix, resolved against the  *)
(* root one segment after the other, and whether that is inside the root.  *)
Enter(directory, segment) ==
  IF segment \in {<<>>, <<DOT>>} THEN directory
  ELSE IF segment = <<DOTS>> THEN (IF directory = <<>> THEN <<>> ELSE Front(directory))
  ELSE Append(directory, segment)

Resolve(prefix, path) == FoldLeft(Enter, Root, Split(After(path, Len(prefix)), SLASH))

(* Mutant of Inside: the check is left out.                                *)
InsideUnchecked(target) == TRUE

Inside(target) == IsPrefix(Root, target)
-----------------------------------------------------------------------------
(* A pattern means a list of segments: a path matches when it has as many,  *)
(* a parameter standing for any that is not empty and everything else for  *)
(* itself, and the parameters are those segments (compilePath(),           *)
(* app.ts:334-350).  A mount path means its segments come first            *)
(* (pathMatches(), app.ts:352-356).                                        *)
Fits(wanted, given) == IF IsParam(wanted) THEN given # <<>> ELSE given = wanted
SegmentsMatch(wanted, given) ==
  /\ Len(given) = Len(wanted)
  /\ \A i \in DOMAIN wanted : Fits(wanted[i], given[i])

MatchesBySegments(pattern, path) ==
  LET wanted == Split(pattern, SLASH)
      given  == Split(path, SLASH)
      names  == {Tail(wanted[k]) : k \in ParamsOf(wanted)} \ {<<PROTO>>}
  IN  /\ Matches(pattern, path) <=> SegmentsMatch(wanted, given)
      /\ Matches(pattern, path) =>
           /\ Cardinality(Captures(pattern, path)) = 1
           /\ Params(pattern, path) =
                [name \in names |-> given[Max({k \in ParamsOf(wanted) : Tail(wanted[k]) = name})]]

MountedBySegments(prefix, path) ==
  PathMatches(prefix, path) <=>
    \/ prefix \in {<<SLASH>>, <<>>}
    \/ IsPrefix(Split(prefix, SLASH), Split(path, SLASH))

(* A query and a form are lists of pairs in which the last one of a name   *)
(* counts.  Where neither "+" nor a malformed escape occurs they mean the  *)
(* same (parseQuery(), url.ts:21-37; urlencoded(), body-parsers.ts:56-66); *)
(* a form with a malformed escape is refused, a query keeps the pair.      *)
NameOf(pair) == LET n == Cut(pair, EQUALS)[1] IN IF Decodable(pair) THEN Decode(n) ELSE n
ValueOf(pair) == LET v == Cut(pair, EQUALS)[2] IN IF Decodable(pair) THEN Decode(v) ELSE v

ReadAsPairs(text) ==
  LET pairs == Split(text, AMP)
      kept  == NotEmpty(pairs)
      names == {NameOf(pairs[i]) : i \in kept} \ {<<PROTO>>}
  IN  /\ ParseQuery(text) =
           [name \in names |-> ValueOf(pairs[Max({i \in kept : NameOf(pairs[i]) = name})])]
      /\ ValidForm(text) <=> Decodable(text)
      /\ Decodable(text) /\ Without(text, {PLUS}) => ParseForm(text) = ParseQuery(text)
=============================================================================
