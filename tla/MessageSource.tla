--------------------------- MODULE MessageSource ---------------------------
(***************************************************************************)
(* What HttpMessageParser of src/src/http/parser.ts promises whoever holds *)
(* one: finished messages wait in a queue and leave it in the order they   *)
(* were finished, each once; an error ends them for good, but not those    *)
(* that wait; only reset() starts anew.  When a message is finished is not *)
(* said here.  HttpParser implements it, HttpConnection relies on it.      *)
(***************************************************************************)
EXTENDS Sequences, SequencesExt

VARIABLES queue,   \* messages finished and not yet taken
          given,   \* messages taken since construction or reset()
          failed   \* an error has stopped the source

source == <<queue, given, failed>>

Init == queue = <<>> /\ given = <<>> /\ failed = FALSE

(* feed(): messages are added, and the source may fail behind them.        *)
Feed ==
  /\ ~failed
  /\ IsPrefix(queue, queue')
  /\ failed' \in BOOLEAN
  /\ UNCHANGED given

(* next()                                                                  *)
Take ==
  /\ queue # <<>>
  /\ given' = Append(given, Head(queue))
  /\ queue' = Tail(queue)
  /\ UNCHANGED failed

Reset == queue' = <<>> /\ given' = <<>> /\ failed' = FALSE

Next == Feed \/ Take \/ Reset

Spec == Init /\ [][Next]_source
=============================================================================
