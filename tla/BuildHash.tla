------------------------------- MODULE BuildHash -------------------------------
(***************************************************************************)
(* The two hashes of src/src/graph/hash.rs that the build database goes by.*)
(* What is hashed is modelled as it is fed to the hasher, the hash function*)
(* (xxh3, 128 bits) as one without collisions.                             *)
(*                                                                         *)
(* Bytes are a sequence of chunks, each ended by a NUL byte: no path,      *)
(* executable, argument or callback name contains one.  A chunk is the     *)
(* sequence of texts written into it.                                      *)
(***************************************************************************)
EXTENDS Integers, Sequences, SequencesExt

CONSTANTS Text   \* paths, executables, arguments and names of callbacks

ASSUME TextAssumption == Text \subseteq STRING /\ "" \in Text

\* BuildMethod.  A phony build has neither a name nor arguments.
SubCommand(exe, args) == [method |-> "subcmd", name |-> exe, args |-> args]
Callback(name) == [method |-> "callback", name |-> name, args |-> <<>>]
Phony == [method |-> "phony", name |-> "", args |-> <<>>]

BuildMethods ==
  {m \in [method : {"subcmd", "callback", "phony"}, name : Text, args : Seq(Text)] :
     /\ m.method # "subcmd" => m.args = <<>>
     /\ m.method = "phony" => m.name = ""}

\* One write of each text, followed by a NUL.
Chunks(texts) == [i \in DOMAIN texts |-> <<texts[i]>>]

\* A bug: nothing stands between the command and the outputs.
BuildBytesUnmarked(m, outs) ==
  <<<<m.method>>, <<m.name>>>> \o Chunks(m.args) \o Chunks(outs)

\* hash_build.  The name of a callback is not ended by a NUL.
BuildBytes(m, outs) ==
  (IF m.method = "subcmd" THEN <<<<"subcmd">>, <<m.name>>>> \o Chunks(m.args) \o <<<<"out">>>>
   ELSE IF m.method = "callback" THEN <<<<"callback">>, <<m.name, "out">>>>
   ELSE <<<<"phony">>, <<"out">>>>) \o Chunks(outs)

-----------------------------------------------------------------------------
(* hash_input_set.  A path's own hash is as good as random, so sums of     *)
(* hashes (128 bits, wrapping) are equal if they sum the same paths as     *)
(* often, and exclusive ors if they have the same paths an odd number of   *)
(* times: a sum is a bag of paths, an exclusive or a set of paths.         *)

\* Acc::default
NoInputs == [sum |-> [p \in Text |-> 0], xor |-> {}, cnt |-> 0]

\* A bug: no sum is kept.
accumulate_xor(acc, p) ==
  [acc EXCEPT !.xor = (@ \ {p}) \cup ({p} \ @), !.cnt = @ + 1]

\* Acc::accumulate
accumulate(acc, p) ==
  [sum |-> [acc.sum EXCEPT ![p] = @ + 1],
   xor |-> (acc.xor \ {p}) \cup ({p} \ acc.xor),
   cnt |-> acc.cnt + 1]

\* What Acc::finalize hashes, after the paths were accumulated in this order.
InputBytes(paths) == FoldLeft(accumulate, NoInputs, paths)
===============================================================================
