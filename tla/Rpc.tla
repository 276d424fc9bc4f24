--------------------------------- MODULE Rpc ---------------------------------
(***************************************************************************)
(* What the application may rely on when it calls the service: the         *)
(* contract of ipc.Client.call (src/internal/ipc/client.go), whatever pipe *)
(* and service do meanwhile.  Module Ipc implements it.                    *)
(*                                                                         *)
(* A call is carried out at most once, perhaps after the caller has given  *)
(* up; it returns once; and it returns the service's verdict only if that  *)
(* is the verdict on this very call.  "lost" says nothing about the call.  *)
(***************************************************************************)
EXTENDS Sequences

CONSTANT Call

VARIABLES
  issued,  \* the calls made so far
  ran,     \* the verdicts of the service on each call
  res      \* what each call has returned

Verdict == {"ok", "refused"}

Init ==
  /\ issued = {}
  /\ ran = [n \in Call |-> <<>>]
  /\ res = [n \in Call |-> "none"]

Issue(n) ==
  /\ n \notin issued
  /\ issued' = issued \cup {n}
  /\ UNCHANGED <<ran, res>>

Run(n) ==
  /\ n \in issued /\ ran[n] = <<>>
  /\ \E v \in Verdict : ran' = [ran EXCEPT ![n] = <<v>>]
  /\ UNCHANGED <<issued, res>>

Return(n) ==
  /\ n \in issued /\ res[n] = "none"
  /\ \E r \in Verdict \cup {"lost"} :
       /\ r \in Verdict => ran[n] = <<r>>
       /\ res' = [res EXCEPT ![n] = r]
  /\ UNCHANGED <<issued, ran>>

Next == \E n \in Call : Issue(n) \/ Run(n) \/ Return(n)

Spec == Init /\ [][Next]_<<issued, ran, res>>
=============================================================================
