------------------------------- MODULE Delivery -------------------------------
(***************************************************************************)
(* What a transfer of a resource promises to the sender and to the readers *)
(* of the resource, whatever datagrams do: a resource that can be read is  *)
(* one transfer's, whole, and a transfer its sender takes for sent took    *)
(* effect on a receiver. It may take effect more than once, and it may     *)
(* take effect although its sender takes it for failed.                    *)
(***************************************************************************)

CONSTANTS
  Nodes,
  Transfers,
  To,                 \* in [Transfers -> SUBSET Nodes]
  Absent, Changing    \* contents that are no transfer's

VARIABLES
  result,    \* of each transfer, as its sender knows it
  content,   \* of the resource on each node
  stored     \* the transfers that took effect, and where

vars == <<result, content, stored>>

Init ==
  /\ result = [t \in Transfers |-> "new"]
  /\ content = [r \in Nodes |-> Absent]
  /\ stored = {}

Begin(t) ==
  /\ result[t] = "new"
  /\ result' = [result EXCEPT ![t] = "going"]
  /\ UNCHANGED <<content, stored>>

(* The resource is being written, and then what was written, or it goes.   *)
Change(r) ==
  /\ content' = [content EXCEPT ![r] = Changing]
  /\ UNCHANGED <<result, stored>>

Complete(t, r) ==
  /\ result[t] # "new" /\ r \in To[t]
  /\ content' = [content EXCEPT ![r] = t]
  /\ stored' = stored \cup {<<t, r>>}
  /\ UNCHANGED result

Vanish(r) ==
  /\ content' = [content EXCEPT ![r] = Absent]
  /\ UNCHANGED <<result, stored>>

Succeed(t) ==
  /\ result[t] = "going"
  /\ \E r \in To[t] : <<t, r>> \in stored
  /\ result' = [result EXCEPT ![t] = "sent"]
  /\ UNCHANGED <<content, stored>>

Fail(t) ==
  /\ result[t] = "going"
  /\ result' = [result EXCEPT ![t] = "failed"]
  /\ UNCHANGED <<content, stored>>

Next ==
  \/ \E t \in Transfers : Begin(t) \/ Succeed(t) \/ Fail(t)
  \/ \E r \in Nodes : Change(r) \/ Vanish(r)
  \/ \E t \in Transfers, r \in Nodes : Complete(t, r)

Spec == Init /\ [][Next]_vars
=============================================================================
