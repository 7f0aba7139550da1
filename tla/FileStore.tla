------------------------------ MODULE FileStore ------------------------------
(***************************************************************************)
(* What an upload server promises of the files it takes: each is created   *)
(* once, grows block by block until it is complete, and never changes from *)
(* there on, not even when the server ends.  Only what is still open then  *)
(* may lose its end.                                                       *)
(***************************************************************************)
EXTENDS Naturals, Sequences

CONSTANTS Name, Block

VARIABLES
  content,    \* the blocks of each file
  state,      \* "none" if the server has not taken the file
  up          \* the server runs

vars == <<content, state, up>>

State == {"none", "open", "complete"}

Init ==
  /\ content \in [Name -> Seq(Block)]
  /\ state = [f \in Name |-> "none"]
  /\ up = TRUE

(* A step during which the server may end in good order                    *)
Running == up /\ up' \in BOOLEAN

Prefix(s, t) == Len(s) <= Len(t) /\ \A k \in 1..Len(s) : s[k] = t[k]

Create(f) ==
  /\ Running
  /\ state[f] = "none"
  /\ state' = [state EXCEPT ![f] = "open"]
  /\ content' = [content EXCEPT ![f] = <<>>]

Extend(f) ==
  /\ Running
  /\ state[f] = "open"
  /\ content' \in [Name -> Seq(Block)]
  /\ Prefix(content[f], content'[f]) /\ Len(content'[f]) = Len(content[f]) + 1
  /\ \A g \in Name \ {f} : content'[g] = content[g]
  /\ UNCHANGED state

Complete(f) ==
  /\ Running
  /\ state[f] = "open"
  /\ state' = [state EXCEPT ![f] = "complete"]
  /\ UNCHANGED content

End ==
  /\ Running
  /\ UNCHANGED <<content, state>>

Crash ==
  /\ up /\ up' = FALSE
  /\ content' \in [Name -> Seq(Block)]
  /\ \A f \in Name :
       /\ Prefix(content'[f], content[f])
       /\ state[f] # "open" => content'[f] = content[f]
  /\ UNCHANGED state

Next ==
  \/ \E f \in Name : Create(f) \/ Extend(f) \/ Complete(f)
  \/ End \/ Crash

Spec == Init /\ [][Next]_vars

Kept(f) ==
  state[f] = "complete" => state'[f] = "complete" /\ content'[f] = content[f]

(* A complete file stays as it is.                                         *)
CompleteKept == [][\A f \in Name : Kept(f)]_vars
=============================================================================
