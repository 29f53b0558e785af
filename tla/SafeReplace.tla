----------------------------- MODULE SafeReplace -----------------------------
(***************************************************************************)
(* What a remote job promises the machine it works on, without queue,      *)
(* staging, scripts or connections: a file is only ever replaced by a      *)
(* whole encode, a new name is only ever published whole and never over    *)
(* another file, and an original is only ever deleted behind its published *)
(* encode.  Its owner may do what they like with their own files.          *)
(***************************************************************************)
CONSTANTS Files, NoFile, Encodes, Owned

VARIABLES
  inPlace,  \* the files that are replaced under their own name; it never changes
  src, out  \* each file's source, and what is under its output name
vars == <<inPlace, src, out>>

Init ==
  /\ inPlace \subseteq Files
  /\ src \in [Files -> Owned]
  /\ out = [f \in Files |-> NoFile]

OwnerActs(f) ==
  \/ /\ \E c \in Owned \cup {NoFile} : src' = [src EXCEPT ![f] = c]
     /\ UNCHANGED <<inPlace, out>>
  \/ /\ out[f] = NoFile
     /\ \E c \in Owned : out' = [out EXCEPT ![f] = c]
     /\ UNCHANGED <<inPlace, src>>

Replace(f) ==
  /\ f \in inPlace
  /\ \E c \in Encodes : src' = [src EXCEPT ![f] = c]
  /\ UNCHANGED <<inPlace, out>>

Publish(f) ==
  /\ f \notin inPlace /\ out[f] = NoFile
  /\ \E c \in Encodes : out' = [out EXCEPT ![f] = c]
  /\ UNCHANGED <<inPlace, src>>

Retire(f) ==
  /\ f \notin inPlace /\ out[f] \in Encodes
  /\ src' = [src EXCEPT ![f] = NoFile]
  /\ UNCHANGED <<inPlace, out>>

Next == \E f \in Files : OwnerActs(f) \/ Replace(f) \/ Publish(f) \/ Retire(f)
Spec == Init /\ [][Next]_vars
=============================================================================
