----------------------------- MODULE Artifacts -----------------------------
(***************************************************************************)
(* What the factor scripts promise of the directories they write: a        *)
(* directory gains files one by one, loses and changes none, and once it   *)
(* is sealed it stays as it is.                                            *)
(***************************************************************************)
VARIABLES
  dirs,      \* the directories that exist
  content,   \* a function from <<directory, name>> to what the file holds
  sealed     \* the directories that are finished

Init == dirs = {} /\ content = <<>> /\ sealed = {}

\* Directories are made, and files added to those that exist and are not sealed.
Write ==
  /\ dirs \subseteq dirs'
  /\ \A f \in DOMAIN content : f \in DOMAIN content' /\ content'[f] = content[f]
  /\ \A f \in DOMAIN content' \ DOMAIN content : f[1] \in dirs' \ sealed

\* A directory is sealed at most once and for good.
Seal ==
  /\ sealed \subseteq sealed'
  /\ sealed' \subseteq dirs'

Next == Write /\ Seal

Spec == Init /\ [][Next]_<<dirs, content, sealed>>
=============================================================================
