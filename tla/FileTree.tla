------------------------------- MODULE FileTree -------------------------------
(***************************************************************************)
(* The file tree of a run, as a function from paths to contents, and what  *)
(* _write_json, _write_text and _append_jsonl do to it: a write puts one   *)
(* file in the place of whatever had its path.                             *)
(***************************************************************************)

\* A tree of one file.
OneFile(path, content) == [p \in {path} |-> content]

\* The files of new, written over those of old.
WrittenOver(new, old) ==
  [p \in DOMAIN new \cup DOMAIN old |-> IF p \in DOMAIN new THEN new[p] ELSE old[p]]

\* One file, written over what is there.
WithFile(old, path, content) ==
  [p \in {path} \cup DOMAIN old |-> IF p = path THEN content ELSE old[p]]
=============================================================================
