----------------------------- MODULE AtomicSave -----------------------------
(***************************************************************************)
(* What applying a reviewed plan promises: the save happens at one         *)
(* instant, completely or not at all.  It replaces what the plan was       *)
(* reviewed against; a template upgrade may also replace what another      *)
(* writer put into a file after the plan was last checked, and nothing     *)
(* else (Overwrites).  Until the save, only a file that another writer     *)
(* touched can change.                                                     *)
(*                                                                         *)
(* `content` is the Vault as it is once uncommitted work is taken back.    *)
(***************************************************************************)
CONSTANTS
  Ops, Files, Contents, InitialFile, Plan,
  Overwrites  \* whether a write replaces what was changed after the check

VARIABLES
  content,  \* [Files -> Contents]
  saved,    \* operations that have been saved
  edited    \* files other writers changed since a plan was last checked

vars == <<content, saved, edited>>

Init ==
  /\ content = InitialFile
  /\ saved = {}
  /\ edited = {}

\* A plan is checked against the Vault.
Check ==
  /\ edited' = {}
  /\ UNCHANGED <<content, saved>>

\* The writes in S take effect together; the others had taken effect already (an
\* object file that was there) or give way to another writer.
Save(o) ==
  /\ o \notin saved
  /\ saved' = saved \cup {o}
  /\ \E S \in SUBSET DOMAIN Plan[o] :
       /\ \A i \in S :
            \/ content[Plan[o][i].path] = Plan[o][i].before
            \/ Overwrites /\ Plan[o][i].path \in edited
       /\ \A i \in DOMAIN Plan[o] \ S :
            \/ content[Plan[o][i].path] = Plan[o][i].after
            \/ Plan[o][i].path \in edited
       /\ \A i \in S : content'[Plan[o][i].path] = Plan[o][i].after
       /\ \A f \in Files :
            (\A i \in S : Plan[o][i].path # f) => content'[f] = content[f]
       /\ content' \in [Files -> Contents]
  /\ UNCHANGED edited

\* Another writer changes one file.  That it is changed back unseen, because the change
\* fell between a comparison and its write, is an edit of an edited file too.
Edit ==
  /\ UNCHANGED saved
  /\ \E f \in Files :
       /\ edited' = edited \cup {f}
       /\ \E c \in Contents : content' = [content EXCEPT ![f] = c]

Next == Check \/ Edit \/ \E o \in Ops : Save(o)

Spec == Init /\ [][Next]_vars
=============================================================================
