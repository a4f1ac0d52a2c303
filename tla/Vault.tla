------------------------------- MODULE Vault -------------------------------
(***************************************************************************)
(* What `tailor secrets` promises to those who share encrypted param       *)
(* files: a command takes a file, its user changes the text, and the       *)
(* command puts exactly that text back.  Nothing else changes the clear    *)
(* text of a file; a command that gives up leaves it alone, and one that   *)
(* is killed can only lose the file it is writing at that moment.          *)
(*                                                                         *)
(* Two commands may hold one file: then the last one to put it back wins.  *)
(* Which text a command puts back is open only if it is exposed: its       *)
(* editor was open together with another, or the private key was exchanged *)
(* while it had the file.                                                  *)
(***************************************************************************)
CONSTANTS
  File,       \* param files
  Session,    \* running commands
  Text,       \* clear texts
  EmptyText,  \* of a file without params, or without a file
  Nothing     \* a session that holds no file

VARIABLES
  clear,   \* per file: its clear text
  desk,    \* per session: the file it holds, the text it wants to put back, and
           \* whether it is on the desk, in the editor or being written
  exposed  \* the sessions whose text is not safe from others

vars == <<clear, desk, exposed>>

Init ==
  /\ clear \in [File -> Text]
  /\ desk = [s \in Session |-> Nothing]
  /\ exposed = {}

Holds(s, place) == desk[s] # Nothing /\ desk[s].place = place

Editors == {s \in Session : Holds(s, "editor")}

Take(s, f) ==
  /\ desk[s] = Nothing
  /\ desk' = [desk EXCEPT ![s] = [file |-> f, text |-> clear[f], place |-> "desk"]]
  /\ UNCHANGED <<clear, exposed>>

OpenEditor(s) ==
  /\ Holds(s, "desk")
  /\ desk' = [desk EXCEPT ![s].place = "editor"]
  /\ exposed' = exposed \cup (IF Editors = {} THEN {} ELSE Editors \cup {s})
  /\ UNCHANGED clear

Type(s) ==
  /\ Holds(s, "editor")
  /\ \E t \in Text : desk' = [desk EXCEPT ![s].text = t]
  /\ UNCHANGED <<clear, exposed>>

CloseEditor(s) ==
  /\ Holds(s, "editor")
  /\ desk' = [desk EXCEPT ![s].place = "desk"]
  /\ UNCHANGED <<clear, exposed>>

\* The file is emptied before it is written.
Begin(s) ==
  /\ Holds(s, "desk")
  /\ clear' = [clear EXCEPT ![desk[s].file] = EmptyText]
  /\ desk' = [desk EXCEPT ![s].place = "writing"]
  /\ UNCHANGED exposed

Leave(s) ==
  /\ desk' = [desk EXCEPT ![s] = Nothing]
  /\ exposed' = exposed \ {s}

Put(s) ==
  /\ Holds(s, "writing")
  /\ \E t \in Text : /\ s \notin exposed => t = desk[s].text
                     /\ clear' = [clear EXCEPT ![desk[s].file] = t]
  /\ Leave(s)

GiveUp(s) ==
  /\ Holds(s, "desk") \/ Holds(s, "editor")
  /\ Leave(s)
  /\ UNCHANGED clear

\* The only step that loses a text: the file stays as the others left it, or empty.
Die(s) ==
  /\ Holds(s, "writing")
  /\ Leave(s)
  /\ UNCHANGED clear

ExchangeKey ==
  /\ \E some \in SUBSET {s \in Session : Holds(s, "desk") \/ Holds(s, "editor")} :
       exposed' = exposed \cup some
  /\ UNCHANGED <<clear, desk>>

Next ==
  \/ \E s \in Session :
       \/ OpenEditor(s) \/ Type(s) \/ CloseEditor(s)
       \/ Begin(s) \/ Put(s) \/ GiveUp(s) \/ Die(s)
       \/ \E f \in File : Take(s, f)
  \/ ExchangeKey

Spec == Init /\ [][Next]_vars

=============================================================================
