------------------------------ MODULE Secrets ------------------------------
(***************************************************************************)
(* `tailor secrets edit`, `re-encrypt` and `generate-key`                  *)
(* (pkg/commands/secrets.go) with the encryption of params                 *)
(* (pkg/openshift/params.go, pkg/utils/encryption.go) and the editor       *)
(* (EditEnvFile in pkg/cli/cli.go), run by several processes in one        *)
(* directory, any of which may be killed between two steps.                *)
(*                                                                         *)
(* A param file is a function from params to what is stored for them.  An  *)
(* encrypted value is its clear text with the keys it is encrypted for;    *)
(* comments, blank lines and the order of lines are left out.              *)
(***************************************************************************)
EXTENDS Integers

CONSTANTS
  File,           \* the *.env.enc files, numbered in the order of their names
  Param, Value,
  Blank,          \* the empty string, a value
  NoParam,        \* the param is not in the file
  Absent,         \* no such file or key
  Broken,         \* a key file without a key
  Key,            \* key pairs
  Known,          \* the pairs there are at first; the others can be generated
  KeyFileOf,      \* per pair: the name of its public key file, from the e-mail address
  Session,        \* tailor processes
  Contents,       \* what the files may hold at first
  Typed,          \* what users may type
  MaxCommands,    \* bound on the number of commands
  MaxKeyChanges   \* bound on changes of key files by hand

Text      == [Param -> Value \cup {NoParam}]
EmptyText == [p \in Param |-> NoParam]
Cipher    == [value : Value, readers : SUBSET Key]
Content   == [Param -> Cipher \cup {NoParam}]
NoContent == [p \in Param |-> NoParam]

ASSUME SecretsAssumption ==
  /\ File \subseteq Nat
  /\ \A some \in SUBSET File : some # {} => \E f \in some : \A g \in some : f <= g
  /\ Blank \in Value /\ NoParam \notin Value /\ NoParam \notin Cipher
  /\ Absent \notin Content \cup Text \cup Key \cup File
  /\ Absent \notin [file : File, text : Text, place : {"desk", "editor", "writing"}]
  /\ Broken \notin Key /\ Known \subseteq Key
  /\ Contents \subseteq Content \cup {Absent} /\ Typed \subseteq Text
  /\ MaxCommands \in Nat /\ MaxKeyChanges \in Nat

VARIABLES
  files,       \* the encrypted param files
  scratch,     \* the file .ENV.DEC of the directory
  publicKeys,  \* the public keys in the key files
  cutOff,      \* the key files that were created but not written
  privateKey,  \* the key in the file private.key
  session,     \* the running commands, see Process
  typed,       \* per session: the text its user wants in the file
  exposed,     \* the sessions whose editor ran together with another, or under which
               \* the private key was exchanged
  leftBehind,  \* a command ended without removing .ENV.DEC
  fresh,       \* the sessions re-encrypting the whole directory while nobody else
               \* has written a param or key file since
  issued,      \* the pairs there are so far
  commands, keyChanges

keys    == <<publicKeys, cutOff, privateKey, issued>>
history == <<typed, exposed, leftBehind, fresh>>
bounds  == <<commands, keyChanges>>
vars    == <<files, scratch, keys, session, history, bounds>>

\* The local variables of a command.  "clear": it has the clear text it will
\* encrypt; "truncated": os.WriteFile has emptied the file.  Of generate-key:
\* "unpublished" and "keyless": it has found no public and no private key file;
\* "publishing" and "storing": it has created the file, which is still empty.
Process ==
  [pc      : {"idle", "opened", "editing", "read", "clear", "encrypted",
              "truncated", "next", "unpublished", "publishing", "published",
              "keyless", "storing"},
   file    : File \cup {Absent},  \* the file it works on
   todo    : SUBSET File,         \* the files left to re-encrypt
   text    : Text,                \* cleartextContent, then editedContent
   content : Content,             \* the previous content, then updatedContent
   pair    : Key \cup {Absent}]   \* the generated entity

Idle == [pc |-> "idle", file |-> Absent, todo |-> {}, text |-> EmptyText,
         content |-> NoContent, pair |-> Absent]

TypeOK ==
  /\ files \in [File -> Content \cup {Absent}]
  /\ scratch \in Text \cup {Absent}
  /\ publicKeys \subseteq Key
  /\ cutOff \subseteq {KeyFileOf[key] : key \in Key}
  /\ privateKey \in Key \cup {Absent, Broken}
  /\ session \in [Session -> Process]
  /\ \A s \in Session :
       session[s].pc \in {"opened", "editing", "read", "clear", "encrypted", "truncated"} =>
         session[s].file \in File
  /\ \A s \in Session :
       session[s].pc \in {"unpublished", "publishing", "published", "keyless", "storing"} =>
         session[s].pair \in Key
  /\ typed \in [Session -> Text]
  /\ exposed \subseteq Session /\ fresh \subseteq Session
  /\ leftBehind \in BOOLEAN
  /\ issued \subseteq Key
  /\ commands \in 0..MaxCommands
  /\ keyChanges \in 0..MaxKeyChanges

Init ==
  /\ files \in [File -> Contents]
  /\ scratch = Absent
  /\ publicKeys \in SUBSET Known
  /\ \A j, k \in publicKeys : KeyFileOf[j] = KeyFileOf[k] => j = k
  /\ cutOff = {}
  /\ privateKey \in Known \cup {Absent}
  /\ session = [s \in Session |-> Idle]
  /\ typed = [s \in Session |-> EmptyText]
  /\ exposed = {} /\ leftBehind = FALSE /\ fresh = {}
  /\ issued = Known /\ commands = 0 /\ keyChanges = 0

-----------------------------------------------------------------------------
(* Encryption.                                                              *)

ClearText(content) ==
  [p \in Param |-> IF content[p] = NoParam THEN NoParam ELSE content[p].value]

\* A missing file is read as an empty one.
ContentOf(f) == IF files[f] = Absent THEN NoContent ELSE files[f]

Readable(content, key) ==
  \A p \in Param : content[p] # NoParam => key \in content[p].readers

\* DecryptedParams: it needs the private key even for an empty file, and fails
\* on the first value it cannot decrypt.
Decryptable(content) == privateKey \in Key /\ Readable(content, privateKey)

\* newWriteConverter needs a public key, and a key in every key file.
KeysReadable == publicKeys # {} /\ cutOff = {} /\ privateKey \in Key

\* What decrypting a previous value gives the converter, which ignores errors.
PreviousValue(cipher) == IF privateKey \in cipher.readers THEN cipher.value ELSE Blank

\* Mutant: only the owner of the private key can read a changed value.
EncryptedForOwner(text, previous) ==
  [p \in Param |->
     IF text[p] = NoParam THEN NoParam
     ELSE IF previous[p] # NoParam /\ PreviousValue(previous[p]) = text[p]
     THEN previous[p]
     ELSE [value |-> text[p], readers |-> publicKeys \cap {privateKey}]]

\* EncryptedParams: a value whose clear text did not change keeps its cipher text.
Encrypted(text, previous) ==
  [p \in Param |->
     IF text[p] = NoParam THEN NoParam
     ELSE IF previous[p] # NoParam /\ PreviousValue(previous[p]) = text[p]
     THEN previous[p]
     ELSE [value |-> text[p], readers |-> publicKeys]]

-----------------------------------------------------------------------------
(* Steps all commands share.                                                *)

At(s, place) == session[s].pc = place

Continue(s, process) == session' = [session EXCEPT ![s] = process]

\* The command ends, well or with an error.
Return(s) ==
  /\ Continue(s, Idle)
  /\ fresh' = fresh \ {s} /\ exposed' = exposed \ {s}

NewCommand(s) ==
  /\ At(s, "idle")
  /\ commands < MaxCommands /\ commands' = commands + 1
  /\ UNCHANGED keyChanges

Load(s, f, process) ==
  /\ Decryptable(ContentOf(f))
  /\ Continue(s, [process EXCEPT !.file = f, !.text = ClearText(ContentOf(f))])
  /\ typed' = [typed EXCEPT ![s] = ClearText(ContentOf(f))]

\* It has the content of its file it will compare with, an empty one to re-encrypt.
HasPrevious(s) == session[s].pc \in {"opened", "editing", "read", "clear"}

\* The commands that can no longer decrypt what they compare with.
CannotCompare(key) == {s \in Session : HasPrevious(s) /\ ~Readable(session[s].content, key)}

SetPrivateKey(key) ==
  /\ privateKey' = key
  /\ exposed' = exposed \cup CannotCompare(key)

-----------------------------------------------------------------------------
(* Edit.                                                                    *)

EditOpens(s, f) ==
  /\ NewCommand(s)
  /\ Load(s, f, [Idle EXCEPT !.pc = "opened", !.content = ContentOf(f)])
  /\ UNCHANGED <<files, scratch, keys, exposed, leftBehind, fresh>>

Editors == {s \in Session : At(s, "editing")}

\* EditEnvFile, whose file has the same name for everybody.
WriteScratch(s) ==
  /\ At(s, "opened")
  /\ scratch' = session[s].text
  /\ Continue(s, [session[s] EXCEPT !.pc = "editing"])
  /\ exposed' = exposed \cup (IF Editors = {} THEN {} ELSE Editors \cup {s})
  /\ UNCHANGED <<files, keys, typed, leftBehind, fresh, bounds>>

EditorSaves(s, text) ==
  /\ At(s, "editing")
  /\ scratch' = text
  /\ typed' = [typed EXCEPT ![s] = text]
  /\ UNCHANGED <<files, keys, session, exposed, leftBehind, fresh, bounds>>

\* There is no such editor, or it ends with an error.
EditorFails(s) ==
  /\ At(s, "editing")
  /\ leftBehind' = TRUE
  /\ Return(s)
  /\ UNCHANGED <<files, scratch, keys, typed, bounds>>

\* Mutant: the error of os.ReadFile is ignored.
ReadScratchUnchecked(s) ==
  /\ At(s, "editing")
  /\ Continue(s, [session[s] EXCEPT !.pc = "read", !.text = scratch])
  /\ UNCHANGED <<files, scratch, keys, history, bounds>>

ReadScratch(s) ==
  /\ At(s, "editing") /\ scratch # Absent
  /\ Continue(s, [session[s] EXCEPT !.pc = "read", !.text = scratch])
  /\ UNCHANGED <<files, scratch, keys, history, bounds>>

\* Another session has removed the file.
ScratchIsGone(s) ==
  /\ At(s, "editing") /\ scratch = Absent
  /\ Return(s)
  /\ UNCHANGED <<files, scratch, keys, typed, leftBehind, bounds>>

\* Mutant: the clear text stays on disk.
KeepScratch(s) ==
  /\ At(s, "read")
  /\ Continue(s, [session[s] EXCEPT !.pc = "clear"])
  /\ UNCHANGED <<files, scratch, keys, history, bounds>>

RemoveScratch(s) ==
  /\ At(s, "read")
  /\ scratch' = Absent /\ leftBehind' = FALSE
  /\ Continue(s, [session[s] EXCEPT !.pc = "clear"])
  /\ UNCHANGED <<files, keys, typed, exposed, fresh, bounds>>

-----------------------------------------------------------------------------
(* writeEncryptedContent, for edit and re-encrypt.                          *)

Encrypt(s) ==
  /\ At(s, "clear")
  /\ KeysReadable
  /\ Continue(s, [session[s] EXCEPT !.pc = "encrypted",
                    !.content = Encrypted(session[s].text, session[s].content)])
  /\ UNCHANGED <<files, scratch, keys, history, bounds>>

\* Mutant: the file is opened for writing before it is clear what to write.
FailOnOpenFile(s) ==
  /\ At(s, "clear")
  /\ ~KeysReadable
  /\ Return(s)
  /\ files' = [files EXCEPT ![session[s].file] = NoContent]
  /\ UNCHANGED <<scratch, keys, typed, leftBehind, bounds>>

\* What was typed is lost: the command stops after .ENV.DEC was removed.
EncryptFails(s) ==
  /\ At(s, "clear")
  /\ ~KeysReadable
  /\ Return(s)
  /\ UNCHANGED <<files, scratch, keys, typed, leftBehind, bounds>>

\* os.WriteFile empties the file before it writes.
Truncate(s) ==
  /\ At(s, "encrypted")
  /\ files' = [files EXCEPT ![session[s].file] = NoContent]
  /\ Continue(s, [session[s] EXCEPT !.pc = "truncated"])
  /\ fresh' = fresh \cap {s}
  /\ UNCHANGED <<scratch, keys, typed, exposed, leftBehind, bounds>>

Write(s) ==
  /\ At(s, "truncated")
  /\ files' = [files EXCEPT ![session[s].file] = session[s].content]
  /\ Continue(s, IF session[s].todo = {} THEN Idle
                 ELSE [Idle EXCEPT !.pc = "next", !.todo = session[s].todo])
  /\ fresh' = IF session[s].todo = {} THEN {} ELSE fresh \cap {s}
  /\ exposed' = exposed \ {s}
  /\ UNCHANGED <<scratch, keys, typed, leftBehind, bounds>>

-----------------------------------------------------------------------------
(* ReEncrypt, of one file or of all files of a directory.                   *)

EncryptedFiles == {f \in File : files[f] # Absent}

ReEncryptStarts(s, chosen) ==
  /\ NewCommand(s)
  /\ chosen # {}
  /\ Continue(s, [Idle EXCEPT !.pc = "next", !.todo = chosen])
  /\ fresh' = IF chosen = EncryptedFiles THEN fresh \cup {s} ELSE fresh
  /\ UNCHANGED <<files, scratch, keys, typed, exposed, leftBehind>>

\* os.ReadDir sorts the names.
First(todo) == CHOOSE f \in todo : \A g \in todo : f <= g

Advanced(s) == [session[s] EXCEPT !.pc = "clear", !.todo = @ \ {First(@)}]

\* Mutant: the previous content is passed on, as when editing.
ReEncryptKeepsPrevious(s) ==
  /\ At(s, "next")
  /\ LET f == First(session[s].todo) IN
       Load(s, f, [Advanced(s) EXCEPT !.content = ContentOf(f)])
  /\ UNCHANGED <<files, scratch, keys, exposed, leftBehind, fresh, bounds>>

\* The previous content is empty, so that every value is encrypted again.
ReEncryptReads(s) ==
  /\ At(s, "next")
  /\ LET f == First(session[s].todo) IN
       Load(s, f, [Advanced(s) EXCEPT !.content = NoContent])
  /\ UNCHANGED <<files, scratch, keys, exposed, leftBehind, fresh, bounds>>

\* The files before this one are encrypted again, the others are not.
ReEncryptFails(s) ==
  /\ At(s, "next")
  /\ ~Decryptable(ContentOf(First(session[s].todo)))
  /\ Return(s)
  /\ UNCHANGED <<files, scratch, keys, typed, leftBehind, bounds>>

-----------------------------------------------------------------------------
(* GenerateKey.  A file is looked for, created and written in three steps,   *)
(* between which others may do the same.                                     *)

KeyFile(s) == KeyFileOf[session[s].pair]

KeysInOtherFiles(file) == {key \in publicKeys : KeyFileOf[key] # file}

GenerateStarts(s, key) ==
  /\ NewCommand(s)
  /\ key \notin issued
  /\ KeyFileOf[key] \notin cutOff \cup {KeyFileOf[k] : k \in publicKeys}
  /\ issued' = issued \cup {key}
  /\ Continue(s, [Idle EXCEPT !.pc = "unpublished", !.pair = key])
  /\ UNCHANGED <<files, scratch, publicKeys, cutOff, privateKey, history>>

\* os.Create empties the file if there is one by now.
CreatePublicKey(s) ==
  /\ At(s, "unpublished")
  /\ publicKeys' = KeysInOtherFiles(KeyFile(s))
  /\ cutOff' = cutOff \cup {KeyFile(s)}
  /\ Continue(s, [session[s] EXCEPT !.pc = "publishing"])
  /\ fresh' = {}
  /\ UNCHANGED <<files, scratch, privateKey, issued, typed, exposed, leftBehind, bounds>>

WritePublicKey(s) ==
  /\ At(s, "publishing")
  /\ publicKeys' = KeysInOtherFiles(KeyFile(s)) \cup {session[s].pair}
  /\ cutOff' = cutOff \ {KeyFile(s)}
  /\ Continue(s, [session[s] EXCEPT !.pc = "published"])
  /\ fresh' = {}
  /\ UNCHANGED <<files, scratch, privateKey, issued, typed, exposed, leftBehind, bounds>>

FindNoPrivateKey(s) ==
  /\ At(s, "published") /\ privateKey = Absent
  /\ Continue(s, [session[s] EXCEPT !.pc = "keyless"])
  /\ UNCHANGED <<files, scratch, keys, history, bounds>>

\* That the other half of the pair was published is not undone.
FindPrivateKey(s) ==
  /\ At(s, "published") /\ privateKey # Absent
  /\ Return(s)
  /\ UNCHANGED <<files, scratch, keys, typed, leftBehind, bounds>>

CreatePrivateKey(s) ==
  /\ At(s, "keyless")
  /\ SetPrivateKey(Broken)
  /\ Continue(s, [session[s] EXCEPT !.pc = "storing"])
  /\ UNCHANGED <<files, scratch, publicKeys, cutOff, issued, typed, leftBehind, fresh,
                 bounds>>

WritePrivateKey(s) ==
  /\ At(s, "storing")
  /\ SetPrivateKey(session[s].pair)
  /\ Continue(s, Idle)
  /\ UNCHANGED <<files, scratch, publicKeys, cutOff, issued, typed, leftBehind, fresh,
                 bounds>>

-----------------------------------------------------------------------------
(* The environment: key files come and go, though not while generate-key     *)
(* writes them; processes are killed.                                        *)

ChangePublicKeys(key) ==
  /\ keyChanges < MaxKeyChanges /\ keyChanges' = keyChanges + 1
  /\ \A s \in Session : At(s, "publishing") => KeyFile(s) # KeyFileOf[key]
  /\ LET others == KeysInOtherFiles(KeyFileOf[key]) IN
       publicKeys' \in {others, others \cup {key}}
  /\ cutOff' = cutOff \ {KeyFileOf[key]}
  /\ fresh' = {}
  /\ UNCHANGED <<files, scratch, privateKey, issued, session, typed, exposed, leftBehind,
                 commands>>

ChangePrivateKey(key) ==
  /\ keyChanges < MaxKeyChanges /\ keyChanges' = keyChanges + 1
  /\ \A s \in Session : ~At(s, "storing")
  /\ SetPrivateKey(key)
  /\ UNCHANGED <<files, scratch, publicKeys, cutOff, issued, session, typed, leftBehind,
                 fresh, commands>>

\* A file that was emptied, or a key file that was created, stays behind as it is.
Crash(s) ==
  /\ ~At(s, "idle")
  /\ leftBehind' = (leftBehind \/ session[s].pc \in {"editing", "read"})
  /\ Return(s)
  /\ UNCHANGED <<files, scratch, keys, typed, bounds>>

-----------------------------------------------------------------------------

Edit(s) ==
  \/ \E f \in File : EditOpens(s, f)
  \/ WriteScratch(s)
  \/ \E text \in Typed : EditorSaves(s, text)
  \/ EditorFails(s)
  \/ ReadScratch(s) \/ ScratchIsGone(s)
  \/ RemoveScratch(s)

WriteEncryptedContent(s) == Encrypt(s) \/ EncryptFails(s) \/ Truncate(s) \/ Write(s)

ReEncrypt(s) ==
  \/ ReEncryptStarts(s, EncryptedFiles)
  \/ \E f \in EncryptedFiles : ReEncryptStarts(s, {f})
  \/ ReEncryptReads(s) \/ ReEncryptFails(s)

GenerateKey(s) ==
  \/ \E key \in Key : GenerateStarts(s, key)
  \/ CreatePublicKey(s) \/ WritePublicKey(s)
  \/ FindNoPrivateKey(s) \/ FindPrivateKey(s)
  \/ CreatePrivateKey(s) \/ WritePrivateKey(s)

Next ==
  \/ \E s \in Session : \/ Edit(s) \/ WriteEncryptedContent(s)
                        \/ ReEncrypt(s) \/ GenerateKey(s) \/ Crash(s)
  \/ \E key \in issued : ChangePublicKeys(key)
  \/ \E key \in issued \cup {Absent} : ChangePrivateKey(key)

Spec == Init /\ [][Next]_vars

-----------------------------------------------------------------------------
(* Properties.                                                              *)

\* What a session has of Vault: nothing, or a file with the text its user wants.
DeskOf(s) ==
  IF session[s].pc \in {"opened", "editing", "read", "clear", "encrypted", "truncated"}
  THEN [file  |-> session[s].file,
        text  |-> typed[s],
        place |-> IF At(s, "editing") THEN "editor"
                  ELSE IF At(s, "truncated") THEN "writing" ELSE "desk"]
  ELSE Absent

V == INSTANCE Vault WITH clear   <- [f \in File |-> ClearText(ContentOf(f))],
                         desk    <- [s \in Session |-> DeskOf(s)],
                         Nothing <- Absent

(* Through reading, decrypting, the editor, encrypting and writing, with      *)
(* values that keep their cipher text and others that do not: what a command  *)
(* leaves in a file is exactly what its user typed, for a re-encryption what  *)
(* it has read, whatever other commands do to the file meanwhile; only two    *)
(* editors at once and an exchange of the private key leave it open.  A       *)
(* command that fails changes no file, and one that is killed can only lose   *)
(* the file it was writing.  (Edit, reEncrypt, writeEncryptedContent)         *)
EditsAreTransactions == V!Spec

(* When re-encrypt has gone through a directory nobody else touched, every    *)
(* value is encrypted for the public keys, and for no other: nobody who left  *)
(* can read them, and nobody new is missing.  (ReEncrypt)                     *)
ReEncryptedForAll ==
  [][\A s \in Session : Write(s) /\ s \in fresh /\ session'[s] = Idle =>
       \A f \in File, p \in Param :
         files[f] # Absent /\ files'[f][p] # NoParam =>
           files'[f][p].readers = publicKeys]_vars

(* A clear text file is on disk only while an editor needs it, or because a   *)
(* command was killed or failed while one did.  (EditEnvFile)                 *)
ClearTextAccountedFor ==
  scratch # Absent =>
    leftBehind \/ \E s \in Session : session[s].pc \in {"editing", "read"}

\* Another command has written the file since this one has read it.
Overtaken(s) == session[s].content \notin {NoContent, ContentOf(session[s].file)}

(* No command shuts out the owner of a published key: who could read the      *)
(* whole file can read the whole file afterwards.  (encrypt)                  *)
NobodyShutOut ==
  [][\A s \in Session : Encrypt(s) /\ ~Overtaken(s) =>
       \A key \in publicKeys :
         Readable(ContentOf(session[s].file), key) => Readable(session'[s].content, key)]_vars

=============================================================================
