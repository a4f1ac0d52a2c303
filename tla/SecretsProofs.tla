--------------------------- MODULE SecretsProofs ---------------------------
(***************************************************************************)
(* Proofs about Secrets, for any number of files, params, keys and         *)
(* sessions.                                                               *)
(***************************************************************************)
EXTENDS Secrets, TLAPS

-----------------------------------------------------------------------------
(* The operators on contents keep their types.                              *)

LEMMA NoContentType == NoContent \in Content /\ EmptyText \in Text
BY DEF NoContent, Content, EmptyText, Text

LEMMA IdleType == Idle \in Process
BY NoContentType DEF Idle, Process

LEMMA ClearTextType ==
  ASSUME NEW content \in Content
  PROVE  ClearText(content) \in Text
BY DEF ClearText, Content, Cipher, Text

LEMMA EncryptedType ==
  ASSUME NEW text \in Text, NEW previous \in Content, publicKeys \subseteq Key
  PROVE  Encrypted(text, previous) \in Content
<1>1. ASSUME NEW p \in Param, text[p] # NoParam
      PROVE  [value |-> text[p], readers |-> publicKeys] \in Cipher
  BY <1>1 DEF Text, Cipher
<1>2. QED
  BY <1>1 DEF Encrypted, Content

LEMMA ContentOfType ==
  ASSUME TypeOK, NEW f \in File
  PROVE  ContentOf(f) \in Content
BY NoContentType DEF TypeOK, ContentOf

(* os.ReadDir lists a first file if it lists one.                            *)
LEMMA FirstType ==
  ASSUME NEW todo \in SUBSET File, todo # {}
  PROVE  First(todo) \in todo
<1>1. \E f \in todo : \A g \in todo : f <= g
  BY SecretsAssumption
<1>2. QED
  BY <1>1 DEF First

-----------------------------------------------------------------------------
(* The inductive invariant of a directory.                                  *)

\* A re-encryption that has not ended has a file left.
TodoLeft == \A s \in Session : At(s, "next") => session[s].todo # {}

SInv == TypeOK /\ TodoLeft /\ ClearTextAccountedFor

(* The step of one command touches its own local variables only.             *)
LEMMA ContinueKeepsOthers ==
  ASSUME TypeOK, NEW s \in Session, NEW process \in Process, Continue(s, process)
  PROVE  /\ session' \in [Session -> Process]
         /\ session'[s] = process
         /\ \A t \in Session \ {s} : session'[t] = session[t]
BY DEF TypeOK, Continue

-----------------------------------------------------------------------------
(* Types.                                                                   *)

Generating == {"unpublished", "publishing", "published", "keyless", "storing"}

(* generate-key goes on with its pair, and touches key files only.           *)
LEMMA GenerateGoesOn ==
  ASSUME TypeOK, NEW s \in Session,
         \/ CreatePublicKey(s) \/ WritePublicKey(s) \/ FindNoPrivateKey(s)
         \/ CreatePrivateKey(s) \/ WritePrivateKey(s)
  PROVE  /\ \E process \in Process :
              /\ Continue(s, process)
              /\ process.pc \in Generating \cup {"idle"}
              /\ process.pc # "idle" => process.pair = session[s].pair
         /\ session[s].pc \in Generating /\ session[s].pair \in Key
         /\ UNCHANGED <<files, scratch, typed, leftBehind, issued, bounds>>
<1>1. session[s].pc \in Generating
  BY DEF CreatePublicKey, WritePublicKey, FindNoPrivateKey, CreatePrivateKey,
         WritePrivateKey, At, Generating
<1>2. session[s].pair \in Key
  BY <1>1 DEF TypeOK, Generating
<1>3. UNCHANGED <<files, scratch, typed, leftBehind, issued, bounds>>
  BY DEF CreatePublicKey, WritePublicKey, FindNoPrivateKey, CreatePrivateKey,
         WritePrivateKey, keys, history
<1>4. ASSUME NEW pc \in Generating, Continue(s, [session[s] EXCEPT !.pc = pc])
      PROVE  \E process \in Process :
               /\ Continue(s, process)
               /\ process.pc \in Generating \cup {"idle"}
               /\ process.pc # "idle" => process.pair = session[s].pair
  <2> DEFINE next == [session[s] EXCEPT !.pc = pc]
  <2>1. next \in Process /\ next.pc = pc /\ next.pair = session[s].pair
    BY <1>4 DEF TypeOK, Process, Generating
  <2>2. Continue(s, next)
    BY <1>4
  <2> HIDE DEF next
  <2>3. QED
    BY <2>1, <2>2
<1>5. CASE WritePrivateKey(s)
  <2>1. Continue(s, Idle)
    BY <1>5 DEF WritePrivateKey
  <2>2. Idle.pc = "idle"
    BY DEF Idle
  <2>3. QED
    BY <1>1, <1>2, <1>3, <2>1, <2>2, IdleType
<1>6. CASE ~WritePrivateKey(s)
  <2>1. \E pc \in Generating : Continue(s, [session[s] EXCEPT !.pc = pc])
    BY <1>6 DEF CreatePublicKey, WritePublicKey, FindNoPrivateKey, CreatePrivateKey,
                Generating
  <2>2. QED
    BY <1>1, <1>2, <1>3, <1>4, <2>1
<1>7. QED
  BY <1>5, <1>6

LEMMA SetPrivateKeyType ==
  ASSUME TypeOK, NEW key \in Key \cup {Absent, Broken}, SetPrivateKey(key)
  PROVE  privateKey' \in Key \cup {Absent, Broken} /\ exposed' \subseteq Session
BY DEF TypeOK, SetPrivateKey, CannotCompare

LEMMA LoadType ==
  ASSUME TypeOK, NEW s \in Session, NEW f \in File, NEW process \in Process,
         process.pc # "next", Load(s, f, process)
  PROVE  /\ session' \in [Session -> Process] /\ typed' \in [Session -> Text]
         /\ session'[s].pc = process.pc /\ session'[s].file = f
         /\ \A t \in Session \ {s} : session'[t] = session[t]
<1>1. ClearText(ContentOf(f)) \in Text
  BY ContentOfType, ClearTextType
<1> DEFINE loaded == [process EXCEPT !.file = f, !.text = ClearText(ContentOf(f))]
<1>2. loaded \in Process /\ loaded.pc = process.pc /\ loaded.file = f
  BY <1>1 DEF Process
<1>3. Continue(s, loaded)
  BY DEF Load
<1>4. typed' \in [Session -> Text]
  BY <1>1 DEF Load, TypeOK
<1> HIDE DEF loaded
<1>5. QED
  BY <1>2, <1>3, <1>4, ContinueKeepsOthers

LEMMA NewCommandType ==
  ASSUME TypeOK, NEW s \in Session, NewCommand(s)
  PROVE  commands' \in 0..MaxCommands /\ keyChanges' = keyChanges
BY SecretsAssumption DEF TypeOK, NewCommand

LEMMA TypeStep ==
  ASSUME TypeOK, TodoLeft, [Next]_vars
  PROVE  TypeOK' /\ TodoLeft'
<1> USE DEF TypeOK, TodoLeft, At, keys, history, bounds
<1>1. ASSUME NEW s \in Session, NEW f \in File, EditOpens(s, f)
      PROVE  TypeOK' /\ TodoLeft'
  <2> DEFINE opened == [Idle EXCEPT !.pc = "opened", !.content = ContentOf(f)]
  <2>1. opened \in Process /\ opened.pc = "opened"
    BY IdleType, ContentOfType DEF Process
  <2>2. Load(s, f, opened)
    BY <1>1 DEF EditOpens
  <2> HIDE DEF opened
  <2>3. QED
    BY <1>1, <2>1, <2>2, LoadType, NewCommandType DEF EditOpens
<1>2. ASSUME NEW s \in Session, WriteScratch(s) PROVE TypeOK' /\ TodoLeft'
  BY <1>2 DEF WriteScratch, Editors, Continue, Process
<1>3. ASSUME NEW s \in Session, NEW text \in Typed, EditorSaves(s, text)
      PROVE  TypeOK' /\ TodoLeft'
  BY <1>3, SecretsAssumption DEF EditorSaves
<1>4. ASSUME NEW s \in Session, EditorFails(s) PROVE TypeOK' /\ TodoLeft'
  BY <1>4, IdleType DEF EditorFails, Return, Continue, Idle
<1>5. ASSUME NEW s \in Session, ReadScratch(s) PROVE TypeOK' /\ TodoLeft'
  BY <1>5 DEF ReadScratch, Continue, Process
<1>6. ASSUME NEW s \in Session, ScratchIsGone(s) PROVE TypeOK' /\ TodoLeft'
  BY <1>6, IdleType DEF ScratchIsGone, Return, Continue, Idle
<1>7. ASSUME NEW s \in Session, RemoveScratch(s) PROVE TypeOK' /\ TodoLeft'
  BY <1>7 DEF RemoveScratch, Continue, Process
<1>8. ASSUME NEW s \in Session, Encrypt(s) PROVE TypeOK' /\ TodoLeft'
  <2>1. Encrypted(session[s].text, session[s].content) \in Content
    BY EncryptedType DEF Process
  <2>2. QED
    BY <1>8, <2>1 DEF Encrypt, Continue, Process
<1>9. ASSUME NEW s \in Session, EncryptFails(s) PROVE TypeOK' /\ TodoLeft'
  BY <1>9, IdleType DEF EncryptFails, Return, Continue, Idle
<1>10. ASSUME NEW s \in Session, Truncate(s) PROVE TypeOK' /\ TodoLeft'
  BY <1>10, NoContentType DEF Truncate, Continue, Process
<1>11. ASSUME NEW s \in Session, Write(s) PROVE TypeOK' /\ TodoLeft'
  BY <1>11, IdleType DEF Write, Continue, Process, Idle
<1>12. ASSUME NEW s \in Session, NEW chosen \in SUBSET File, ReEncryptStarts(s, chosen)
       PROVE  TypeOK' /\ TodoLeft'
  <2> DEFINE started == [Idle EXCEPT !.pc = "next", !.todo = chosen]
  <2>1. started \in Process /\ started.pc = "next" /\ started.todo = chosen
    BY IdleType DEF Process
  <2>2. Continue(s, started) /\ chosen # {}
    BY <1>12 DEF ReEncryptStarts
  <2> HIDE DEF started
  <2>3. QED
    BY <1>12, <2>1, <2>2, ContinueKeepsOthers, NewCommandType DEF ReEncryptStarts
<1>13. ASSUME NEW s \in Session, ReEncryptReads(s) PROVE TypeOK' /\ TodoLeft'
  <2>1. First(session[s].todo) \in File
    BY <1>13, FirstType DEF ReEncryptReads, Process
  <2> DEFINE next == [Advanced(s) EXCEPT !.content = NoContent]
  <2>2. next \in Process /\ next.pc = "clear"
    BY NoContentType DEF Advanced, Process
  <2>3. Load(s, First(session[s].todo), next)
    BY <1>13 DEF ReEncryptReads
  <2> HIDE DEF next
  <2>4. QED
    BY <1>13, <2>1, <2>2, <2>3, LoadType DEF ReEncryptReads
<1>14. ASSUME NEW s \in Session, ReEncryptFails(s) PROVE TypeOK' /\ TodoLeft'
  BY <1>14, IdleType DEF ReEncryptFails, Return, Continue, Idle
<1>15. ASSUME NEW s \in Session, NEW key \in Key, GenerateStarts(s, key)
       PROVE  TypeOK' /\ TodoLeft'
  <2> DEFINE started == [Idle EXCEPT !.pc = "unpublished", !.pair = key]
  <2>1. started \in Process /\ started.pc = "unpublished" /\ started.pair = key
    BY IdleType DEF Process
  <2>2. Continue(s, started)
    BY <1>15 DEF GenerateStarts
  <2> HIDE DEF started
  <2>3. QED
    BY <1>15, <2>1, <2>2, ContinueKeepsOthers, NewCommandType DEF GenerateStarts
<1>16. ASSUME NEW s \in Session,
              \/ CreatePublicKey(s) \/ WritePublicKey(s) \/ FindNoPrivateKey(s)
              \/ CreatePrivateKey(s) \/ WritePrivateKey(s)
       PROVE  TypeOK' /\ TodoLeft'
  <2>1. PICK process \in Process :
               /\ Continue(s, process)
               /\ process.pc \in Generating \cup {"idle"}
               /\ process.pc # "idle" => process.pair = session[s].pair
    BY <1>16, GenerateGoesOn
  <2>2. /\ session[s].pair \in Key
        /\ UNCHANGED <<files, scratch, typed, leftBehind, issued, bounds>>
    BY <1>16, GenerateGoesOn
  <2>3. /\ publicKeys' \subseteq Key /\ fresh' \subseteq Session
        /\ cutOff' \subseteq {KeyFileOf[key] : key \in Key}
    BY <1>16, <2>2 DEF CreatePublicKey, WritePublicKey, FindNoPrivateKey, CreatePrivateKey,
                       WritePrivateKey, KeyFile, KeysInOtherFiles
  <2>4. privateKey' \in Key \cup {Absent, Broken} /\ exposed' \subseteq Session
    BY <1>16, <2>2, SetPrivateKeyType
       DEF CreatePublicKey, WritePublicKey, FindNoPrivateKey, CreatePrivateKey, WritePrivateKey
  <2>5. /\ session' \in [Session -> Process] /\ session'[s] = process
        /\ \A t \in Session \ {s} : session'[t] = session[t]
    BY <2>1, ContinueKeepsOthers
  <2>6. QED
    BY <2>1, <2>2, <2>3, <2>4, <2>5 DEF Generating
<1>17. ASSUME NEW s \in Session, FindPrivateKey(s) PROVE TypeOK' /\ TodoLeft'
  BY <1>17, IdleType DEF FindPrivateKey, Return, Continue, Idle
<1>18. ASSUME NEW key \in issued, ChangePublicKeys(key) PROVE TypeOK' /\ TodoLeft'
  BY <1>18, SecretsAssumption DEF ChangePublicKeys, KeysInOtherFiles
<1>19. ASSUME NEW key \in issued \cup {Absent}, ChangePrivateKey(key)
       PROVE  TypeOK' /\ TodoLeft'
  <2>1. privateKey' \in Key \cup {Absent, Broken} /\ exposed' \subseteq Session
    BY <1>19, SetPrivateKeyType DEF ChangePrivateKey
  <2>2. QED
    BY <1>19, <2>1, SecretsAssumption DEF ChangePrivateKey
<1>20. ASSUME NEW s \in Session, Crash(s) PROVE TypeOK' /\ TodoLeft'
  BY <1>20, IdleType DEF Crash, Return, Continue, Idle
<1>21. CASE UNCHANGED vars
  BY <1>21 DEF vars
<1>22. EncryptedFiles \subseteq File
  BY DEF EncryptedFiles
<1>23. QED
  BY <1>1, <1>2, <1>3, <1>4, <1>5, <1>6, <1>7, <1>8, <1>9, <1>10, <1>11, <1>12, <1>13,
     <1>14, <1>15, <1>16, <1>17, <1>18, <1>19, <1>20, <1>21, <1>22
     DEF Next, Edit, WriteEncryptedContent, ReEncrypt, GenerateKey

-----------------------------------------------------------------------------
(* Clear text on disk.                                                      *)

LEMMA ClearTextStep ==
  ASSUME TypeOK, TodoLeft, ClearTextAccountedFor, [Next]_vars
  PROVE  ClearTextAccountedFor'
<1>1. ASSUME NEW s \in Session, NEW f \in File, EditOpens(s, f) PROVE ClearTextAccountedFor'
  BY <1>1 DEF EditOpens, NewCommand, Load, At, Continue, ClearTextAccountedFor, TypeOK
<1>2. ASSUME NEW s \in Session, WriteScratch(s) PROVE ClearTextAccountedFor'
  BY <1>2 DEF WriteScratch, Continue, ClearTextAccountedFor, TypeOK, Process
<1>3. ASSUME NEW s \in Session, NEW text \in Typed, EditorSaves(s, text) PROVE ClearTextAccountedFor'
  BY <1>3 DEF EditorSaves, At, ClearTextAccountedFor
<1>4. ASSUME NEW s \in Session, EditorFails(s) PROVE ClearTextAccountedFor'
  BY <1>4 DEF EditorFails, ClearTextAccountedFor
<1>5. ASSUME NEW s \in Session, ReadScratch(s) PROVE ClearTextAccountedFor'
  BY <1>5 DEF ReadScratch, Continue, history, ClearTextAccountedFor, TypeOK, Process
<1>6. ASSUME NEW s \in Session, ScratchIsGone(s) PROVE ClearTextAccountedFor'
  BY <1>6 DEF ScratchIsGone, ClearTextAccountedFor
<1>7. ASSUME NEW s \in Session, RemoveScratch(s) PROVE ClearTextAccountedFor'
  BY <1>7 DEF RemoveScratch, ClearTextAccountedFor
<1>8. ASSUME NEW s \in Session, Encrypt(s) PROVE ClearTextAccountedFor'
  BY <1>8 DEF Encrypt, At, Continue, history, ClearTextAccountedFor, TypeOK
<1>9. ASSUME NEW s \in Session, EncryptFails(s) PROVE ClearTextAccountedFor'
  BY <1>9 DEF EncryptFails, At, Return, Continue, ClearTextAccountedFor, TypeOK
<1>10. ASSUME NEW s \in Session, Truncate(s) PROVE ClearTextAccountedFor'
  BY <1>10 DEF Truncate, At, Continue, ClearTextAccountedFor, TypeOK
<1>11. ASSUME NEW s \in Session, Write(s) PROVE ClearTextAccountedFor'
  BY <1>11 DEF Write, At, Continue, ClearTextAccountedFor, TypeOK
<1>12. ASSUME NEW s \in Session, NEW chosen \in SUBSET File, ReEncryptStarts(s, chosen) PROVE ClearTextAccountedFor'
  BY <1>12 DEF ReEncryptStarts, NewCommand, At, Continue, ClearTextAccountedFor, TypeOK
<1>13. ASSUME NEW s \in Session, ReEncryptReads(s) PROVE ClearTextAccountedFor'
  BY <1>13 DEF ReEncryptReads, Load, At, Continue, ClearTextAccountedFor, TypeOK
<1>14. ASSUME NEW s \in Session, ReEncryptFails(s) PROVE ClearTextAccountedFor'
  BY <1>14 DEF ReEncryptFails, At, Return, Continue, ClearTextAccountedFor, TypeOK
<1>15. ASSUME NEW s \in Session, NEW key \in Key, GenerateStarts(s, key) PROVE ClearTextAccountedFor'
  BY <1>15 DEF GenerateStarts, NewCommand, At, Continue, history, ClearTextAccountedFor, TypeOK
<1>16. ASSUME NEW s \in Session,
              \/ CreatePublicKey(s) \/ WritePublicKey(s) \/ FindNoPrivateKey(s)
              \/ CreatePrivateKey(s) \/ WritePrivateKey(s)
       PROVE  ClearTextAccountedFor'
  <2>1. /\ session[s].pc \in Generating /\ scratch' = scratch /\ leftBehind' = leftBehind
        /\ \A t \in Session \ {s} : session'[t] = session[t]
    BY <1>16, GenerateGoesOn, ContinueKeepsOthers
  <2>2. QED
    BY <2>1 DEF ClearTextAccountedFor, Generating
<1>17. ASSUME NEW s \in Session, FindPrivateKey(s) PROVE ClearTextAccountedFor'
  BY <1>17 DEF FindPrivateKey, At, Return, Continue, ClearTextAccountedFor, TypeOK
<1>18. ASSUME NEW s \in Session, Crash(s) PROVE ClearTextAccountedFor'
  BY <1>18 DEF Crash, Return, Continue, ClearTextAccountedFor, TypeOK
<1>19. ASSUME \/ \E key \in issued : ChangePublicKeys(key)
              \/ \E key \in issued \cup {Absent} : ChangePrivateKey(key)
              \/ UNCHANGED vars
       PROVE  ClearTextAccountedFor'
  BY <1>19 DEF ChangePublicKeys, ChangePrivateKey, vars, history, ClearTextAccountedFor
<1>20. EncryptedFiles \subseteq File
  BY DEF EncryptedFiles
<1>21. QED
  BY <1>1, <1>2, <1>3, <1>4, <1>5, <1>6, <1>7, <1>8, <1>9, <1>10, <1>11, <1>12, <1>13,
     <1>14, <1>15, <1>16, <1>17, <1>18, <1>19, <1>20
     DEF Next, Edit, WriteEncryptedContent, ReEncrypt, GenerateKey

-----------------------------------------------------------------------------
(* The theorems.                                                            *)

LEMMA InitSInv == Init => SInv
<1> SUFFICES ASSUME Init PROVE SInv
  OBVIOUS
<1>1. TypeOK
  <2>1. files \in [File -> Content \cup {Absent}]
    BY SecretsAssumption DEF Init
  <2>2. session \in [Session -> Process] /\ \A s \in Session : session[s].pc = "idle"
    BY IdleType DEF Init, Idle
  <2>3. typed \in [Session -> Text]
    BY NoContentType DEF Init
  <2>4. commands \in 0..MaxCommands /\ keyChanges \in 0..MaxKeyChanges
    BY SecretsAssumption DEF Init
  <2>5. /\ publicKeys \subseteq Key /\ issued \subseteq Key
        /\ privateKey \in Key \cup {Absent, Broken}
    BY SecretsAssumption DEF Init
  <2>6. QED
    BY <2>1, <2>2, <2>3, <2>4, <2>5 DEF Init, TypeOK
<1>2. \A s \in Session : session[s].pc = "idle"
  BY DEF Init, Idle
<1>3. TodoLeft /\ ClearTextAccountedFor
  BY <1>2 DEF Init, TodoLeft, At, ClearTextAccountedFor
<1>4. QED
  BY <1>1, <1>3 DEF SInv

(* SInv is an invariant of a directory, however many commands are run.       *)
THEOREM DirectoryInvariant == Spec => []SInv
<1>1. SInv /\ [Next]_vars => SInv'
  BY TypeStep, ClearTextStep DEF SInv
<1>2. QED
  BY InitSInv, <1>1, PTL DEF Spec

(* Every variable of Secrets keeps its type; a command that works on a file   *)
(* has one.                                                                  *)
THEOREM DirectoryTypeCorrect == Spec => []TypeOK
BY DirectoryInvariant, PTL DEF SInv

(* Clear text on disk has an editor that needs it, or was left by a command   *)
(* that was killed or failed (EditEnvFile).                                   *)
THEOREM ClearTextAccountedForHolds == Spec => []ClearTextAccountedFor
BY DirectoryInvariant, PTL DEF SInv

(* Encrypted keeps every reader whose key is among the public keys, if the    *)
(* previous content is that of the file or empty.                             *)
LEMMA EncryptedKeepsReaders ==
  ASSUME NEW text \in Text, NEW content \in Content,
         NEW previous \in {NoContent, content}, NEW key \in publicKeys,
         Readable(content, key)
  PROVE  Readable(Encrypted(text, previous), key)
<1> SUFFICES ASSUME NEW p \in Param, Encrypted(text, previous)[p] # NoParam
             PROVE  key \in Encrypted(text, previous)[p].readers
  BY DEF Readable
<1>1. CASE previous[p] # NoParam /\ PreviousValue(previous[p]) = text[p]
  <2>1. Encrypted(text, previous)[p] = previous[p]
    BY <1>1 DEF Encrypted
  <2>2. previous[p] = content[p]
    BY <1>1 DEF NoContent
  <2>3. QED
    BY <1>1, <2>1, <2>2 DEF Readable
<1>2. CASE ~(previous[p] # NoParam /\ PreviousValue(previous[p]) = text[p])
  BY <1>2 DEF Encrypted
<1>3. QED
  BY <1>1, <1>2

(* No command shuts out the owner of a published key (encrypt of params.go).  *)
THEOREM NobodyShutOutHolds == Spec => NobodyShutOut
<1>1. ASSUME SInv, NEW s \in Session, Encrypt(s), ~Overtaken(s), NEW key \in publicKeys,
             Readable(ContentOf(session[s].file), key)
      PROVE  Readable(session'[s].content, key)
  <2>1. session[s] \in Process /\ session[s].pc = "clear" /\ session[s].file \in File
    BY <1>1 DEF SInv, TypeOK, Encrypt, At
  <2>2. ContentOf(session[s].file) \in Content
    BY <1>1, <2>1, ContentOfType DEF SInv
  <2>3. session[s].content \in {NoContent, ContentOf(session[s].file)}
    BY <1>1 DEF Overtaken
  <2>4. session'[s].content = Encrypted(session[s].text, session[s].content)
    BY <1>1, <2>1 DEF SInv, TypeOK, Encrypt, Continue, Process
  <2>5. session[s].text \in Text
    BY <2>1 DEF Process
  <2>6. QED
    BY <1>1, <2>2, <2>3, <2>4, <2>5, EncryptedKeepsReaders
<1>2. SInv /\ [Next]_vars =>
        [\A s \in Session : Encrypt(s) /\ ~Overtaken(s) =>
           \A key \in publicKeys :
             Readable(ContentOf(session[s].file), key) => Readable(session'[s].content, key)]_vars
  BY <1>1
<1>3. QED
  BY DirectoryInvariant, <1>2, PTL DEF Spec, NobodyShutOut

=============================================================================
