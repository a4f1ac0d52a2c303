------------------------- MODULE SecretsRefinement -------------------------
(***************************************************************************)
(* Secrets implements Vault, and a re-encryption of a whole directory      *)
(* leaves every value encrypted for the public keys, for any number of     *)
(* files, params, keys and sessions.                                       *)
(***************************************************************************)
EXTENDS SecretsProofs

-----------------------------------------------------------------------------
(* What a command knows of its user's text.                                 *)

Busy == {"opened", "editing", "read", "clear", "encrypted", "truncated"}

\* The text a user wants in the file is the text the command has, then the text
\* in .ENV.DEC, and at last the clear text of what it encrypted.  The previous
\* content is readable with the private key, so that no value of it is taken for
\* an empty one.
Knows(s) ==
  /\ session[s].pc \in {"opened", "read", "clear"} => session[s].text = typed[s]
  /\ At(s, "editing") => scratch \in {Absent, typed[s]}
  /\ session[s].pc \in {"encrypted", "truncated"} =>
       ClearText(session[s].content) = typed[s]
  /\ HasPrevious(s) => Readable(session[s].content, privateKey)

TextsAreKnown == \A s \in Session \ exposed : Knows(s)

EditorsAreExposed == \A s, t \in Editors : s # t => s \in exposed

OnlyHoldersAreExposed == \A s \in exposed : session[s].pc \in Busy

RInv == SInv /\ TextsAreKnown /\ EditorsAreExposed /\ OnlyHoldersAreExposed

(* What encrypt makes of a text has this text as its clear text, if it could  *)
(* decrypt the previous values.                                               *)
LEMMA EncryptedText ==
  ASSUME NEW text \in Text, NEW previous \in Content, Readable(previous, privateKey),
         publicKeys \subseteq Key
  PROVE  ClearText(Encrypted(text, previous)) = text
<1>1. ASSUME NEW p \in Param
      PROVE  ClearText(Encrypted(text, previous))[p] = text[p]
  <2>1. CASE text[p] = NoParam
    BY <2>1 DEF Encrypted, ClearText
  <2>2. CASE text[p] # NoParam /\ previous[p] # NoParam
             /\ PreviousValue(previous[p]) = text[p]
    <3>1. Encrypted(text, previous)[p] = previous[p]
      BY <2>2 DEF Encrypted
    <3>2. previous[p].value = text[p]
      BY <2>2 DEF PreviousValue, Readable
    <3>3. QED
      BY <2>2, <3>1, <3>2 DEF ClearText
  <2>3. CASE text[p] # NoParam /\ ~(previous[p] # NoParam
                                    /\ PreviousValue(previous[p]) = text[p])
    <3>1. Encrypted(text, previous)[p] = [value |-> text[p], readers |-> publicKeys]
      BY <2>3 DEF Encrypted
    <3>2. Encrypted(text, previous)[p] \in Cipher
      BY <2>3, <3>1 DEF Text, Cipher
    <3>3. QED
      BY <3>1, <3>2, SecretsAssumption DEF ClearText
  <2>4. QED
    BY <2>1, <2>2, <2>3
<1>2. ClearText(Encrypted(text, previous)) = [p \in Param |-> text[p]]
  BY <1>1 DEF ClearText
<1>3. QED
  BY <1>2 DEF Text

-----------------------------------------------------------------------------
(* RInv is inductive.                                                       *)

(* A step of the command s: what the others know stays known, unless the step *)
(* exposes them.                                                              *)
LEMMA StepKnows ==
  ASSUME TypeOK, TextsAreKnown, EditorsAreExposed, OnlyHoldersAreExposed,
         NEW s \in Session,
         \A t \in Session \ {s} : session'[t] = session[t] /\ typed'[t] = typed[t],
         exposed \subseteq exposed' \cup {s},
         \A t \in exposed' : t \in Session /\ session'[t].pc \in Busy,
         privateKey' = privateKey \/ CannotCompare(privateKey') \subseteq exposed',
         scratch' \in {scratch, Absent} \/ Editors \ {s} \subseteq exposed',
         session'[s].pc = "editing" =>
           \/ At(s, "editing") /\ (s \in exposed => s \in exposed')
           \/ Editors \ {s} # {} => Editors \cup {s} \subseteq exposed',
         s \notin exposed' => Knows(s)'
  PROVE  TextsAreKnown' /\ EditorsAreExposed' /\ OnlyHoldersAreExposed'
<1>1. ASSUME NEW t \in Session \ {s}, t \notin exposed' PROVE Knows(t)'
  <2>1. /\ session'[t] = session[t] /\ typed'[t] = typed[t] /\ t \notin exposed
        /\ Knows(t)
    BY <1>1 DEF TextsAreKnown
  <2>2. At(t, "editing") => scratch' \in {scratch, Absent}
    BY <1>1 DEF Editors
  <2>3. HasPrevious(t) => Readable(session[t].content, privateKey')
    <3>1. CASE privateKey' = privateKey
      BY <2>1, <3>1 DEF Knows
    <3>2. CASE CannotCompare(privateKey') \subseteq exposed'
      BY <1>1, <3>2 DEF CannotCompare
    <3>3. QED
      BY <3>1, <3>2
  <2>4. QED
    BY <2>1, <2>2, <2>3 DEF Knows, At, HasPrevious, Readable
<1>2. TextsAreKnown'
  BY <1>1 DEF TextsAreKnown
<1>3. EditorsAreExposed'
  <2>1. ASSUME NEW t \in Session, NEW u \in Session, session'[t].pc = "editing",
               session'[u].pc = "editing", t # u
        PROVE  t \in exposed'
    <3>1. \A r \in Session \ {s} : session'[r].pc = "editing" <=> r \in Editors
      BY DEF Editors, At
    <3>2. CASE t = s
      BY <2>1, <3>1, <3>2 DEF EditorsAreExposed, Editors
    <3>3. CASE u = s
      BY <2>1, <3>1, <3>3 DEF EditorsAreExposed, Editors
    <3>4. CASE t # s /\ u # s
      BY <2>1, <3>1, <3>4 DEF EditorsAreExposed
    <3>5. QED
      BY <3>2, <3>3, <3>4
  <2>2. QED
    BY <2>1 DEF EditorsAreExposed, Editors, At
<1>4. OnlyHoldersAreExposed'
  BY DEF OnlyHoldersAreExposed
<1>5. QED
  BY <1>2, <1>3, <1>4

(* The same of a command that goes on, ends, or takes a file, and exposes     *)
(* nobody.                                                                    *)
LEMMA GoingOnKnows ==
  ASSUME TypeOK, TextsAreKnown, EditorsAreExposed, OnlyHoldersAreExposed,
         NEW s \in Session, NEW process \in Process, Continue(s, process),
         \A t \in Session \ {s} : typed'[t] = typed[t],
         privateKey' = privateKey, scratch' \in {scratch, Absent},
         \/ exposed' = exposed /\ (session[s].pc \in Busy => process.pc \in Busy)
         \/ exposed' = exposed \ {s},
         process.pc # "editing",
         s \notin exposed' => Knows(s)'
  PROVE  TextsAreKnown' /\ EditorsAreExposed' /\ OnlyHoldersAreExposed'
<1>1. session'[s] = process /\ \A t \in Session \ {s} : session'[t] = session[t]
  BY ContinueKeepsOthers
<1>2. \A t \in exposed' : t \in Session /\ session'[t].pc \in Busy
  BY <1>1 DEF OnlyHoldersAreExposed, TypeOK
<1>3. exposed \subseteq exposed' \cup {s}
  OBVIOUS
<1>4. QED
  BY <1>1, <1>2, <1>3, StepKnows

(* A command that ends has nothing to know.                                   *)
LEMMA ReturnKnows ==
  ASSUME TypeOK, TextsAreKnown, EditorsAreExposed, OnlyHoldersAreExposed,
         NEW s \in Session, Return(s), scratch' = scratch, typed' = typed,
         privateKey' = privateKey
  PROVE  TextsAreKnown' /\ EditorsAreExposed' /\ OnlyHoldersAreExposed'
<1>1. session'[s] = Idle /\ Idle.pc = "idle"
  BY IdleType, ContinueKeepsOthers DEF Return, Idle
<1>2. Knows(s)'
  BY <1>1 DEF Knows, At, HasPrevious
<1>3. QED
  BY <1>1, <1>2, IdleType, GoingOnKnows DEF Return

(* A command that has read a file knows its clear text.                       *)
LEMMA LoadKnows ==
  ASSUME TypeOK, TextsAreKnown, EditorsAreExposed, OnlyHoldersAreExposed,
         NEW s \in Session, session[s].pc \in {"idle", "next"}, NEW f \in File,
         NEW process \in Process, Load(s, f, process),
         scratch' = scratch, privateKey' = privateKey, exposed' = exposed,
         process.pc \in {"opened", "clear"},
         process.content \in {NoContent, ContentOf(f)}
  PROVE  TextsAreKnown' /\ EditorsAreExposed' /\ OnlyHoldersAreExposed'
<1> DEFINE loaded == [process EXCEPT !.file = f, !.text = ClearText(ContentOf(f))]
<1>1. /\ loaded \in Process /\ loaded.pc = process.pc
      /\ loaded.content = process.content /\ loaded.text = ClearText(ContentOf(f))
  BY ContentOfType, ClearTextType DEF Process
<1>2. Continue(s, loaded)
  BY DEF Load
<1> HIDE DEF loaded
<1>3. /\ session'[s] = loaded /\ typed'[s] = ClearText(ContentOf(f))
      /\ \A t \in Session \ {s} : typed'[t] = typed[t]
  BY <1>1, <1>2, ContinueKeepsOthers DEF Load, TypeOK
<1>4. Readable(ContentOf(f), privateKey) /\ Readable(NoContent, privateKey)
  BY DEF Load, Decryptable, Readable, NoContent
<1>5. Knows(s)'
  BY <1>1, <1>3, <1>4 DEF Knows, At, HasPrevious, Readable
<1>6. QED
  BY <1>1, <1>2, <1>3, <1>5, GoingOnKnows DEF Busy

LEMMA KnowsStep ==
  ASSUME SInv, TextsAreKnown, EditorsAreExposed, OnlyHoldersAreExposed, [Next]_vars
  PROVE  TextsAreKnown' /\ EditorsAreExposed' /\ OnlyHoldersAreExposed'
<1> DEFINE Goal == TextsAreKnown' /\ EditorsAreExposed' /\ OnlyHoldersAreExposed'
<1>0. /\ TypeOK /\ TodoLeft
      /\ \A s \in Session : session[s] \in Process
      /\ exposed \subseteq Session
  BY DEF SInv, TypeOK
<1>1. ASSUME NEW s \in Session, NEW f \in File, EditOpens(s, f) PROVE Goal
  <2> DEFINE opened == [Idle EXCEPT !.pc = "opened", !.content = ContentOf(f)]
  <2>1. opened \in Process /\ opened.pc = "opened" /\ opened.content = ContentOf(f)
    BY <1>0, IdleType, ContentOfType DEF Process
  <2>2. /\ Load(s, f, opened) /\ scratch' = scratch /\ privateKey' = privateKey
        /\ exposed' = exposed /\ session[s].pc = "idle"
    BY <1>1 DEF EditOpens, NewCommand, At, keys
  <2> HIDE DEF opened
  <2>3. QED
    BY <1>0, <2>1, <2>2, LoadKnows
<1>2. ASSUME NEW s \in Session, WriteScratch(s) PROVE Goal
  <2> DEFINE next == [session[s] EXCEPT !.pc = "editing"]
  <2>1. /\ next \in Process /\ next.pc = "editing" /\ Continue(s, next)
        /\ next.content = session[s].content
        /\ typed' = typed /\ privateKey' = privateKey
        /\ scratch' = session[s].text /\ At(s, "opened")
        /\ exposed' = exposed \cup (IF Editors = {} THEN {} ELSE Editors \cup {s})
    BY <1>0, <1>2 DEF WriteScratch, Process, keys
  <2> HIDE DEF next
  <2>2. session'[s] = next /\ \A t \in Session \ {s} : session'[t] = session[t]
    BY <1>0, <2>1, ContinueKeepsOthers
  <2>3. Knows(s) => Knows(s)'
    BY <2>1, <2>2 DEF Knows, At, HasPrevious, Readable
  <2>4. s \notin exposed' => Knows(s)'
    BY <2>1, <2>3 DEF TextsAreKnown
  <2>5. s \notin Editors
    BY <2>1 DEF Editors, At
  <2>6. ASSUME NEW t \in exposed' PROVE t \in Session /\ session'[t].pc \in Busy
    <3>1. t \in exposed \/ t \in Editors \/ t = s
      BY <2>1, <2>6
    <3>2. t \in Session /\ (t # s => session[t].pc \in Busy)
      BY <1>0, <3>1 DEF OnlyHoldersAreExposed, Editors, At, Busy
    <3>3. QED
      BY <2>1, <2>2, <3>2 DEF Busy
  <2>7. QED
    BY <1>0, <2>1, <2>2, <2>4, <2>5, <2>6, StepKnows
<1>3. ASSUME NEW s \in Session, NEW text \in Typed, EditorSaves(s, text) PROVE Goal
  <2>1. /\ session' = session /\ privateKey' = privateKey
        /\ exposed' = exposed /\ scratch' = text /\ At(s, "editing")
        /\ typed' = [typed EXCEPT ![s] = text]
    BY <1>3 DEF EditorSaves, keys
  <2>2. typed'[s] = text /\ \A t \in Session \ {s} : typed'[t] = typed[t]
    BY <1>0, <2>1 DEF TypeOK
  <2>3. s \notin exposed => Knows(s)'
    BY <2>1, <2>2 DEF TextsAreKnown, Knows, At, HasPrevious, Readable
  <2>4. Editors \ {s} \subseteq exposed
    BY <2>1 DEF EditorsAreExposed, Editors
  <2>5. \A t \in exposed' : t \in Session /\ session'[t].pc \in Busy
    BY <1>0, <2>1 DEF OnlyHoldersAreExposed
  <2>6. QED
    BY <1>0, <2>1, <2>2, <2>3, <2>4, <2>5, StepKnows
<1>4. ASSUME NEW s \in Session, ReadScratch(s) PROVE Goal
  <2> DEFINE next == [session[s] EXCEPT !.pc = "read", !.text = scratch]
  <2>1. /\ next \in Process /\ next.pc = "read" /\ Continue(s, next)
        /\ next.text = scratch /\ next.content = session[s].content
        /\ typed' = typed /\ privateKey' = privateKey
        /\ scratch' = scratch /\ scratch # Absent /\ At(s, "editing")
        /\ exposed' = exposed
    BY <1>0, <1>4 DEF ReadScratch, Process, TypeOK, history, keys
  <2> HIDE DEF next
  <2>2. session'[s] = next
    BY <1>0, <2>1, ContinueKeepsOthers
  <2>3. s \notin exposed' => Knows(s)'
    BY <2>1, <2>2 DEF TextsAreKnown, Knows, At, HasPrevious, Readable
  <2>4. QED
    BY <1>0, <2>1, <2>3, GoingOnKnows DEF Busy
<1>5. ASSUME NEW s \in Session, RemoveScratch(s) PROVE Goal
  <2> DEFINE next == [session[s] EXCEPT !.pc = "clear"]
  <2>1. /\ next \in Process /\ next.pc = "clear" /\ Continue(s, next)
        /\ next.text = session[s].text /\ next.content = session[s].content
        /\ typed' = typed /\ privateKey' = privateKey
        /\ scratch' = Absent /\ At(s, "read") /\ exposed' = exposed
    BY <1>0, <1>5 DEF RemoveScratch, Process, keys
  <2> HIDE DEF next
  <2>2. session'[s] = next
    BY <1>0, <2>1, ContinueKeepsOthers
  <2>3. s \notin exposed' => Knows(s)'
    BY <2>1, <2>2 DEF TextsAreKnown, Knows, At, HasPrevious, Readable
  <2>4. QED
    BY <1>0, <2>1, <2>3, GoingOnKnows DEF Busy
<1>6. ASSUME NEW s \in Session, Encrypt(s) PROVE Goal
  <2> DEFINE encrypted == Encrypted(session[s].text, session[s].content)
             next      == [session[s] EXCEPT !.pc = "encrypted", !.content = encrypted]
  <2>1. /\ encrypted \in Content
        /\ Readable(session[s].content, privateKey) => ClearText(encrypted) = session[s].text
    BY <1>0, EncryptedType, EncryptedText DEF Process, TypeOK
  <2>2. /\ Continue(s, next) /\ typed' = typed /\ scratch' = scratch
        /\ privateKey' = privateKey /\ exposed' = exposed /\ At(s, "clear")
    BY <1>6 DEF Encrypt, history, keys
  <2> HIDE DEF encrypted
  <2>3. next \in Process /\ next.pc = "encrypted" /\ next.content = encrypted
    BY <1>0, <2>1 DEF Process
  <2> HIDE DEF next
  <2>4. session'[s] = next
    BY <1>0, <2>2, <2>3, ContinueKeepsOthers
  <2>5. s \notin exposed' => Knows(s)'
    BY <2>1, <2>2, <2>3, <2>4 DEF TextsAreKnown, Knows, At, HasPrevious
  <2>6. QED
    BY <1>0, <2>2, <2>3, <2>5, GoingOnKnows DEF Busy
<1>7. ASSUME NEW s \in Session, Truncate(s) PROVE Goal
  <2> DEFINE next == [session[s] EXCEPT !.pc = "truncated"]
  <2>1. next \in Process /\ next.pc = "truncated" /\ next.content = session[s].content
    BY <1>0 DEF Process
  <2>2. /\ Continue(s, next) /\ typed' = typed /\ scratch' = scratch
        /\ privateKey' = privateKey /\ exposed' = exposed /\ At(s, "encrypted")
    BY <1>7 DEF Truncate, keys
  <2> HIDE DEF next
  <2>3. session'[s] = next
    BY <1>0, <2>1, <2>2, ContinueKeepsOthers
  <2>4. s \notin exposed' => Knows(s)'
    BY <2>1, <2>2, <2>3 DEF TextsAreKnown, Knows, At, HasPrevious
  <2>5. QED
    BY <1>0, <2>1, <2>2, <2>4, GoingOnKnows DEF Busy
<1>8. ASSUME NEW s \in Session, Write(s) PROVE Goal
  <2> DEFINE next == IF session[s].todo = {} THEN Idle
                     ELSE [Idle EXCEPT !.pc = "next", !.todo = session[s].todo]
  <2>1. next \in Process /\ next.pc \in {"next", "idle"}
    BY <1>0, IdleType DEF Process, Idle
  <2>2. /\ Continue(s, next) /\ typed' = typed /\ scratch' = scratch
        /\ privateKey' = privateKey /\ exposed' = exposed \ {s}
    BY <1>8 DEF Write, keys
  <2> HIDE DEF next
  <2>3. session'[s] = next
    BY <1>0, <2>1, <2>2, ContinueKeepsOthers
  <2>4. Knows(s)'
    BY <2>1, <2>3 DEF Knows, At, HasPrevious
  <2>5. QED
    BY <1>0, <2>1, <2>2, <2>4, GoingOnKnows
<1>9. ASSUME NEW s \in Session, NEW process \in Process, Continue(s, process),
             process.pc \notin Busy, session[s].pc \notin Busy,
             scratch' = scratch, typed' = typed, exposed' = exposed, privateKey' = privateKey
      PROVE  Goal
  <2>1. Knows(s)'
    BY <1>0, <1>9, ContinueKeepsOthers DEF Knows, At, HasPrevious, Busy
  <2>2. QED
    BY <1>0, <1>9, <2>1, GoingOnKnows DEF Busy
<1>10. ASSUME NEW s \in Session, NEW chosen \in SUBSET File, ReEncryptStarts(s, chosen)
       PROVE  Goal
  <2> DEFINE next == [Idle EXCEPT !.pc = "next", !.todo = chosen]
  <2>1. next \in Process /\ next.pc = "next"
    BY IdleType DEF Process
  <2>2. /\ Continue(s, next) /\ typed' = typed /\ scratch' = scratch
        /\ privateKey' = privateKey /\ exposed' = exposed /\ At(s, "idle")
    BY <1>10 DEF ReEncryptStarts, NewCommand, keys
  <2> HIDE DEF next
  <2>3. QED
    BY <2>1, <2>2, <1>9 DEF At, Busy
<1>11. ASSUME NEW s \in Session, ReEncryptReads(s) PROVE Goal
  <2> DEFINE next == [Advanced(s) EXCEPT !.content = NoContent]
  <2>1. First(session[s].todo) \in File
    BY <1>0, <1>11, FirstType DEF ReEncryptReads, Process, TodoLeft
  <2>2. next \in Process /\ next.pc = "clear" /\ next.content = NoContent
    BY <1>0, NoContentType DEF Advanced, Process
  <2>3. /\ Load(s, First(session[s].todo), next) /\ session[s].pc = "next"
        /\ scratch' = scratch /\ privateKey' = privateKey /\ exposed' = exposed
    BY <1>11 DEF ReEncryptReads, At, keys
  <2> HIDE DEF next
  <2>4. QED
    BY <1>0, <2>1, <2>2, <2>3, LoadKnows
<1>12. ASSUME NEW s \in Session, NEW key \in Key, GenerateStarts(s, key) PROVE Goal
  <2> DEFINE next == [Idle EXCEPT !.pc = "unpublished", !.pair = key]
  <2>1. next \in Process /\ next.pc = "unpublished"
    BY IdleType DEF Process
  <2>2. /\ Continue(s, next) /\ typed' = typed /\ scratch' = scratch
        /\ privateKey' = privateKey /\ exposed' = exposed /\ At(s, "idle")
    BY <1>12 DEF GenerateStarts, NewCommand, history
  <2> HIDE DEF next
  <2>3. QED
    BY <2>1, <2>2, <1>9 DEF At, Busy
<1>13. ASSUME NEW s \in Session,
              \/ CreatePublicKey(s) \/ WritePublicKey(s) \/ FindNoPrivateKey(s)
              \/ CreatePrivateKey(s) \/ WritePrivateKey(s)
       PROVE  Goal
  <2>1. PICK process \in Process :
               Continue(s, process) /\ process.pc \in Generating \cup {"idle"}
    BY <1>0, <1>13, GenerateGoesOn
  <2>2. session[s].pc \in Generating /\ scratch' = scratch /\ typed' = typed
    BY <1>0, <1>13, GenerateGoesOn
  <2>3. process.pc \notin Busy /\ session[s].pc \notin Busy
    BY <2>1, <2>2 DEF Generating, Busy
  <2>4. CASE CreatePublicKey(s) \/ WritePublicKey(s) \/ FindNoPrivateKey(s)
    <3>1. exposed' = exposed /\ privateKey' = privateKey
      BY <2>4 DEF CreatePublicKey, WritePublicKey, FindNoPrivateKey, history, keys
    <3>2. QED
      BY <2>1, <2>2, <2>3, <3>1, <1>9
  <2>5. CASE CreatePrivateKey(s) \/ WritePrivateKey(s)
    <3>1. exposed' = exposed \cup CannotCompare(privateKey')
      BY <2>5 DEF CreatePrivateKey, WritePrivateKey, SetPrivateKey
    <3>2. /\ session'[s] = process
          /\ \A t \in Session \ {s} : session'[t] = session[t]
      BY <1>0, <2>1, ContinueKeepsOthers
    <3>3. ASSUME NEW t \in exposed' PROVE t \in Session /\ session'[t].pc \in Busy
      <4>1. t \in Session /\ session[t].pc \in Busy
        BY <1>0, <3>1 DEF OnlyHoldersAreExposed, CannotCompare, HasPrevious, Busy
      <4>2. QED
        BY <2>3, <3>2, <4>1
    <3>4. Knows(s)'
      BY <2>3, <3>2 DEF Knows, At, HasPrevious, Busy
    <3>5. session'[s].pc # "editing"
      BY <2>3, <3>2 DEF Busy
    <3>6. QED
      BY <1>0, <2>2, <3>1, <3>2, <3>3, <3>4, <3>5, StepKnows
  <2>6. QED
    BY <1>13, <2>4, <2>5
<1>14. ASSUME NEW key \in issued \cup {Absent}, ChangePrivateKey(key) PROVE Goal
  <2>1. /\ session' = session /\ typed' = typed /\ scratch' = scratch
        /\ exposed' = exposed \cup CannotCompare(privateKey')
    BY <1>14 DEF ChangePrivateKey, SetPrivateKey
  <2>2. OnlyHoldersAreExposed'
    BY <1>0, <2>1 DEF OnlyHoldersAreExposed, CannotCompare, HasPrevious, Busy
  <2>3. EditorsAreExposed'
    BY <2>1 DEF EditorsAreExposed, Editors, At
  <2>4. TextsAreKnown'
    BY <2>1 DEF TextsAreKnown, CannotCompare, Knows, At, HasPrevious, Readable
  <2>5. QED
    BY <2>2, <2>3, <2>4
<1>15. ASSUME (\E key \in issued : ChangePublicKeys(key)) \/ UNCHANGED vars PROVE Goal
  BY <1>15 DEF ChangePublicKeys, vars, history, keys, TextsAreKnown, EditorsAreExposed,
               OnlyHoldersAreExposed, Editors, Knows, At, HasPrevious, Readable
<1>16. ASSUME NEW s \in Session,
              \/ EditorFails(s) \/ ScratchIsGone(s) \/ EncryptFails(s)
              \/ ReEncryptFails(s) \/ FindPrivateKey(s) \/ Crash(s)
       PROVE  Goal
  <2>1. Return(s) /\ scratch' = scratch /\ typed' = typed /\ privateKey' = privateKey
    BY <1>16 DEF EditorFails, ScratchIsGone, EncryptFails, ReEncryptFails, FindPrivateKey,
                 Crash, keys
  <2>2. QED
    BY <1>0, <2>1, ReturnKnows
<1>17. EncryptedFiles \subseteq File
  BY DEF EncryptedFiles
<1>18. QED
  BY <1>1, <1>2, <1>3, <1>4, <1>5, <1>6, <1>7, <1>8, <1>10, <1>11, <1>12, <1>13,
     <1>14, <1>15, <1>16, <1>17
     DEF Next, Edit, WriteEncryptedContent, ReEncrypt, GenerateKey

LEMMA InitRInv == Init => RInv
<1>1. Init => exposed = {} /\ \A s \in Session : session[s].pc = "idle"
  BY DEF Init, Idle
<1>2. Init => TextsAreKnown /\ EditorsAreExposed /\ OnlyHoldersAreExposed
  BY <1>1 DEF TextsAreKnown, EditorsAreExposed, OnlyHoldersAreExposed, Editors, Knows, At,
              HasPrevious
<1>3. QED
  BY <1>2, InitSInv DEF RInv

LEMMA KnownInvariant == Spec => []RInv
<1>1. SInv /\ SInv' /\ RInv /\ [Next]_vars => RInv'
  BY KnowsStep DEF RInv
<1>2. QED
  BY InitRInv, <1>1, DirectoryInvariant, PTL DEF Spec

-----------------------------------------------------------------------------
(* The state of Vault.                                                      *)

clearBar == [f \in File |-> ClearText(ContentOf(f))]
deskBar  == [s \in Session |-> DeskOf(s)]

Held(file, text, place) == [file |-> file, text |-> text, place |-> place]

PlaceIn(pc) == IF pc = "editing" THEN "editor"
               ELSE IF pc = "truncated" THEN "writing" ELSE "desk"

(* What a session holds, in terms of where it is.                             *)
LEMMA DeskIs ==
  ASSUME NEW s \in Session
  PROVE  /\ DeskOf(s) = IF session[s].pc \in Busy
                        THEN Held(session[s].file, typed[s], PlaceIn(session[s].pc))
                        ELSE Absent
         /\ DeskOf(s)' = IF session'[s].pc \in Busy
                         THEN Held(session'[s].file, typed'[s], PlaceIn(session'[s].pc))
                         ELSE Absent
BY DEF DeskOf, Busy, Held, PlaceIn, At

(* A desk that is not empty.                                                  *)
LEMMA HoldsText ==
  ASSUME TypeOK, NEW s \in Session, session[s].pc \in Busy
  PROVE  /\ DeskOf(s) = Held(session[s].file, typed[s], PlaceIn(session[s].pc))
         /\ session[s].file \in File /\ typed[s] \in Text
         /\ V!Holds(s, PlaceIn(session[s].pc))
<1>1. session[s].file \in File /\ typed[s] \in Text
  BY DEF TypeOK, Busy
<1>2. DeskOf(s) = Held(session[s].file, typed[s], PlaceIn(session[s].pc))
  BY DeskIs
<1>3. DeskOf(s) \in [file : File, text : Text, place : {"desk", "editor", "writing"}]
  BY <1>1, <1>2 DEF Held, PlaceIn
<1>4. DeskOf(s) # Absent
  BY <1>3, SecretsAssumption
<1>5. DeskOf(s).place = PlaceIn(session[s].pc)
  BY <1>2 DEF Held
<1>6. QED
  BY <1>1, <1>2, <1>4, <1>5 DEF V!Holds, deskBar

LEMMA OthersKeepTheirs ==
  ASSUME NEW s \in Session,
         \A t \in Session \ {s} : session'[t] = session[t] /\ typed'[t] = typed[t]
  PROVE  deskBar' = [deskBar EXCEPT ![s] = DeskOf(s)']
<1>1. ASSUME NEW t \in Session \ {s} PROVE DeskOf(t)' = DeskOf(t)
  <2>1. session'[t] = session[t] /\ typed'[t] = typed[t]
    OBVIOUS
  <2>2. QED
    BY <2>1, DeskIs
<1>2. QED
  BY <1>1 DEF deskBar

LEMMA ClearStays ==
  ASSUME files' = files
  PROVE  clearBar' = clearBar
BY DEF clearBar, ContentOf

LEMMA ClearChanges ==
  ASSUME TypeOK, NEW file \in File, NEW content \in Content,
         files' = [files EXCEPT ![file] = content]
  PROVE  clearBar' = [clearBar EXCEPT ![file] = ClearText(content)]
<1>1. content # Absent
  BY SecretsAssumption
<1>2. ASSUME NEW f \in File
      PROVE  ContentOf(f)' = IF f = file THEN content ELSE ContentOf(f)
  BY <1>1 DEF ContentOf, TypeOK
<1>3. QED
  BY <1>2 DEF clearBar

LEMMA EditorsAre ==
  ASSUME TypeOK
  PROVE  V!Editors = Editors
<1>1. ASSUME NEW s \in Session PROVE V!Holds(s, "editor") <=> session[s].pc = "editing"
  <2>1. CASE session[s].pc \in Busy
    <3>1. DeskOf(s).place = PlaceIn(session[s].pc) /\ V!Holds(s, PlaceIn(session[s].pc))
      BY <2>1, HoldsText DEF Held
    <3>2. QED
      BY <3>1 DEF V!Holds, deskBar, PlaceIn
  <2>2. CASE session[s].pc \notin Busy
    BY <2>2, DeskIs DEF V!Holds, deskBar, Busy
  <2>3. QED
    BY <2>1, <2>2
<1>2. QED
  BY <1>1 DEF V!Editors, Editors, At

-----------------------------------------------------------------------------
(* Every step of Secrets is one of Vault, or none.                          *)

Implemented == [V!Next]_V!vars

LEMMA Stutters ==
  ASSUME clearBar' = clearBar, deskBar' = deskBar, exposed' = exposed
  PROVE  Implemented
BY DEF Implemented, V!vars, clearBar, deskBar

(* A command that reads a file takes it.                                      *)
LEMMA LoadTakes ==
  ASSUME TypeOK, NEW s \in Session, NEW f \in File, NEW process \in Process,
         Load(s, f, process), session[s].pc \in {"idle", "next"}, files' = files,
         exposed' = exposed, process.pc \in {"opened", "clear"}
  PROVE  Implemented
<1> DEFINE loaded == [process EXCEPT !.file = f, !.text = ClearText(ContentOf(f))]
<1>1. loaded \in Process /\ loaded.pc = process.pc /\ loaded.file = f
  BY ContentOfType, ClearTextType DEF Process
<1>2. Continue(s, loaded)
  BY DEF Load
<1> HIDE DEF loaded
<1>3. /\ session'[s] = loaded /\ typed'[s] = ClearText(ContentOf(f))
      /\ \A t \in Session \ {s} : session'[t] = session[t] /\ typed'[t] = typed[t]
  BY <1>1, <1>2, ContinueKeepsOthers DEF Load, TypeOK
<1>4. DeskOf(s) = Absent
  BY DeskIs DEF Busy
<1>5. DeskOf(s)' = Held(f, ClearText(ContentOf(f)), "desk")
  BY <1>1, <1>3, DeskIs DEF Busy, PlaceIn
<1>6. clearBar' = clearBar /\ deskBar' = [deskBar EXCEPT ![s] = DeskOf(s)']
  BY <1>3, ClearStays, OthersKeepTheirs
<1>7. clearBar[f] = ClearText(ContentOf(f)) /\ deskBar[s] = DeskOf(s)
  BY DEF clearBar, deskBar
<1>8. V!Take(s, f)
  BY <1>4, <1>5, <1>6, <1>7 DEF V!Take, Held, clearBar, deskBar
<1>9. QED
  BY <1>8 DEF Implemented, V!Next

(* A command that ends without writing gives up its file, if it had one; one   *)
(* that is killed while writing leaves the file as it is.                     *)
LEMMA ReturnLeaves ==
  ASSUME TypeOK, OnlyHoldersAreExposed, NEW s \in Session, Return(s), files' = files,
         typed' = typed
  PROVE  Implemented
<1>1. session'[s] = Idle /\ \A t \in Session \ {s} : session'[t] = session[t]
  BY IdleType, ContinueKeepsOthers DEF Return
<1>2. DeskOf(s)' = Absent
  BY <1>1, DeskIs DEF Busy, Idle
<1>3. clearBar' = clearBar /\ deskBar' = [deskBar EXCEPT ![s] = DeskOf(s)']
  BY <1>1, ClearStays, OthersKeepTheirs
<1>4. V!Leave(s)
  BY <1>2, <1>3 DEF V!Leave, Return, deskBar
<1>5. CASE session[s].pc \in Busy
  <2>1. V!Holds(s, "desk") \/ V!Holds(s, "editor") \/ V!Holds(s, "writing")
    BY <1>5, HoldsText DEF PlaceIn
  <2>2. V!GiveUp(s) \/ V!Die(s)
    BY <1>3, <1>4, <2>1 DEF V!GiveUp, V!Die, clearBar
  <2>3. QED
    BY <2>2 DEF Implemented, V!Next
<1>6. CASE session[s].pc \notin Busy
  <2>1. exposed' = exposed
    BY <1>6 DEF OnlyHoldersAreExposed, Return
  <2>2. DeskOf(s) = Absent
    BY <1>6, DeskIs
  <2>3. deskBar' = deskBar
    BY <1>2, <1>3, <2>2 DEF deskBar
  <2>4. QED
    BY <1>3, <2>1, <2>3, Stutters
<1>7. QED
  BY <1>5, <1>6

(* A command that goes on at its desk, or still has none, does nothing that   *)
(* Vault sees.                                                                *)
LEMMA GoingOnStutters ==
  ASSUME TypeOK, NEW s \in Session, NEW process \in Process, Continue(s, process),
         files' = files, typed' = typed, exposed' = exposed,
         \/ process.pc \notin Busy /\ session[s].pc \notin Busy
         \/ /\ process.pc \in Busy /\ session[s].pc \in Busy
            /\ process.file = session[s].file
            /\ PlaceIn(process.pc) = PlaceIn(session[s].pc)
  PROVE  Implemented
<1>1. session'[s] = process /\ \A t \in Session \ {s} : session'[t] = session[t]
  BY ContinueKeepsOthers
<1>2. DeskOf(s)' = DeskOf(s)
  BY <1>1, DeskIs
<1>3. clearBar' = clearBar /\ deskBar' = [deskBar EXCEPT ![s] = DeskOf(s)']
  BY <1>1, ClearStays, OthersKeepTheirs
<1>4. deskBar' = deskBar
  BY <1>2, <1>3 DEF deskBar
<1>5. QED
  BY <1>3, <1>4, Stutters

(* An editor is opened.                                                       *)
LEMMA WriteScratchOpens ==
  ASSUME TypeOK, NEW s \in Session, WriteScratch(s)
  PROVE  Implemented
<1> DEFINE next == [session[s] EXCEPT !.pc = "editing"]
<1>1. next \in Process /\ next.pc = "editing" /\ next.file = session[s].file
  BY DEF TypeOK, Process
<1>2. /\ Continue(s, next) /\ files' = files /\ typed' = typed /\ session[s].pc = "opened"
      /\ exposed' = exposed \cup (IF Editors = {} THEN {} ELSE Editors \cup {s})
  BY DEF WriteScratch, At
<1> HIDE DEF next
<1>3. session'[s] = next /\ \A t \in Session \ {s} : session'[t] = session[t]
  BY <1>1, <1>2, ContinueKeepsOthers
<1>4. DeskOf(s) = Held(session[s].file, typed[s], "desk") /\ V!Holds(s, "desk")
  BY <1>2, HoldsText DEF Busy, PlaceIn
<1>5. DeskOf(s)' = [DeskOf(s) EXCEPT !.place = "editor"]
  <2>1. DeskOf(s)' = Held(session[s].file, typed[s], "editor")
    BY <1>1, <1>2, <1>3, DeskIs DEF Busy, PlaceIn
  <2>2. QED
    BY <1>4, <2>1 DEF Held
<1>6. clearBar' = clearBar /\ deskBar' = [deskBar EXCEPT ![s] = DeskOf(s)']
  BY <1>2, <1>3, ClearStays, OthersKeepTheirs
<1>7. deskBar' = [deskBar EXCEPT ![s].place = "editor"]
  BY <1>5, <1>6 DEF deskBar
<1>8. V!OpenEditor(s)
  BY <1>2, <1>4, <1>6, <1>7, EditorsAre DEF V!OpenEditor, clearBar, deskBar
<1>9. QED
  BY <1>8 DEF Implemented, V!Next

(* The user types.                                                            *)
LEMMA EditorSavesTypes ==
  ASSUME TypeOK, NEW s \in Session, NEW text \in Typed, EditorSaves(s, text)
  PROVE  Implemented
<1>1. /\ session' = session /\ files' = files /\ session[s].pc = "editing"
      /\ typed'[s] = text /\ exposed' = exposed
      /\ \A t \in Session \ {s} : typed'[t] = typed[t]
  BY DEF TypeOK, EditorSaves, At
<1>2. DeskOf(s) = Held(session[s].file, typed[s], "editor") /\ V!Holds(s, "editor")
  BY <1>1, HoldsText DEF Busy, PlaceIn
<1>3. DeskOf(s)' = [DeskOf(s) EXCEPT !.text = text]
  <2>1. DeskOf(s)' = Held(session[s].file, text, "editor")
    BY <1>1, DeskIs DEF Busy, PlaceIn
  <2>2. QED
    BY <1>2, <2>1 DEF Held
<1>4. clearBar' = clearBar /\ deskBar' = [deskBar EXCEPT ![s] = DeskOf(s)']
  BY <1>1, ClearStays, OthersKeepTheirs
<1>5. text \in Text /\ deskBar' = [deskBar EXCEPT ![s].text = text]
  BY <1>3, <1>4, SecretsAssumption DEF deskBar
<1>6. V!Type(s)
  BY <1>1, <1>2, <1>4, <1>5 DEF V!Type, clearBar, deskBar
<1>7. QED
  BY <1>6 DEF Implemented, V!Next

(* The editor is closed.                                                      *)
LEMMA ReadScratchCloses ==
  ASSUME TypeOK, NEW s \in Session, ReadScratch(s)
  PROVE  Implemented
<1> DEFINE next == [session[s] EXCEPT !.pc = "read", !.text = scratch]
<1>1. next \in Process /\ next.pc = "read" /\ next.file = session[s].file
  BY DEF TypeOK, Process, ReadScratch
<1>2. /\ Continue(s, next) /\ files' = files /\ typed' = typed
      /\ session[s].pc = "editing" /\ exposed' = exposed
  BY DEF ReadScratch, At, history
<1> HIDE DEF next
<1>3. session'[s] = next /\ \A t \in Session \ {s} : session'[t] = session[t]
  BY <1>1, <1>2, ContinueKeepsOthers
<1>4. DeskOf(s) = Held(session[s].file, typed[s], "editor") /\ V!Holds(s, "editor")
  BY <1>2, HoldsText DEF Busy, PlaceIn
<1>5. DeskOf(s)' = [DeskOf(s) EXCEPT !.place = "desk"]
  <2>1. DeskOf(s)' = Held(session[s].file, typed[s], "desk")
    BY <1>1, <1>2, <1>3, DeskIs DEF Busy, PlaceIn
  <2>2. QED
    BY <1>4, <2>1 DEF Held
<1>6. clearBar' = clearBar /\ deskBar' = [deskBar EXCEPT ![s] = DeskOf(s)']
  BY <1>2, <1>3, ClearStays, OthersKeepTheirs
<1>7. deskBar' = [deskBar EXCEPT ![s].place = "desk"]
  BY <1>5, <1>6 DEF deskBar
<1>8. V!CloseEditor(s)
  BY <1>2, <1>4, <1>6, <1>7 DEF V!CloseEditor, clearBar, deskBar
<1>9. QED
  BY <1>8 DEF Implemented, V!Next

(* os.WriteFile empties the file.                                             *)
LEMMA TruncateBegins ==
  ASSUME TypeOK, NEW s \in Session, Truncate(s)
  PROVE  Implemented
<1> DEFINE next == [session[s] EXCEPT !.pc = "truncated"]
<1>1. next \in Process /\ next.pc = "truncated" /\ next.file = session[s].file
  BY DEF TypeOK, Process
<1>2. /\ Continue(s, next) /\ typed' = typed /\ session[s].pc = "encrypted"
      /\ files' = [files EXCEPT ![session[s].file] = NoContent] /\ exposed' = exposed
  BY DEF Truncate, At
<1> HIDE DEF next
<1>3. session'[s] = next /\ \A t \in Session \ {s} : session'[t] = session[t]
  BY <1>1, <1>2, ContinueKeepsOthers
<1>4. /\ DeskOf(s) = Held(session[s].file, typed[s], "desk") /\ V!Holds(s, "desk")
      /\ session[s].file \in File
  BY <1>2, HoldsText DEF Busy, PlaceIn
<1>5. DeskOf(s)' = [DeskOf(s) EXCEPT !.place = "writing"]
  <2>1. DeskOf(s)' = Held(session[s].file, typed[s], "writing")
    BY <1>1, <1>2, <1>3, DeskIs DEF Busy, PlaceIn
  <2>2. QED
    BY <1>4, <2>1 DEF Held
<1>6. ClearText(NoContent) = EmptyText
  BY DEF ClearText, NoContent, EmptyText
<1>7. clearBar' = [clearBar EXCEPT ![deskBar[s].file] = EmptyText]
  <2>1. deskBar[s].file = session[s].file
    BY <1>4 DEF deskBar, Held
  <2>2. QED
    BY <1>2, <1>4, <1>6, <2>1, ClearChanges, NoContentType
<1>8. deskBar' = [deskBar EXCEPT ![s].place = "writing"]
  BY <1>2, <1>3, <1>5, OthersKeepTheirs DEF deskBar
<1>9. V!Begin(s)
  BY <1>2, <1>4, <1>7, <1>8 DEF V!Begin, clearBar, deskBar
<1>10. QED
  BY <1>9 DEF Implemented, V!Next

(* And writes it: what the user wants there, unless the session is exposed.   *)
LEMMA WritePuts ==
  ASSUME TypeOK, TextsAreKnown, NEW s \in Session, Write(s)
  PROVE  Implemented
<1> DEFINE next == IF session[s].todo = {} THEN Idle
                   ELSE [Idle EXCEPT !.pc = "next", !.todo = session[s].todo]
<1>1. next \in Process /\ next.pc \in {"next", "idle"}
  BY IdleType DEF TypeOK, Process, Idle
<1>2. /\ Continue(s, next) /\ typed' = typed /\ session[s].pc = "truncated"
      /\ files' = [files EXCEPT ![session[s].file] = session[s].content]
      /\ exposed' = exposed \ {s}
  BY DEF Write, At
<1> HIDE DEF next
<1>3. session'[s] = next /\ \A t \in Session \ {s} : session'[t] = session[t]
  BY <1>1, <1>2, ContinueKeepsOthers
<1>4. /\ DeskOf(s) = Held(session[s].file, typed[s], "writing") /\ V!Holds(s, "writing")
      /\ session[s].file \in File /\ session[s].content \in Content
  BY <1>2, HoldsText DEF Busy, PlaceIn, TypeOK, Process
<1>5. DeskOf(s)' = Absent
  BY <1>1, <1>3, DeskIs DEF Busy
<1>6. PICK text \in Text : text = ClearText(session[s].content)
  BY <1>4, ClearTextType
<1>7. deskBar[s].file = session[s].file /\ deskBar[s].text = typed[s]
  BY <1>4 DEF deskBar, Held
<1>8. clearBar' = [clearBar EXCEPT ![deskBar[s].file] = text]
  BY <1>2, <1>4, <1>6, <1>7, ClearChanges
<1>9. s \notin exposed => text = deskBar[s].text
  BY <1>2, <1>6, <1>7 DEF TextsAreKnown, Knows
<1>10. V!Leave(s)
  BY <1>2, <1>3, <1>5, OthersKeepTheirs DEF V!Leave, deskBar
<1>11. V!Put(s)
  BY <1>4, <1>8, <1>9, <1>10 DEF V!Put, clearBar, deskBar
<1>12. QED
  BY <1>11 DEF Implemented, V!Next

(* The private key is exchanged.                                              *)
LEMMA KeyIsExchanged ==
  ASSUME TypeOK, files' = files, typed' = typed, deskBar' = deskBar,
         exposed' = exposed \cup CannotCompare(privateKey')
  PROVE  Implemented
<1>1. ASSUME NEW s \in CannotCompare(privateKey')
      PROVE  s \in Session /\ (V!Holds(s, "desk") \/ V!Holds(s, "editor"))
  <2>1. s \in Session /\ session[s].pc \in Busy /\ session[s].pc # "truncated"
    BY <1>1 DEF CannotCompare, HasPrevious, Busy
  <2>2. QED
    BY <2>1, HoldsText DEF PlaceIn
<1>2. clearBar' = clearBar
  BY ClearStays
<1>3. V!ExchangeKey
  BY <1>1, <1>2 DEF V!ExchangeKey, clearBar, deskBar
<1>4. QED
  BY <1>3 DEF Implemented, V!Next

LEMMA RefinementStep ==
  ASSUME RInv, [Next]_vars
  PROVE  Implemented
<1>0. /\ TypeOK /\ TodoLeft /\ TextsAreKnown /\ OnlyHoldersAreExposed
      /\ \A s \in Session : session[s] \in Process
  BY DEF RInv, SInv, TypeOK
<1>1. ASSUME NEW s \in Session, NEW f \in File, EditOpens(s, f) PROVE Implemented
  <2> DEFINE opened == [Idle EXCEPT !.pc = "opened", !.content = ContentOf(f)]
  <2>1. opened \in Process /\ opened.pc = "opened"
    BY <1>0, IdleType, ContentOfType DEF Process
  <2>2. /\ Load(s, f, opened) /\ files' = files /\ exposed' = exposed
        /\ session[s].pc = "idle"
    BY <1>1 DEF EditOpens, NewCommand, At
  <2> HIDE DEF opened
  <2>3. QED
    BY <1>0, <2>1, <2>2, LoadTakes
<1>2. ASSUME NEW s \in Session, WriteScratch(s) PROVE Implemented
  BY <1>0, <1>2, WriteScratchOpens
<1>3. ASSUME NEW s \in Session, NEW text \in Typed, EditorSaves(s, text)
      PROVE  Implemented
  BY <1>0, <1>3, EditorSavesTypes
<1>4. ASSUME NEW s \in Session, ReadScratch(s) PROVE Implemented
  BY <1>0, <1>4, ReadScratchCloses
<1>5. ASSUME NEW s \in Session, RemoveScratch(s) PROVE Implemented
  <2> DEFINE next == [session[s] EXCEPT !.pc = "clear"]
  <2>1. next \in Process /\ next.pc = "clear" /\ next.file = session[s].file
    BY <1>0 DEF Process
  <2>2. /\ Continue(s, next) /\ files' = files /\ typed' = typed /\ exposed' = exposed
        /\ session[s].pc = "read"
    BY <1>5 DEF RemoveScratch, At
  <2> HIDE DEF next
  <2>3. QED
    BY <1>0, <2>1, <2>2, GoingOnStutters DEF Busy, PlaceIn
<1>6. ASSUME NEW s \in Session, Encrypt(s) PROVE Implemented
  <2> DEFINE encrypted == Encrypted(session[s].text, session[s].content)
             next      == [session[s] EXCEPT !.pc = "encrypted", !.content = encrypted]
  <2>1. encrypted \in Content
    BY <1>0, EncryptedType DEF Process, TypeOK
  <2>2. /\ Continue(s, next) /\ files' = files /\ typed' = typed /\ exposed' = exposed
        /\ session[s].pc = "clear"
    BY <1>6 DEF Encrypt, history, At
  <2> HIDE DEF encrypted
  <2>3. next \in Process /\ next.pc = "encrypted" /\ next.file = session[s].file
    BY <1>0, <2>1 DEF Process
  <2> HIDE DEF next
  <2>4. QED
    BY <1>0, <2>2, <2>3, GoingOnStutters DEF Busy, PlaceIn
<1>7. ASSUME NEW s \in Session, Truncate(s) PROVE Implemented
  BY <1>0, <1>7, TruncateBegins
<1>8. ASSUME NEW s \in Session, Write(s) PROVE Implemented
  BY <1>0, <1>8, WritePuts
<1>9. ASSUME NEW s \in Session, NEW chosen \in SUBSET File, ReEncryptStarts(s, chosen)
      PROVE  Implemented
  <2> DEFINE next == [Idle EXCEPT !.pc = "next", !.todo = chosen]
  <2>1. next \in Process /\ next.pc = "next"
    BY IdleType DEF Process
  <2>2. /\ Continue(s, next) /\ files' = files /\ typed' = typed /\ exposed' = exposed
        /\ session[s].pc = "idle"
    BY <1>9 DEF ReEncryptStarts, NewCommand, At
  <2> HIDE DEF next
  <2>3. QED
    BY <1>0, <2>1, <2>2, GoingOnStutters DEF Busy
<1>10. ASSUME NEW s \in Session, ReEncryptReads(s) PROVE Implemented
  <2> DEFINE next == [Advanced(s) EXCEPT !.content = NoContent]
  <2>1. First(session[s].todo) \in File
    BY <1>0, <1>10, FirstType DEF ReEncryptReads, Process, TodoLeft
  <2>2. next \in Process /\ next.pc = "clear"
    BY <1>0, NoContentType DEF Advanced, Process
  <2>3. /\ Load(s, First(session[s].todo), next) /\ files' = files /\ exposed' = exposed
        /\ session[s].pc = "next"
    BY <1>10 DEF ReEncryptReads, At
  <2> HIDE DEF next
  <2>4. QED
    BY <1>0, <2>1, <2>2, <2>3, LoadTakes
<1>11. ASSUME NEW s \in Session, NEW key \in Key, GenerateStarts(s, key)
       PROVE  Implemented
  <2> DEFINE next == [Idle EXCEPT !.pc = "unpublished", !.pair = key]
  <2>1. next \in Process /\ next.pc = "unpublished"
    BY IdleType DEF Process
  <2>2. /\ Continue(s, next) /\ files' = files /\ typed' = typed /\ exposed' = exposed
        /\ session[s].pc = "idle"
    BY <1>11 DEF GenerateStarts, NewCommand, history, At
  <2> HIDE DEF next
  <2>3. QED
    BY <1>0, <2>1, <2>2, GoingOnStutters DEF Busy
<1>12. ASSUME NEW s \in Session,
              \/ CreatePublicKey(s) \/ WritePublicKey(s) \/ FindNoPrivateKey(s)
              \/ CreatePrivateKey(s) \/ WritePrivateKey(s)
       PROVE  Implemented
  <2>1. PICK process \in Process :
               Continue(s, process) /\ process.pc \in Generating \cup {"idle"}
    BY <1>0, <1>12, GenerateGoesOn
  <2>2. session[s].pc \in Generating /\ files' = files /\ typed' = typed
    BY <1>0, <1>12, GenerateGoesOn
  <2>3. process.pc \notin Busy /\ session[s].pc \notin Busy
    BY <2>1, <2>2 DEF Generating, Busy
  <2>4. CASE CreatePublicKey(s) \/ WritePublicKey(s) \/ FindNoPrivateKey(s)
    <3>1. exposed' = exposed
      BY <2>4 DEF CreatePublicKey, WritePublicKey, FindNoPrivateKey, history
    <3>2. QED
      BY <1>0, <2>1, <2>2, <2>3, <3>1, GoingOnStutters
  <2>5. CASE CreatePrivateKey(s) \/ WritePrivateKey(s)
    <3>1. exposed' = exposed \cup CannotCompare(privateKey')
      BY <2>5 DEF CreatePrivateKey, WritePrivateKey, SetPrivateKey
    <3>2. /\ session'[s] = process
          /\ \A t \in Session \ {s} : session'[t] = session[t]
      BY <1>0, <2>1, ContinueKeepsOthers
    <3>3. DeskOf(s) = Absent /\ DeskOf(s)' = Absent
      BY <2>3, <3>2, DeskIs
    <3>4. deskBar' = deskBar
      BY <2>2, <3>2, <3>3, OthersKeepTheirs DEF deskBar
    <3>5. QED
      BY <1>0, <2>2, <3>1, <3>4, KeyIsExchanged
  <2>6. QED
    BY <1>12, <2>4, <2>5
<1>13. ASSUME NEW s \in Session,
              \/ EditorFails(s) \/ ScratchIsGone(s) \/ EncryptFails(s)
              \/ ReEncryptFails(s) \/ FindPrivateKey(s) \/ Crash(s)
       PROVE  Implemented
  <2>1. Return(s) /\ files' = files /\ typed' = typed
    BY <1>13 DEF EditorFails, ScratchIsGone, EncryptFails, ReEncryptFails, FindPrivateKey,
                 Crash
  <2>2. QED
    BY <1>0, <2>1, ReturnLeaves
<1>14. ASSUME NEW key \in issued \cup {Absent}, ChangePrivateKey(key) PROVE Implemented
  <2>1. /\ session' = session /\ files' = files /\ typed' = typed
        /\ exposed' = exposed \cup CannotCompare(privateKey')
    BY <1>14 DEF ChangePrivateKey, SetPrivateKey
  <2>2. deskBar' = deskBar
    BY <2>1 DEF deskBar, DeskOf, At
  <2>3. QED
    BY <1>0, <2>1, <2>2, KeyIsExchanged
<1>15. ASSUME (\E key \in issued : ChangePublicKeys(key)) \/ UNCHANGED vars
       PROVE  Implemented
  <2>1. /\ session' = session /\ files' = files /\ typed' = typed
        /\ exposed' = exposed
    BY <1>15 DEF ChangePublicKeys, vars, history
  <2>2. clearBar' = clearBar /\ deskBar' = deskBar
    BY <2>1, ClearStays DEF deskBar, DeskOf, At
  <2>3. QED
    BY <2>1, <2>2, Stutters
<1>16. EncryptedFiles \subseteq File
  BY DEF EncryptedFiles
<1>17. QED
  BY <1>1, <1>2, <1>3, <1>4, <1>5, <1>6, <1>7, <1>8, <1>9, <1>10, <1>11, <1>12, <1>13,
     <1>14, <1>15, <1>16
     DEF Next, Edit, WriteEncryptedContent, ReEncrypt, GenerateKey

LEMMA RefinementInit == Init => V!Init
<1> SUFFICES ASSUME Init PROVE V!Init
  OBVIOUS
<1>1. TypeOK /\ exposed = {} /\ \A s \in Session : session[s].pc = "idle"
  BY InitSInv DEF SInv, Init, Idle
<1>2. ASSUME NEW f \in File PROVE ClearText(ContentOf(f)) \in Text
  BY <1>1, ContentOfType, ClearTextType
<1>3. \A s \in Session : DeskOf(s) = Absent
  BY <1>1, DeskIs DEF Busy
<1>4. QED
  BY <1>1, <1>2, <1>3 DEF V!Init

(* Secrets implements Vault: whatever the files, keys, texts and sessions, a  *)
(* command leaves in a file exactly the text its user wants there, unless     *)
(* another editor was open or the private key was exchanged meanwhile; one    *)
(* that fails changes no file, and one that is killed loses at most the file  *)
(* it was writing (Edit, reEncrypt, writeEncryptedContent).                   *)
THEOREM EditsAreTransactionsHold == Spec => EditsAreTransactions
<1>1. RInv /\ [Next]_vars => [V!Next]_V!vars
  BY RefinementStep DEF Implemented
<1>2. QED
  BY RefinementInit, <1>1, KnownInvariant, PTL DEF Spec, V!Spec, EditsAreTransactions

-----------------------------------------------------------------------------
(* Re-encryption of a whole directory.                                      *)

\* The sessions that work on a file.
Using(f) == {s \in Session : session[s].pc \in Busy /\ session[s].file = f}

EncryptedForAll(content) ==
  \A p \in Param : content[p] # NoParam => content[p].readers = publicKeys

\* A session that re-encrypts the directory on its own has done every file that
\* exists, but for those on its list and the one it has read; of that one it takes
\* over no previous cipher text.
Midway(s) ==
  /\ session[s].pc \in {"next", "clear", "encrypted", "truncated"}
  /\ At(s, "clear") => session[s].content = NoContent
  /\ session[s].pc \in {"encrypted", "truncated"} => EncryptedForAll(session[s].content)
  /\ \A f \in File : \/ files[f] = Absent \/ f \in session[s].todo \/ s \in Using(f)
                     \/ EncryptedForAll(files[f])

FreshInv == \A s \in fresh : Midway(s)

(* Without previous content every value is encrypted for all public keys.     *)
LEMMA EncryptedFromNothing ==
  ASSUME NEW text \in Text
  PROVE  EncryptedForAll(Encrypted(text, NoContent))
BY DEF EncryptedForAll, Encrypted, NoContent

(* What others do to their own process leaves a session midway.               *)
LEMMA MidwayStays ==
  ASSUME NEW s \in Session, Midway(s), session'[s] = session[s], files' = files,
         publicKeys' = publicKeys
  PROVE  Midway(s)'
BY DEF Midway, At, Using, Busy, EncryptedForAll

LEMMA MidwayAlone ==
  ASSUME TypeOK, FreshInv, NEW s \in Session, NEW process \in Process,
         Continue(s, process), files' = files, publicKeys' = publicKeys,
         fresh' \subseteq fresh \cup {s}, s \in fresh' => Midway(s)'
  PROVE  FreshInv'
<1>1. \A t \in Session \ {s} : session'[t] = session[t]
  BY ContinueKeepsOthers
<1>2. ASSUME NEW t \in fresh', t # s PROVE Midway(t)'
  <2>1. t \in fresh /\ t \in Session
    BY <1>2 DEF TypeOK
  <2>2. QED
    BY <1>1, <1>2, <2>1, MidwayStays DEF FreshInv
<1>3. QED
  BY <1>2 DEF FreshInv

LEMMA FreshStep ==
  ASSUME TypeOK, TodoLeft, FreshInv, [Next]_vars
  PROVE  FreshInv'
<1>0. /\ \A s \in Session : session[s] \in Process
      /\ fresh \subseteq Session
      /\ \A s \in fresh : session[s].pc \in {"next", "clear", "encrypted", "truncated"}
  BY DEF TypeOK, FreshInv, Midway
<1>1. ASSUME NEW s \in Session, NEW process \in Process, Continue(s, process),
             files' = files, publicKeys' = publicKeys, fresh' = fresh, s \notin fresh
      PROVE  FreshInv'
  BY <1>1, MidwayAlone
<1>2. ASSUME NEW s \in Session, NEW f \in File, EditOpens(s, f) PROVE FreshInv'
  <2> DEFINE opened == [Idle EXCEPT !.pc = "opened", !.content = ContentOf(f),
                          !.file = f, !.text = ClearText(ContentOf(f))]
  <2>1. opened \in Process
    BY IdleType, ContentOfType, ClearTextType DEF Process
  <2>2. /\ Continue(s, opened) /\ files' = files /\ publicKeys' = publicKeys
        /\ fresh' = fresh /\ At(s, "idle")
    BY <1>2, IdleType DEF EditOpens, NewCommand, Load, Continue, Process, keys
  <2> HIDE DEF opened
  <2>3. QED
    BY <1>0, <1>1, <2>1, <2>2 DEF At
<1>3. ASSUME NEW s \in Session, WriteScratch(s) \/ ReadScratch(s) \/ RemoveScratch(s)
      PROVE  FreshInv'
  <2>1. PICK process \in Process : Continue(s, process)
    BY <1>0, <1>3 DEF WriteScratch, ReadScratch, RemoveScratch, TypeOK, Process
  <2>2. /\ files' = files /\ publicKeys' = publicKeys /\ fresh' = fresh
        /\ session[s].pc \in {"opened", "editing", "read"}
    BY <1>3 DEF WriteScratch, ReadScratch, RemoveScratch, history, keys, At
  <2>3. QED
    BY <1>0, <1>1, <2>1, <2>2
<1>4. ASSUME \/ \E s \in Session, text \in Typed : EditorSaves(s, text)
             \/ \E key \in issued \cup {Absent} : ChangePrivateKey(key)
             \/ UNCHANGED vars
      PROVE  FreshInv'
  <2>1. /\ session' = session /\ files' = files /\ publicKeys' = publicKeys
        /\ fresh' = fresh
    BY <1>4 DEF EditorSaves, ChangePrivateKey, vars, history, keys
  <2>2. QED
    BY <1>0, <2>1, MidwayStays DEF FreshInv
<1>5. ASSUME NEW s \in Session,
             \/ EditorFails(s) \/ ScratchIsGone(s) \/ EncryptFails(s)
             \/ ReEncryptFails(s) \/ FindPrivateKey(s) \/ Crash(s)
      PROVE  FreshInv'
  <2>1. Return(s) /\ files' = files /\ publicKeys' = publicKeys
    BY <1>5 DEF EditorFails, ScratchIsGone, EncryptFails, ReEncryptFails,
                FindPrivateKey, Crash, keys
  <2>2. QED
    BY <2>1, IdleType, MidwayAlone DEF Return
<1>6. ASSUME NEW s \in Session, Encrypt(s) PROVE FreshInv'
  <2> DEFINE encrypted == Encrypted(session[s].text, session[s].content)
             next      == [session[s] EXCEPT !.pc = "encrypted", !.content = encrypted]
  <2>1. /\ encrypted \in Content
        /\ session[s].content = NoContent => EncryptedForAll(encrypted)
    BY <1>0, EncryptedType, EncryptedFromNothing DEF TypeOK, Process
  <2>2. /\ Continue(s, next) /\ files' = files /\ publicKeys' = publicKeys
        /\ fresh' = fresh /\ At(s, "clear")
    BY <1>6 DEF Encrypt, history, keys
  <2> HIDE DEF encrypted
  <2>3. /\ next \in Process /\ next.pc = "encrypted" /\ next.file = session[s].file
        /\ next.todo = session[s].todo /\ next.content = encrypted
    BY <1>0, <2>1 DEF Process
  <2> HIDE DEF next
  <2>4. session'[s] = next
    BY <2>2, <2>3, ContinueKeepsOthers
  <2>5. ASSUME s \in fresh PROVE Midway(s)'
    BY <2>1, <2>2, <2>3, <2>4, <2>5 DEF FreshInv, Midway, At, Using, Busy, EncryptedForAll
  <2>6. QED
    BY <2>2, <2>3, <2>5, MidwayAlone
<1>7. ASSUME NEW s \in Session, Truncate(s) PROVE FreshInv'
  <2> DEFINE next == [session[s] EXCEPT !.pc = "truncated"]
  <2>1. /\ next \in Process /\ next.pc = "truncated" /\ next.file = session[s].file
        /\ next.todo = session[s].todo /\ next.content = session[s].content
    BY <1>0 DEF Process
  <2>2. /\ Continue(s, next) /\ publicKeys' = publicKeys /\ fresh' \subseteq fresh \cap {s}
        /\ At(s, "encrypted") /\ files' = [files EXCEPT ![session[s].file] = NoContent]
    BY <1>7 DEF Truncate, keys
  <2> HIDE DEF next
  <2>3. session'[s] = next
    BY <2>1, <2>2, ContinueKeepsOthers
  <2>4. \A f \in File \ {session[s].file} : files'[f] = files[f]
    BY <2>2 DEF TypeOK
  <2>5. ASSUME s \in fresh PROVE Midway(s)'
    BY <2>1, <2>2, <2>3, <2>4, <2>5 DEF FreshInv, Midway, At, Using, Busy, EncryptedForAll
  <2>6. QED
    BY <2>2, <2>5 DEF FreshInv
<1>8. ASSUME NEW s \in Session, Write(s) PROVE FreshInv'
  <2>1. CASE session[s].todo = {}
    BY <1>8, <2>1 DEF Write, FreshInv
  <2>2. CASE session[s].todo # {}
    <3> DEFINE next == [Idle EXCEPT !.pc = "next", !.todo = session[s].todo]
    <3>1. next \in Process /\ next.pc = "next" /\ next.todo = session[s].todo
      BY <1>0, IdleType DEF Process
    <3>2. /\ Continue(s, next) /\ publicKeys' = publicKeys
          /\ fresh' \subseteq fresh \cap {s} /\ At(s, "truncated")
          /\ files' = [files EXCEPT ![session[s].file] = session[s].content]
      BY <1>8, <2>2 DEF Write, keys
    <3> HIDE DEF next
    <3>3. session'[s] = next
      BY <3>1, <3>2, ContinueKeepsOthers
    <3>4. /\ files'[session[s].file] = session[s].content
          /\ \A f \in File \ {session[s].file} : files'[f] = files[f]
      BY <3>2 DEF TypeOK, At
    <3>5. ASSUME s \in fresh PROVE Midway(s)'
      BY <3>1, <3>2, <3>3, <3>4, <3>5 DEF FreshInv, Midway, At, Using, Busy, EncryptedForAll
    <3>6. QED
      BY <3>2, <3>5 DEF FreshInv
  <2>3. QED
    BY <2>1, <2>2
<1>9. ASSUME NEW s \in Session, NEW chosen \in SUBSET File, ReEncryptStarts(s, chosen)
      PROVE  FreshInv'
  <2> DEFINE next == [Idle EXCEPT !.pc = "next", !.todo = chosen]
  <2>1. next \in Process /\ next.pc = "next" /\ next.todo = chosen
    BY IdleType DEF Process
  <2>2. /\ Continue(s, next) /\ files' = files /\ publicKeys' = publicKeys /\ At(s, "idle")
        /\ fresh' = IF chosen = EncryptedFiles THEN fresh \cup {s} ELSE fresh
    BY <1>9 DEF ReEncryptStarts, NewCommand, keys
  <2> HIDE DEF next
  <2>3. session'[s] = next
    BY <2>1, <2>2, ContinueKeepsOthers
  <2>4. ASSUME s \in fresh' PROVE Midway(s)'
    <3>1. s \notin fresh
      BY <1>0, <2>2 DEF At
    <3>2. chosen = EncryptedFiles
      BY <2>2, <2>4, <3>1
    <3>3. QED
      BY <2>1, <2>2, <2>3, <3>2 DEF Midway, At, EncryptedFiles
  <2>5. QED
    BY <2>1, <2>2, <2>4, MidwayAlone
<1>10. ASSUME NEW s \in Session, ReEncryptReads(s) PROVE FreshInv'
  <2>1. PICK f \in File : f = First(session[s].todo)
    BY <1>0, <1>10, FirstType DEF ReEncryptReads, Process, TodoLeft
  <2> DEFINE next == [session[s] EXCEPT !.pc = "clear", !.todo = @ \ {f},
                        !.content = NoContent, !.file = f,
                        !.text = ClearText(ContentOf(f))]
  <2>2. /\ next \in Process /\ next.pc = "clear" /\ next.file = f
        /\ next.todo = session[s].todo \ {f} /\ next.content = NoContent
    BY <1>0, NoContentType, ContentOfType, ClearTextType DEF Process
  <2>3. /\ Continue(s, next) /\ files' = files /\ publicKeys' = publicKeys
        /\ fresh' = fresh /\ At(s, "next")
    BY <1>0, <1>10, <2>1 DEF ReEncryptReads, Load, Continue, Advanced, Process, keys
  <2> HIDE DEF next
  <2>4. session'[s] = next
    BY <2>2, <2>3, ContinueKeepsOthers
  <2>5. ASSUME s \in fresh PROVE Midway(s)'
    <3>1. s \notin Using(f) /\ \A g \in File : s \notin Using(g)
      BY <2>3 DEF Using, Busy, At
    <3>2. QED
      BY <2>2, <2>3, <2>4, <2>5, <3>1 DEF FreshInv, Midway, At, Using, Busy, EncryptedForAll
  <2>6. QED
    BY <2>2, <2>3, <2>5, MidwayAlone
<1>11. ASSUME NEW s \in Session,
              \/ \E key \in Key : GenerateStarts(s, key)
              \/ FindNoPrivateKey(s) \/ CreatePrivateKey(s) \/ WritePrivateKey(s)
       PROVE  FreshInv'
  <2>1. PICK process \in Process : Continue(s, process)
    <3>1. ASSUME NEW key \in Key
          PROVE  [Idle EXCEPT !.pc = "unpublished", !.pair = key] \in Process
      BY IdleType DEF Process
    <3>2. QED
      BY <1>11, <3>1, GenerateGoesOn DEF GenerateStarts
  <2>2. /\ files' = files /\ publicKeys' = publicKeys /\ fresh' = fresh
        /\ session[s].pc \in Generating \cup {"idle"}
    BY <1>11 DEF GenerateStarts, NewCommand, FindNoPrivateKey, CreatePrivateKey,
                 WritePrivateKey, At, Generating, history, keys
  <2>3. s \notin fresh
    BY <1>0, <2>2 DEF Generating
  <2>4. QED
    BY <1>1, <2>1, <2>2, <2>3
<1>12. ASSUME \/ \E key \in issued : ChangePublicKeys(key)
              \/ \E s \in Session : CreatePublicKey(s) \/ WritePublicKey(s)
       PROVE  FreshInv'
  BY <1>12 DEF ChangePublicKeys, CreatePublicKey, WritePublicKey, FreshInv
<1>13. EncryptedFiles \subseteq File
  BY DEF EncryptedFiles
<1>14. QED
  BY <1>2, <1>3, <1>4, <1>5, <1>6, <1>7, <1>8, <1>9, <1>10, <1>11, <1>12, <1>13
     DEF Next, Edit, WriteEncryptedContent, ReEncrypt, GenerateKey

(* After re-encrypt went through a directory nobody else touched, each value  *)
(* in it is encrypted for exactly the public keys, however many files, params *)
(* and keys there are (ReEncrypt).                                            *)
THEOREM ReEncryptedForAllHolds == Spec => ReEncryptedForAll
<1>1. Init => FreshInv
  BY DEF Init, FreshInv
<1>2. SInv /\ FreshInv /\ [Next]_vars => FreshInv'
  BY FreshStep DEF SInv
<1>3. ASSUME SInv, FreshInv, NEW s \in Session, Write(s), s \in fresh, session'[s] = Idle,
             NEW f \in File, NEW p \in Param, files[f] # Absent, files'[f][p] # NoParam
      PROVE  files'[f][p].readers = publicKeys
  <2>1. /\ TypeOK /\ Midway(s) /\ session[s].file \in File
        /\ At(s, "truncated") /\ session[s] \in Process
    BY <1>3 DEF SInv, FreshInv, TypeOK, Write, At
  <2>2. files' = [files EXCEPT ![session[s].file] = session[s].content]
    BY <1>3 DEF Write
  <2>3. session[s].todo = {}
    <3>1. CASE session[s].todo # {}
      <4>1. session'[s] = [Idle EXCEPT !.pc = "next", !.todo = session[s].todo]
        BY <1>3, <2>1, <3>1 DEF Write, Continue, TypeOK
      <4>2. [Idle EXCEPT !.pc = "next", !.todo = session[s].todo].pc = "next"
             /\ Idle.pc = "idle"
        BY DEF Idle
      <4>3. QED
        BY <1>3, <4>1, <4>2
    <3>2. QED
      BY <3>1
  <2>4. CASE f = session[s].file
    BY <1>3, <2>1, <2>2, <2>4 DEF TypeOK, Midway, At, EncryptedForAll
  <2>5. CASE f # session[s].file
    <3>1. s \notin Using(f) /\ files'[f] = files[f]
      BY <2>1, <2>2, <2>5 DEF Using, Busy, TypeOK
    <3>2. EncryptedForAll(files[f])
      BY <1>3, <2>1, <2>3, <3>1 DEF Midway
    <3>3. QED
      BY <1>3, <3>1, <3>2 DEF EncryptedForAll
  <2>6. QED
    BY <2>4, <2>5
<1>4. SInv /\ FreshInv /\ [Next]_vars =>
        [\A s \in Session : Write(s) /\ s \in fresh /\ session'[s] = Idle =>
           \A f \in File, p \in Param :
             files[f] # Absent /\ files'[f][p] # NoParam =>
               files'[f][p].readers = publicKeys]_vars
  BY <1>3
<1>5. QED
  BY <1>1, <1>2, <1>4, DirectoryInvariant, PTL DEF Spec, ReEncryptedForAll

=============================================================================
