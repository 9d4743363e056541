------------------------ MODULE EditorSessionProofs -------------------------
(***************************************************************************)
(* Proofs about the editor's session, for any configurations, any foreign  *)
(* texts and any bounds. First IInv: a save replaces only what was         *)
(* compared, and only what was reviewed, whatever the stopping thread and  *)
(* other programs do. Then Undisturbed: as long as no request raced with a *)
(* stop, the recovery, its manifest and what a stop leaves are right.      *)
(***************************************************************************)
EXTENDS EditorSession, TLAPS

(* What a thread that writes the recovery carries from step to step.       *)
Carried ==
  \A t \in Threads :
    /\ pc[t] \in {"copy_draft", "copy_side", "manifest"} => own[t].rid \in RecIds
    /\ pc[t] = "manifest" => own[t].side \in Sides

(* What a save under way knows of the file and of the backups.             *)
Compared ==
  /\ pc["server"] = "replace" => Target = own["server"].expected \/ seen.blind
  /\ pc["server"] \in {"backup", "recheck", "replace"} /\ ~seen.touched =>
       Target = own["server"].expected
  /\ pc["server"] \in {"recheck", "replace"} /\ ses.keeps /\ ~seen.touched
       /\ own["server"].expected # NoText =>
       [of |-> own["server"].expected, holds |-> own["server"].expected] \in backups
  /\ pc["server"] = "backup" => own["server"].expected # NoText

(* The review, as long as the session has its directory.                   *)
ReviewKnown ==
  dir # NoDir =>
    /\ ses.reviewed <= ses.count
    /\ ses.reviewed = ses.count => ses.draft = seen.reviewed
    /\ pc["server"] \in {"backup", "recheck", "replace"} => ses.reviewed = ses.count

IInv == TypeOK /\ Carried /\ Compared /\ ReviewKnown

-----------------------------------------------------------------------------
LEMMA TextsAreTexts == \A d \in Docs : TextOf(d) \in Texts
BY EditorAssumption DEF TextOf, Texts

(* The state before the first session, as soon as there is a configuration. *)
LEMMA NoMemoryType ==
  ASSUME NEW x \in Texts
  PROVE  NoMemory \in Sessions /\ NoMemory.count = 0 /\ NoMemory.reviewed = -1
<1>1. x.says \in Docs
  BY DEF Texts
<1>2. (CHOOSE u \in Texts : TRUE) \in Texts /\ (CHOOSE d \in Docs : TRUE) \in Docs
  BY <1>1
<1> QED BY <1>2 DEF NoMemory, Sessions, Paths, Source

LEMMA InitInv == Init => IInv
<1> SUFFICES ASSUME Init PROVE IInv
  OBVIOUS
<1>1. NoMemory \in Sessions
  <2>1. PICK x \in Foreign : TRUE
    BY DEF Init
  <2> QED BY <2>1, EditorAssumption, NoMemoryType
<1>2. AtRest \in [Threads -> Owned]
  BY DEF AtRest, Owned
<1>3. NoHistory \in Histories
  BY DEF NoHistory, Histories, Policies
<1>4. files \in [Paths -> Texts \cup {NoText}]
  BY EditorAssumption DEF Init
<1>5. left \in [changes : 0 .. MaxChanges, sessions : 0 .. MaxSessions]
  BY EditorAssumption DEF Init
<1>6. TypeOK
  BY <1>1, <1>2, <1>3, <1>4, <1>5 DEF Init, TypeOK, Labels, Threads
<1>7. Carried /\ Compared /\ ReviewKnown
  BY DEF Init, Carried, Compared, ReviewKnown, Threads
<1> QED BY <1>6, <1>7 DEF IInv

-----------------------------------------------------------------------------
(* Moving a thread.                                                        *)
LEMMA Moves ==
  ASSUME TypeOK, NEW t \in Threads, NEW label \in Labels, GoTo(t, label)
  PROVE  /\ pc' \in [Threads -> Labels] /\ pc'[t] = label
         /\ \A u \in Threads : u # t => pc'[u] = pc[u]
BY DEF TypeOK, GoTo

LEMMA Fails ==
  ASSUME TypeOK, NEW t \in Threads, Fail(t)
  PROVE  /\ pc' \in [Threads -> Labels] /\ pc'[t] \in {"idle", "failed"}
         /\ \A u \in Threads : u # t => pc'[u] = pc[u]
BY DEF TypeOK, Fail, GoTo, Labels

LEMMA Onward ==
  ASSUME TypeOK, NEW t \in Threads
  PROVE  own[t] \in Owned /\ own[t].then \in {"registry", "clean"} /\ own[t].then \in Labels
BY DEF TypeOK, Owned, Labels

(* The steps that begin a session.                                         *)
LEMMA BeginInv ==
  ASSUME IInv, NEW s \in Sessions, NEW d \in Docs, NEW side \in Sides, Begin(s, d, side),
         s.reviewed < s.count
  PROVE  IInv'
<1>1. TypeOK'
  <2>1. dir' \in [draft : Texts, side : Sides]
    BY TextsAreTexts DEF Begin
  <2>2. own' \in [Threads -> Owned]
    BY DEF Begin, AtRest, Owned, Sessions, Threads
  <2>3. seen' \in Histories
    BY DEF Begin, IInv, TypeOK, Histories, Policies
  <2>4. left' \in [changes : 0 .. MaxChanges, sessions : 0 .. MaxSessions]
    BY EditorAssumption DEF Begin, IInv, TypeOK
  <2>5. pc' \in [Threads -> Labels]
    BY DEF Begin, Labels
  <2> QED BY <2>1, <2>2, <2>3, <2>4, <2>5 DEF Begin, IInv, TypeOK, disk
<1>2. pc' = [t \in Threads |-> "idle"] /\ ses' = s
  BY DEF Begin
<1>3. Carried' /\ Compared'
  BY <1>2 DEF Carried, Compared, Threads
<1>4. ReviewKnown'
  <2>1. s.reviewed \in Int /\ s.count \in Int
    BY DEF Sessions
  <2> QED BY <1>2, <2>1 DEF ReviewKnown, Threads
<1> QED BY <1>1, <1>3, <1>4 DEF IInv

LEMMA StartInv ==
  ASSUME IInv, NEW p \in Paths, NEW k \in BOOLEAN, Start(p, k)
  PROVE  IInv'
<1> DEFINE d == files[Source].says
           s == [NoMemory EXCEPT !.target = p, !.keeps = k, !.base = TextOf(d), !.draft = d]
<1>1. Begin(s, d, [sha |-> TextOf(d), count |-> 0])
  BY DEF Start
<1>2. d \in Docs
  BY <1>1 DEF Begin, IInv, TypeOK, Texts, Paths, Source
<1>3. TextOf(d) \in Texts
  BY <1>2, TextsAreTexts
<1>4. [sha |-> TextOf(d), count |-> 0] \in Sides
  BY <1>3 DEF Sides
<1>5. s \in Sessions /\ s.reviewed < s.count
  <2>1. NoMemory \in Sessions /\ NoMemory.count = 0 /\ NoMemory.reviewed = -1
    BY <1>3, NoMemoryType
  <2>2. s \in Sessions
    BY <1>2, <1>3, <2>1 DEF Sessions
  <2>3. s.reviewed = -1 /\ s.count = 0
    BY <2>1 DEF Sessions
  <2> QED BY <2>2, <2>3
<1> QED BY <1>1, <1>2, <1>4, <1>5, BeginInv

LEMMA ResumeInv ==
  ASSUME IInv, NEW r \in RecIds, Resume(r)
  PROVE  IInv'
<1> DEFINE d == recs[r].draft.says
           n == recs[r].side.count
           s == [NoMemory EXCEPT !.target = recs[r].manifest.target,
                   !.base = TextOf(files[Source].says), !.draft = d, !.dirty = TRUE,
                   !.count = n, !.reviewed = RestoredReview(n), !.rid = r]
<1>1. Begin(s, d, recs[r].side) /\ Resumable(r)
  BY DEF Resume
<1>2. recs[r] \in Recoveries /\ recs[r].manifest \in Manifests
  BY <1>1 DEF Resumable, IInv, TypeOK, Recoveries
<1>3. recs[r].draft \in Texts /\ recs[r].side \in Sides /\ recs[r].manifest.target \in Paths
  BY <1>1, <1>2 DEF Resumable, Manifests
<1>4. d \in Docs /\ n \in Nat
  BY <1>3 DEF Texts, Sides
<1>5. TextOf(files[Source].says) \in Texts
  BY <1>1, TextsAreTexts DEF Begin, IInv, TypeOK, Texts, Paths, Source
<1>6. s \in Sessions /\ s.reviewed < s.count
  <2>1. NoMemory \in Sessions
    BY <1>5, NoMemoryType
  <2>2. n - 1 \in Int /\ n - 1 < n
    BY <1>4
  <2>3. s \in Sessions
    BY <1>3, <1>4, <1>5, <2>1, <2>2 DEF Sessions, RestoredReview
  <2>4. s.reviewed = n - 1 /\ s.count = n
    BY <2>1 DEF Sessions, RestoredReview
  <2> QED BY <2>2, <2>3, <2>4
<1> QED BY <1>1, <1>3, <1>4, <1>6, BeginInv

-----------------------------------------------------------------------------
(* What the steps that do not concern a save leave as it was.              *)
Saving == {"backup", "recheck", "replace"}

LEMMA NotSaving ==
  ASSUME pc'["server"] \notin Saving
  PROVE  Compared'
BY DEF Compared, Saving

LEMMA SaveUntouched ==
  ASSUME Compared, files' = files, backups' = backups, pc'["server"] = pc["server"],
         own'["server"].expected = own["server"].expected,
         ses'.target = ses.target, ses'.keeps = ses.keeps,
         seen'.blind = seen.blind, seen'.touched = seen.touched
  PROVE  Compared'
BY DEF Compared, Target

LEMMA ReviewUntouched ==
  ASSUME ReviewKnown, dir' # NoDir => dir # NoDir,
         ses'.reviewed = ses.reviewed, ses'.count = ses.count, ses'.draft = ses.draft,
         seen'.reviewed = seen.reviewed,
         pc'["server"] \in Saving => pc["server"] \in Saving
  PROVE  ReviewKnown'
BY DEF ReviewKnown, Saving

Carries(t) ==
  /\ pc[t] \in {"copy_draft", "copy_side", "manifest"} => own[t].rid \in RecIds
  /\ pc[t] = "manifest" => own[t].side \in Sides

LEMMA CarriedByOthers ==
  ASSUME Carried, NEW t \in Threads, Carries(t)',
         \A u \in Threads : u # t => pc'[u] = pc[u] /\ own'[u] = own[u]
  PROVE  Carried'
BY DEF Carried, Carries

LEMMA OwnedAgain ==
  \A o \in Owned : \A then \in {"registry", "clean"}, n \in {1, 2} :
    [o EXCEPT !.then = then, !.round = n] \in Owned
<1> SUFFICES ASSUME NEW o \in Owned, NEW then \in {"registry", "clean"}, NEW n \in {1, 2}
             PROVE  [o EXCEPT !.then = then, !.round = n] \in Owned
  OBVIOUS
<1> QED BY DEF Owned

(* Requests of the page.                                                   *)
LEMMA EditInv ==
  ASSUME IInv, NEW d \in Docs, Edit(d)
  PROVE  IInv'
<1>1. /\ ses' = [ses EXCEPT !.draft = d, !.dirty = TRUE, !.count = @ + 1]
      /\ GoTo("server", "draft")
      /\ own' = [own EXCEPT !["server"] = [@ EXCEPT !.then = "registry", !.round = 1]]
      /\ files' = files /\ backups' = backups /\ restore' = restore
      /\ recs' = recs /\ dir' = dir /\ listed' = listed /\ phase' = phase
  BY DEF Edit, Request, disk, home
<1>2. ses' \in Sessions /\ ses'.reviewed = ses.reviewed /\ ses'.count = ses.count + 1
  <2>1. ses \in Sessions /\ ses.count \in Nat
    BY DEF IInv, TypeOK, Sessions
  <2> DEFINE n == ses.count + 1
  <2>0. n \in Nat
    BY <2>1
  <2>2. ses' = [ses EXCEPT !.draft = d, !.dirty = TRUE, !.count = n]
    BY <1>1
  <2> HIDE DEF n
  <2>3. ses' \in Sessions
    BY <2>0, <2>1, <2>2 DEF Sessions
  <2>4. ses'.reviewed = ses.reviewed /\ ses'.count = ses.count + 1
    BY <2>1, <2>2 DEF Sessions, n
  <2> QED BY <2>3, <2>4
<1>3. /\ pc' \in [Threads -> Labels] /\ pc'["server"] = "draft"
      /\ \A u \in Threads : u # "server" => pc'[u] = pc[u]
  BY <1>1, Moves DEF IInv, Labels, Threads
<1>4. own' \in [Threads -> Owned] /\ \A u \in Threads : u # "server" => own'[u] = own[u]
  <2> DEFINE o == [own["server"] EXCEPT !.then = "registry", !.round = 1]
  <2>1. own \in [Threads -> Owned] /\ "server" \in Threads /\ own["server"] \in Owned
    BY DEF IInv, TypeOK, Threads
  <2>2. o \in Owned
    BY <2>1, OwnedAgain
  <2> HIDE DEF o
  <2>3. own' = [own EXCEPT !["server"] = o]
    BY <1>1 DEF o
  <2> QED BY <2>1, <2>2, <2>3
<1>5. seen' \in Histories
  <2>1. [sha |-> TextOf(d), count |-> ses.count + 1] \in Sides
    BY TextsAreTexts DEF IInv, TypeOK, Sessions, Sides
  <2>2. Racing(seen) \in Histories
    BY DEF IInv, TypeOK, Histories, Racing, Busy
  <2> QED BY <2>1, <2>2 DEF Edit, Histories
<1>6. left' \in [changes : 0 .. MaxChanges, sessions : 0 .. MaxSessions]
  BY EditorAssumption DEF Edit, IInv, TypeOK
<1>7. TypeOK'
  BY <1>1, <1>2, <1>3, <1>4, <1>5, <1>6 DEF IInv, TypeOK
<1>8. Carried'
  BY <1>3, <1>4, CarriedByOthers DEF IInv, Carries, Threads
<1>9. Compared'
  BY <1>3, NotSaving DEF Saving
<1>10. ReviewKnown'
  <2>1. ses.reviewed \in Int /\ ses.count \in Int
    BY DEF IInv, TypeOK, Sessions
  <2> QED BY <1>1, <1>2, <1>3, <2>1 DEF IInv, ReviewKnown
<1> QED BY <1>7, <1>8, <1>9, <1>10 DEF IInv

LEMMA EmptyEditInv ==
  ASSUME IInv, EmptyEdit
  PROVE  IInv'
<1>1. /\ GoTo("server", "draft") \/ GoTo("server", "open")
      /\ \E n \in 1 .. 2 : own' = [own EXCEPT !["server"].round = n]
      /\ files' = files /\ backups' = backups /\ restore' = restore
      /\ recs' = recs /\ dir' = dir /\ listed' = listed /\ phase' = phase
      /\ ses' = ses /\ left' = left /\ seen' = Racing(seen)
  BY DEF EmptyEdit, Request, disk, home
<1>2. /\ pc' \in [Threads -> Labels] /\ pc'["server"] \in {"draft", "open"}
      /\ \A u \in Threads : u # "server" => pc'[u] = pc[u]
  BY <1>1, Moves DEF IInv, Labels, Threads
<1>3. own' \in [Threads -> Owned] /\ \A u \in Threads : u # "server" => own'[u] = own[u]
  BY <1>1 DEF IInv, TypeOK, Owned, Threads
<1>4. seen' \in Histories /\ seen'.reviewed = seen.reviewed
  BY <1>1 DEF IInv, TypeOK, Histories, Racing, Busy
<1>5. TypeOK'
  BY <1>1, <1>2, <1>3, <1>4 DEF IInv, TypeOK
<1>6. Carried'
  BY <1>2, <1>3, CarriedByOthers DEF IInv, Carries, Threads
<1>7. Compared'
  BY <1>2, NotSaving DEF Saving
<1>8. ReviewKnown'
  BY <1>1, <1>2, <1>4, ReviewUntouched DEF IInv, Saving
<1> QED BY <1>5, <1>6, <1>7, <1>8 DEF IInv

LEMMA WriteDraftInv == IInv /\ (WriteDraft \/ WriteSidecar) => IInv'
<1> SUFFICES ASSUME IInv, WriteDraft \/ WriteSidecar PROVE IInv'
  OBVIOUS
<1>1. /\ Fail("server") \/ GoTo("server", "sidecar") \/ GoTo("server", "open")
      /\ own' = own /\ files' = files /\ backups' = backups /\ restore' = restore
      /\ recs' = recs /\ listed' = listed /\ phase' = phase
      /\ ses' = ses /\ left' = left /\ seen' = seen
      /\ dir' # NoDir => dir # NoDir
  BY DEF WriteDraft, WriteSidecar, disk
<1>2. /\ pc' \in [Threads -> Labels] /\ pc'["server"] \in {"sidecar", "open", "idle", "failed"}
      /\ \A u \in Threads : u # "server" => pc'[u] = pc[u]
  <2>1. "sidecar" \in Labels /\ "open" \in Labels /\ "server" \in Threads
    BY DEF Labels, Threads
  <2> QED BY <1>1, <2>1, Moves, Fails DEF IInv
<1>3. dir' \in [draft : Texts, side : Sides] \cup {NoDir}
  <2>1. TextOf(ses.draft) \in Texts /\ ses.count \in Nat
    BY TextsAreTexts DEF IInv, TypeOK, Sessions
  <2>2. [sha |-> TextOf(ses.draft), count |-> ses.count] \in Sides
    BY <2>1 DEF Sides
  <2>3. CASE WriteDraft
    BY <2>1, <2>3 DEF WriteDraft, IInv, TypeOK
  <2>4. CASE WriteSidecar
    BY <2>2, <2>4 DEF WriteSidecar, IInv, TypeOK
  <2> QED BY <2>3, <2>4
<1>4. TypeOK'
  BY <1>1, <1>2, <1>3 DEF IInv, TypeOK
<1>5. Carried'
  BY <1>1, <1>2, CarriedByOthers DEF IInv, Carries, Threads
<1>6. Compared'
  BY <1>2, NotSaving DEF Saving
<1>7. ReviewKnown'
  BY <1>1, <1>2, ReviewUntouched DEF IInv, Saving
<1> QED BY <1>4, <1>5, <1>6, <1>7 DEF IInv

LEMMA WriteRegistryInv == IInv /\ WriteRegistry => IInv'
<1> SUFFICES ASSUME IInv, WriteRegistry PROVE IInv'
  OBVIOUS
<1>1. /\ GoTo("server", "open") \/ GoTo("server", "idle")
      /\ own' = [own EXCEPT !["server"].round = 2] /\ listed' = TRUE
      /\ files' = files /\ backups' = backups /\ restore' = restore
      /\ recs' = recs /\ dir' = dir /\ phase' = phase
      /\ ses' = ses /\ left' = left /\ seen' = seen
  BY DEF WriteRegistry, disk
<1>2. /\ pc' \in [Threads -> Labels] /\ pc'["server"] \in {"open", "idle"}
      /\ \A u \in Threads : u # "server" => pc'[u] = pc[u]
  BY <1>1, Moves DEF IInv, Labels, Threads
<1>3. own' \in [Threads -> Owned] /\ \A u \in Threads : u # "server" => own'[u] = own[u]
  BY <1>1 DEF IInv, TypeOK, Owned, Threads
<1>4. TypeOK'
  BY <1>1, <1>2, <1>3 DEF IInv, TypeOK
<1>5. Carried'
  BY <1>2, <1>3, CarriedByOthers DEF IInv, Carries, Threads
<1>6. Compared'
  BY <1>2, NotSaving DEF Saving
<1>7. ReviewKnown'
  BY <1>1, <1>2, ReviewUntouched DEF IInv, Saving
<1> QED BY <1>4, <1>5, <1>6, <1>7 DEF IInv

(* A review makes the two counts equal, of the draft as it is now.         *)
LEMMA ReviewInv == IInv /\ Review => IInv'
<1> SUFFICES ASSUME IInv, Review PROVE IInv'
  OBVIOUS
<1>1. /\ ses' = [ses EXCEPT !.reviewed = ses.count]
      /\ seen' = [seen EXCEPT !.reviewed = ses.draft]
      /\ UNCHANGED <<disk, home, pc, own, phase, left>> /\ pc["server"] = "idle"
  BY DEF Review, Idle
<1>2. ses \in Sessions /\ ses.count \in Nat /\ ses.draft \in Docs /\ seen \in Histories
  BY DEF IInv, TypeOK, Sessions
<1>3. ses' \in Sessions /\ seen' \in Histories
  BY <1>1, <1>2 DEF Sessions, Histories
<1>4. TypeOK'
  BY <1>1, <1>3 DEF IInv, TypeOK, disk, home
<1>5. Carried'
  BY <1>1 DEF IInv, Carried
<1>6. Compared'
  BY <1>1, NotSaving DEF Saving
<1>7. ReviewKnown'
  <2>1. ses'.reviewed = ses.count /\ ses'.count = ses.count /\ ses'.draft = ses.draft
    BY <1>1, <1>2 DEF Sessions
  <2>2. seen'.reviewed = ses.draft
    BY <1>1, <1>2 DEF Histories
  <2> QED BY <1>2, <2>1, <2>2 DEF ReviewKnown
<1> QED BY <1>4, <1>5, <1>6, <1>7 DEF IInv

-----------------------------------------------------------------------------
(* A save, step by step.                                                   *)
LEMMA TargetType == TypeOK => ses.target \in Paths /\ Target \in Texts \cup {NoText}
BY DEF TypeOK, Sessions, Target

LEMMA SaveInv == IInv /\ Save => IInv'
<1> SUFFICES ASSUME IInv, Save PROVE IInv'
  OBVIOUS
<1> DEFINE o == [own["server"] EXCEPT !.expected = Target, !.then = "registry", !.round = 2]
<1>0. /\ GoTo("server", IF ses.keeps /\ Target # NoText THEN "backup" ELSE "recheck")
      /\ own' = [own EXCEPT !["server"] = o]
      /\ files' = files /\ backups' = backups /\ restore' = restore
      /\ recs' = recs /\ dir' = dir /\ listed' = listed /\ phase' = phase
      /\ ses' = ses /\ left' = left
      /\ seen' = [Racing(seen) EXCEPT !.blind = FALSE, !.touched = FALSE]
      /\ ses.reviewed = ses.count
  BY DEF Save, Request, Reviewed, disk, home
<1>1. \/ GoTo("server", "backup") /\ Target # NoText
      \/ GoTo("server", "recheck") /\ ~(ses.keeps /\ Target # NoText)
  <2>1. CASE ses.keeps /\ Target # NoText
    BY <1>0, <2>1
  <2>2. CASE ~(ses.keeps /\ Target # NoText)
    BY <1>0, <2>2
  <2> QED BY <2>1, <2>2
<1>2. o \in Owned /\ o.expected = Target
  <2>1. own["server"] \in Owned
    BY DEF IInv, TypeOK, Threads
  <2>2. [own["server"] EXCEPT !.then = "registry", !.round = 2] \in Owned
    BY <2>1, OwnedAgain
  <2>3. Target \in Texts \cup {NoText}
    BY TargetType DEF IInv
  <2> QED BY <2>1, <2>2, <2>3 DEF Owned
<1> HIDE DEF o
<1>3. /\ pc' \in [Threads -> Labels] /\ pc'["server"] \in {"backup", "recheck"}
      /\ pc'["server"] = "recheck" => ~(ses.keeps /\ Target # NoText)
      /\ pc'["server"] = "backup" => Target # NoText
      /\ \A u \in Threads : u # "server" => pc'[u] = pc[u]
  <2>1. "backup" \in Labels /\ "recheck" \in Labels /\ "server" \in Threads
    BY DEF Labels, Threads
  <2> QED BY <1>1, <2>1, Moves DEF IInv
<1>4. /\ own' \in [Threads -> Owned] /\ own'["server"].expected = Target
      /\ \A u \in Threads : u # "server" => own'[u] = own[u]
  BY <1>0, <1>2 DEF IInv, TypeOK, Threads
<1>5. seen' \in Histories /\ seen'.reviewed = seen.reviewed
  <2>1. Racing(seen) \in Histories /\ Racing(seen).reviewed = seen.reviewed
    BY DEF IInv, TypeOK, Histories, Racing, Busy
  <2> QED BY <1>0, <2>1 DEF Histories
<1>6. TypeOK'
  BY <1>0, <1>3, <1>4, <1>5 DEF IInv, TypeOK
<1>7. Carried'
  BY <1>3, <1>4, CarriedByOthers DEF IInv, Carries, Threads
<1>8. Compared'
  <2>1. Target' = Target
    BY <1>0 DEF Target
  <2> QED BY <1>0, <1>3, <1>4, <2>1 DEF Compared
<1>9. ReviewKnown'
  BY <1>0, <1>5 DEF IInv, ReviewKnown
<1> QED BY <1>6, <1>7, <1>8, <1>9 DEF IInv

LEMMA BackupInv == IInv /\ Backup => IInv'
<1> SUFFICES ASSUME IInv, Backup PROVE IInv'
  OBVIOUS
<1> DEFINE name == own["server"].expected
<1>1. /\ pc["server"] = "backup"
      /\ \/ GoTo("server", "recheck") /\ Target # NoText
            /\ backups' = backups \cup {[of |-> name, holds |-> Target]}
         \/ Fail("server") /\ (backups' = backups \/ backups' = backups \cup {[of |-> name, holds |-> NoText]})
      /\ files' = files /\ restore' = restore /\ own' = own
      /\ recs' = recs /\ dir' = dir /\ listed' = listed /\ phase' = phase
      /\ ses' = ses /\ left' = left /\ seen' = seen
  BY DEF Backup, At, home
<1>2. /\ pc' \in [Threads -> Labels] /\ pc'["server"] \in {"recheck", "idle", "failed"}
      /\ pc'["server"] = "recheck" => backups' = backups \cup {[of |-> name, holds |-> Target]}
      /\ \A u \in Threads : u # "server" => pc'[u] = pc[u]
  <2>1. "recheck" \in Labels /\ "server" \in Threads
    BY DEF Labels, Threads
  <2> QED BY <1>1, <2>1, Moves, Fails DEF IInv
<1>3. backups' \subseteq [of : Texts, holds : Texts \cup {NoText}]
  <2>1. name \in Texts
    BY <1>1 DEF IInv, Compared, TypeOK, Owned, Threads
  <2>2. Target \in Texts \cup {NoText}
    BY TargetType DEF IInv
  <2> QED BY <1>1, <2>1, <2>2 DEF IInv, TypeOK
<1>4. TypeOK'
  BY <1>1, <1>2, <1>3 DEF IInv, TypeOK
<1>5. Carried'
  BY <1>1, <1>2, CarriedByOthers DEF IInv, Carries, Threads
<1>6. Compared'
  <2>1. Target' = Target
    BY <1>1 DEF Target
  <2> QED BY <1>1, <1>2, <2>1 DEF IInv, Compared
<1>7. ReviewKnown'
  BY <1>1, <1>2, ReviewUntouched DEF IInv, Saving
<1> QED BY <1>4, <1>5, <1>6, <1>7 DEF IInv

LEMMA Installs ==
  ASSUME TypeOK, Install
  PROVE  files' \in [Paths -> Texts \cup {NoText}]
<1>1. TextOf(ses.draft) \in Texts
  BY TextsAreTexts DEF TypeOK, Sessions
<1> QED BY <1>1 DEF Install, TypeOK

LEMMA RecheckInv == IInv /\ Recheck => IInv'
<1> SUFFICES ASSUME IInv, Recheck PROVE IInv'
  OBVIOUS
<1>1. /\ pc["server"] = "recheck"
      /\ backups' = backups /\ restore' = restore /\ own' = own
      /\ recs' = recs /\ dir' = dir /\ listed' = listed /\ phase' = phase
      /\ ses' = ses /\ left' = left /\ seen' = seen
  BY DEF Recheck, At, home
<1>2. \/ Install /\ GoTo("server", "refresh")
      \/ /\ own["server"].expected # NoText /\ Target = own["server"].expected
         /\ GoTo("server", "replace") /\ files' = files
      \/ Fail("server") /\ files' = files
  BY DEF Recheck, StillThere
<1>3. files' \in [Paths -> Texts \cup {NoText}]
  BY <1>2, Installs DEF IInv, TypeOK
<1>4. /\ pc' \in [Threads -> Labels] /\ pc'["server"] \in {"refresh", "replace", "idle", "failed"}
      /\ pc'["server"] = "replace" => files' = files /\ Target = own["server"].expected
      /\ \A u \in Threads : u # "server" => pc'[u] = pc[u]
  <2>1. "refresh" \in Labels /\ "replace" \in Labels /\ "server" \in Threads
    BY DEF Labels, Threads
  <2> QED BY <1>2, <2>1, Moves, Fails DEF IInv
<1>5. TypeOK'
  BY <1>1, <1>3, <1>4 DEF IInv, TypeOK
<1>6. Carried'
  BY <1>1, <1>4, CarriedByOthers DEF IInv, Carries, Threads
<1>7. Compared'
  <2>1. files' = files => Target' = Target
    BY <1>1 DEF Target
  <2> QED BY <1>1, <1>4, <2>1 DEF IInv, Compared
<1>8. ReviewKnown'
  BY <1>1, <1>4, ReviewUntouched DEF IInv, Saving
<1> QED BY <1>5, <1>6, <1>7, <1>8 DEF IInv

LEMMA ReplaceInv == IInv /\ Replace => IInv'
<1> SUFFICES ASSUME IInv, Replace PROVE IInv'
  OBVIOUS
<1>1. /\ Install /\ GoTo("server", "refresh")
      /\ backups' = backups /\ restore' = restore /\ own' = own
      /\ recs' = recs /\ dir' = dir /\ listed' = listed /\ phase' = phase
      /\ ses' = ses /\ left' = left /\ seen' = seen
  BY DEF Replace, home
<1>2. files' \in [Paths -> Texts \cup {NoText}]
  BY <1>1, Installs DEF IInv
<1>3. /\ pc' \in [Threads -> Labels] /\ pc'["server"] = "refresh"
      /\ \A u \in Threads : u # "server" => pc'[u] = pc[u]
  BY <1>1, Moves DEF IInv, Labels, Threads
<1>4. TypeOK'
  BY <1>1, <1>2, <1>3 DEF IInv, TypeOK
<1>5. Carried'
  BY <1>1, <1>3, CarriedByOthers DEF IInv, Carries, Threads
<1>6. Compared'
  BY <1>3, NotSaving DEF Saving
<1>7. ReviewKnown'
  BY <1>1, <1>3, ReviewUntouched DEF IInv, Saving
<1> QED BY <1>4, <1>5, <1>6, <1>7 DEF IInv

(* The saved file becomes the base; with it the review is withdrawn.       *)
LEMMA RefreshBaseInv == IInv /\ RefreshBase => IInv'
<1> SUFFICES ASSUME IInv, RefreshBase PROVE IInv'
  OBVIOUS
<1> DEFINE d == Target.says
           new == [ses EXCEPT !.base = TextOf(d), !.draft = d, !.dirty = FALSE, !.count = 0]
           side == [sha |-> TextOf(d), count |-> 0]
<1>1. /\ own' = own /\ files' = files /\ backups' = backups /\ restore' = restore
      /\ recs' = recs /\ listed' = listed /\ phase' = phase /\ left' = left
      /\ \/ Fail("server") /\ ses' = ses /\ dir' = dir
         \/ Target # NoText /\ dir = NoDir /\ Fail("server") /\ ses' = new /\ dir' = dir
         \/ /\ Target # NoText /\ dir # NoDir /\ GoTo("server", "discard")
            /\ ses' = [new EXCEPT !.reviewed = -1]
            /\ dir' = [dir EXCEPT !.side = side]
  BY DEF RefreshBase, disk
<1>2. seen' = seen \/ (Target # NoText /\ seen' = [seen EXCEPT !.drafts = @ \cup {side}])
  BY <1>1 DEF RefreshBase
<1>3. Target # NoText => d \in Docs /\ TextOf(d) \in Texts /\ side \in Sides
  BY TargetType, TextsAreTexts DEF IInv, Texts, Sides
<1>4. /\ pc' \in [Threads -> Labels] /\ pc'["server"] \in {"discard", "idle", "failed"}
      /\ \A u \in Threads : u # "server" => pc'[u] = pc[u]
  <2>1. "discard" \in Labels /\ "server" \in Threads
    BY DEF Labels, Threads
  <2> QED BY <1>1, <2>1, Moves, Fails DEF IInv
<1>5. Target # NoText => new \in Sessions /\ new.count = 0
  <2>1. ses \in Sessions /\ 0 \in Nat
    BY DEF IInv, TypeOK
  <2> QED BY <1>3, <2>1 DEF Sessions
<1> HIDE DEF new, side
<1>6. Target # NoText => [new EXCEPT !.reviewed = -1] \in Sessions
  BY <1>5 DEF Sessions
<1>7. ses' \in Sessions
  BY <1>1, <1>5, <1>6 DEF IInv, TypeOK
<1>8. dir' \in [draft : Texts, side : Sides] \cup {NoDir}
  BY <1>1, <1>3 DEF IInv, TypeOK
<1>9. seen' \in Histories /\ seen'.reviewed = seen.reviewed
  BY <1>2, <1>3 DEF IInv, TypeOK, Histories
<1>10. TypeOK'
  BY <1>1, <1>4, <1>7, <1>8, <1>9 DEF IInv, TypeOK
<1>11. Carried'
  BY <1>1, <1>4, CarriedByOthers DEF IInv, Carries, Threads
<1>12. Compared'
  BY <1>4, NotSaving DEF Saving
<1>13. ReviewKnown'
  <2>1. CASE ses' = ses /\ dir' = dir
    BY <1>4, <1>9, <2>1, ReviewUntouched DEF IInv, Saving
  <2>2. CASE dir = NoDir /\ dir' = dir
    BY <2>2 DEF ReviewKnown
  <2>3. CASE Target # NoText /\ ses' = [new EXCEPT !.reviewed = -1]
    <3>1. ses'.reviewed = -1 /\ ses'.count = 0
      BY <1>5, <2>3 DEF Sessions
    <3> QED BY <1>4, <3>1 DEF ReviewKnown
  <2> QED BY <1>1, <2>1, <2>2, <2>3
<1> QED BY <1>10, <1>11, <1>12, <1>13 DEF IInv

-----------------------------------------------------------------------------
(* The steps that either thread takes: they do not touch the file, nor     *)
(* what the session knows of the review.                                   *)
LEMMA ThreadFrame ==
  ASSUME IInv, NEW t \in Threads, pc'[t] \notin Saving,
         \A u \in Threads : u # t => pc'[u] = pc[u] /\ own'[u] = own[u],
         files' = files, backups' = backups, dir' # NoDir => dir # NoDir,
         ses'.target = ses.target, ses'.keeps = ses.keeps, ses'.reviewed = ses.reviewed,
         ses'.count = ses.count, ses'.draft = ses.draft,
         seen'.blind = seen.blind, seen'.touched = seen.touched,
         seen'.reviewed = seen.reviewed
  PROVE  Compared' /\ ReviewKnown'
<1>1. CASE t = "server"
  BY <1>1, NotSaving, ReviewUntouched DEF IInv
<1>2. CASE t # "server"
  <2>1. pc'["server"] = pc["server"] /\ own'["server"] = own["server"]
    BY <1>2 DEF Threads
  <2> QED BY <2>1, SaveUntouched, ReviewUntouched DEF IInv
<1> QED BY <1>1, <1>2

LEMMA OpenRecoveryInv ==
  ASSUME IInv, NEW t \in Threads, OpenRecovery(t)
  PROVE  IInv'
<1> DEFINE r == IF ses.rid = NoRec THEN CHOOSE x \in FreshRecs : TRUE ELSE ses.rid
           blank == [draft |-> NoText, side |-> NoText, manifest |-> NoText]
<1>1. /\ files' = files /\ backups' = backups /\ restore' = restore /\ dir' = dir
      /\ listed' = listed /\ phase' = phase /\ seen' = seen /\ left' = left
      /\ ses.rid = NoRec => FreshRecs # {}
      /\ \/ /\ GoTo(t, "copy_draft")
            /\ ses' = [ses EXCEPT !.rid = r]
            /\ own' = [own EXCEPT ![t].rid = r]
            /\ recs' = [recs EXCEPT ![r] = IF @ = NoDir THEN blank ELSE @]
         \/ GoTo(t, own[t].then) /\ recs' = recs /\ ses' = ses /\ own' = own
  BY DEF OpenRecovery, disk
<1>2. r \in RecIds
  <2>1. FreshRecs # {} => (CHOOSE x \in FreshRecs : TRUE) \in RecIds
    BY DEF FreshRecs
  <2>2. ses.rid \in RecIds \cup {NoRec}
    BY DEF IInv, TypeOK, Sessions
  <2> QED BY <1>1, <2>1, <2>2
<1> HIDE DEF r
<1>3. blank \in Recoveries
  BY DEF Recoveries
<1> HIDE DEF blank
<1>4. /\ pc' \in [Threads -> Labels] /\ pc'[t] \in {"copy_draft", "registry", "clean"}
      /\ pc'[t] = "copy_draft" => own' = [own EXCEPT ![t].rid = r]
      /\ \A u \in Threads : u # t => pc'[u] = pc[u]
  <2>1. "copy_draft" \in Labels
    BY DEF Labels
  <2>2. own[t].then \in Labels /\ own[t].then \in {"registry", "clean"}
    BY Onward DEF IInv
  <2> QED BY <1>1, <2>1, <2>2, Moves DEF IInv
<1>5. /\ own' \in [Threads -> Owned] /\ \A u \in Threads : u # t => own'[u] = own[u]
      /\ pc'[t] = "copy_draft" => own'[t].rid \in RecIds
  BY <1>1, <1>2, <1>4 DEF IInv, TypeOK, Owned
<1>6. recs' \in [RecIds -> Recoveries \cup {NoDir}]
  BY <1>1, <1>2, <1>3 DEF IInv, TypeOK
<1>7. /\ ses' \in Sessions /\ ses'.target = ses.target /\ ses'.keeps = ses.keeps
      /\ ses'.reviewed = ses.reviewed /\ ses'.count = ses.count /\ ses'.draft = ses.draft
  BY <1>1, <1>2 DEF IInv, TypeOK, Sessions
<1>8. TypeOK'
  BY <1>1, <1>4, <1>5, <1>6, <1>7 DEF IInv, TypeOK
<1>9. Carried'
  BY <1>4, <1>5, CarriedByOthers DEF IInv, Carries
<1>10. Compared' /\ ReviewKnown'
  BY <1>1, <1>4, <1>5, <1>7, ThreadFrame DEF Saving
<1> QED BY <1>8, <1>9, <1>10 DEF IInv

LEMMA CopyDraftInv ==
  ASSUME IInv, NEW t \in Threads, CopyDraft(t)
  PROVE  IInv'
<1> DEFINE r == own[t].rid
<1>1. /\ files' = files /\ backups' = backups /\ restore' = restore /\ dir' = dir
      /\ listed' = listed /\ phase' = phase /\ seen' = seen /\ left' = left
      /\ ses' = ses /\ own' = own /\ pc[t] = "copy_draft"
      /\ \/ Fail(t) /\ recs' = recs
         \/ GoTo(t, "copy_side") /\ recs' = recs
         \/ /\ GoTo(t, "copy_side") /\ dir # NoDir /\ recs[r] # NoDir
            /\ recs' = [recs EXCEPT ![r].draft = dir.draft]
  BY DEF CopyDraft, At, disk
<1>2. r \in RecIds
  BY <1>1 DEF IInv, Carried
<1>3. /\ pc' \in [Threads -> Labels] /\ pc'[t] \in {"copy_side", "idle", "failed"}
      /\ \A u \in Threads : u # t => pc'[u] = pc[u]
  <2>1. "copy_side" \in Labels
    BY DEF Labels
  <2> QED BY <1>1, <2>1, Moves, Fails DEF IInv
<1>4. recs' \in [RecIds -> Recoveries \cup {NoDir}]
  <2>1. dir # NoDir => dir.draft \in Texts
    BY DEF IInv, TypeOK
  <2>2. recs \in [RecIds -> Recoveries \cup {NoDir}]
    BY DEF IInv, TypeOK
  <2>3. recs[r] # NoDir /\ dir # NoDir => [recs[r] EXCEPT !.draft = dir.draft] \in Recoveries
    BY <1>2, <2>1, <2>2 DEF Recoveries
  <2> QED BY <1>1, <1>2, <2>2, <2>3
<1>5. TypeOK'
  BY <1>1, <1>3, <1>4 DEF IInv, TypeOK
<1>6. Carried'
  BY <1>1, <1>2, <1>3, CarriedByOthers DEF IInv, Carries
<1>7. Compared' /\ ReviewKnown'
  BY <1>1, <1>3, ThreadFrame DEF Saving
<1> QED BY <1>5, <1>6, <1>7 DEF IInv

LEMMA CopySideInv ==
  ASSUME IInv, NEW t \in Threads, CopySide(t)
  PROVE  IInv'
<1> DEFINE r == own[t].rid
           side == IF dir = NoDir THEN recs[r].side ELSE dir.side
<1>1. /\ files' = files /\ backups' = backups /\ restore' = restore /\ dir' = dir
      /\ listed' = listed /\ phase' = phase /\ seen' = seen /\ left' = left
      /\ ses' = ses /\ pc[t] = "copy_side"
      /\ \/ Fail(t) /\ recs' = recs /\ own' = own
         \/ /\ recs[r] # NoDir
            /\ recs' = [recs EXCEPT ![r].side = side]
            /\ own' = [own EXCEPT ![t].side = side]
            /\ Fail(t) \/ (GoTo(t, "manifest") /\ side # NoText)
  <2>1. CASE NoText \in {recs[r].draft, side}
    BY <2>1 DEF CopySide, At, disk
  <2>2. CASE NoText \notin {recs[r].draft, side}
    BY <2>2 DEF CopySide, At, disk
  <2> QED BY <2>1, <2>2
<1>2. r \in RecIds
  BY <1>1 DEF IInv, Carried
<1>3. recs[r] # NoDir => side \in Sides \cup {NoText}
  BY <1>2 DEF IInv, TypeOK, Recoveries
<1> HIDE DEF side
<1>4. /\ pc' \in [Threads -> Labels] /\ pc'[t] \in {"manifest", "idle", "failed"}
      /\ pc'[t] = "manifest" => /\ recs[r] # NoDir /\ side # NoText
                               /\ own' = [own EXCEPT ![t].side = side]
      /\ \A u \in Threads : u # t => pc'[u] = pc[u]
  <2>1. "manifest" \in Labels
    BY DEF Labels
  <2> QED BY <1>1, <2>1, Moves, Fails DEF IInv
<1>5. recs' \in [RecIds -> Recoveries \cup {NoDir}]
  <2>1. recs \in [RecIds -> Recoveries \cup {NoDir}]
    BY DEF IInv, TypeOK
  <2>2. recs[r] # NoDir => [recs[r] EXCEPT !.side = side] \in Recoveries
    BY <1>2, <1>3, <2>1 DEF Recoveries
  <2> QED BY <1>1, <1>2, <2>1, <2>2
<1>6. /\ own' \in [Threads -> Owned] /\ \A u \in Threads : u # t => own'[u] = own[u]
      /\ own'[t].rid = r
      /\ pc'[t] = "manifest" => own'[t].side \in Sides
  <2>1. own \in [Threads -> Owned]
    BY DEF IInv, TypeOK
  <2>2. recs[r] # NoDir => /\ [own[t] EXCEPT !.side = side] \in Owned
                           /\ [own[t] EXCEPT !.side = side].side = side
                           /\ [own[t] EXCEPT !.side = side].rid = r
    BY <1>3, <2>1 DEF Owned
  <2> HIDE DEF r
  <2>3. r = own[t].rid
    BY DEF r
  <2> QED BY <1>1, <1>3, <1>4, <2>1, <2>2, <2>3
<1>7. TypeOK'
  BY <1>1, <1>4, <1>5, <1>6 DEF IInv, TypeOK
<1>8. Carried'
  BY <1>2, <1>4, <1>6, CarriedByOthers DEF IInv, Carries
<1>9. Compared' /\ ReviewKnown'
  BY <1>1, <1>4, <1>6, ThreadFrame DEF Saving
<1> QED BY <1>7, <1>8, <1>9 DEF IInv

LEMMA WriteManifestInv ==
  ASSUME IInv, NEW t \in Threads, WriteManifest(t)
  PROVE  IInv'
<1> DEFINE r == own[t].rid
           manifest == [target |-> ses.target, base |-> ses.base, sha |-> dir.side.sha,
                        side |-> own[t].side, count |-> ses.count]
<1>1. /\ files' = files /\ backups' = backups /\ restore' = restore /\ dir' = dir
      /\ listed' = listed /\ phase' = phase /\ seen' = seen /\ left' = left
      /\ ses' = ses /\ pc[t] = "manifest" /\ own' = [own EXCEPT ![t].side = NoText]
      /\ \/ Fail(t) /\ recs' = recs
         \/ /\ GoTo(t, own[t].then) /\ dir # NoDir /\ recs[r] # NoDir
            /\ recs' = [recs EXCEPT ![r].manifest = manifest]
  BY DEF WriteManifest, Rewritten, At, disk
<1>2. r \in RecIds /\ own[t].side \in Sides
  BY <1>1 DEF IInv, Carried
<1>3. dir # NoDir => manifest \in Manifests
  <2>1. dir # NoDir => dir.side.sha \in Texts
    BY DEF IInv, TypeOK, Sides
  <2>2. ses.target \in Paths /\ ses.base \in Texts /\ ses.count \in Nat
    BY DEF IInv, TypeOK, Sessions
  <2> QED BY <1>2, <2>1, <2>2 DEF Manifests
<1> HIDE DEF manifest
<1>4. /\ pc' \in [Threads -> Labels] /\ pc'[t] \in {"registry", "clean", "idle", "failed"}
      /\ \A u \in Threads : u # t => pc'[u] = pc[u]
  <2>1. own[t].then \in Labels /\ own[t].then \in {"registry", "clean"}
    BY Onward DEF IInv
  <2> QED BY <1>1, <2>1, Moves, Fails DEF IInv
<1>5. recs' \in [RecIds -> Recoveries \cup {NoDir}]
  <2>1. recs \in [RecIds -> Recoveries \cup {NoDir}]
    BY DEF IInv, TypeOK
  <2>2. recs[r] # NoDir /\ dir # NoDir => [recs[r] EXCEPT !.manifest = manifest] \in Recoveries
    BY <1>2, <1>3, <2>1 DEF Recoveries
  <2> QED BY <1>1, <1>2, <2>1, <2>2
<1>6. own' \in [Threads -> Owned] /\ \A u \in Threads : u # t => own'[u] = own[u]
  BY <1>1 DEF IInv, TypeOK, Owned
<1>7. TypeOK'
  BY <1>1, <1>4, <1>5, <1>6 DEF IInv, TypeOK
<1>8. Carried'
  BY <1>4, <1>6, CarriedByOthers DEF IInv, Carries
<1>9. Compared' /\ ReviewKnown'
  BY <1>1, <1>4, <1>6, ThreadFrame DEF Saving
<1> QED BY <1>7, <1>8, <1>9 DEF IInv

LEMMA DiscardInv ==
  ASSUME IInv, NEW t \in Threads, Discard(t)
  PROVE  IInv'
<1>1. /\ files' = files /\ backups' = backups /\ restore' = restore /\ dir' = dir
      /\ phase' = phase /\ seen' = seen /\ left' = left /\ own' = own
      /\ GoTo(t, own[t].then)
      /\ \/ recs' = recs /\ listed' = listed /\ ses' = ses
         \/ /\ ses.rid # NoRec /\ recs' = [recs EXCEPT ![ses.rid] = NoDir] /\ listed' = TRUE
            /\ ses' = [ses EXCEPT !.rid = NoRec]
  BY DEF Discard, Removed, disk
<1>2. /\ pc' \in [Threads -> Labels] /\ pc'[t] \in {"registry", "clean"}
      /\ \A u \in Threads : u # t => pc'[u] = pc[u]
  <2>1. own[t].then \in Labels /\ own[t].then \in {"registry", "clean"}
    BY Onward DEF IInv
  <2> QED BY <1>1, <2>1, Moves DEF IInv
<1>3. recs' \in [RecIds -> Recoveries \cup {NoDir}] /\ listed' \in BOOLEAN
  BY <1>1 DEF IInv, TypeOK
<1>4. /\ ses' \in Sessions /\ ses'.target = ses.target /\ ses'.keeps = ses.keeps
      /\ ses'.reviewed = ses.reviewed /\ ses'.count = ses.count /\ ses'.draft = ses.draft
  BY <1>1 DEF IInv, TypeOK, Sessions
<1>5. TypeOK'
  BY <1>1, <1>2, <1>3, <1>4 DEF IInv, TypeOK
<1>6. Carried'
  BY <1>1, <1>2, CarriedByOthers DEF IInv, Carries
<1>7. Compared' /\ ReviewKnown'
  BY <1>1, <1>2, <1>4, ThreadFrame DEF Saving
<1> QED BY <1>5, <1>6, <1>7 DEF IInv

LEMMA CleanInv ==
  ASSUME IInv, NEW t \in Threads, Clean(t)
  PROVE  IInv'
<1>1. /\ files' = files /\ backups' = backups /\ restore' = restore /\ recs' = recs
      /\ phase' = phase /\ seen' = seen /\ left' = left /\ own' = own /\ ses' = ses
      /\ dir' = NoDir /\ listed' = FALSE /\ GoTo(t, "leave")
  BY DEF Clean, disk
<1>2. /\ pc' \in [Threads -> Labels] /\ pc'[t] = "leave"
      /\ \A u \in Threads : u # t => pc'[u] = pc[u]
  BY <1>1, Moves DEF IInv, Labels
<1>3. TypeOK'
  BY <1>1, <1>2 DEF IInv, TypeOK
<1>4. Carried'
  BY <1>1, <1>2, CarriedByOthers DEF IInv, Carries
<1>5. Compared' /\ ReviewKnown'
  BY <1>1, <1>2, ThreadFrame DEF Saving
<1> QED BY <1>3, <1>4, <1>5 DEF IInv

LEMMA LeaveInv ==
  ASSUME IInv, NEW t \in Threads, Leave(t)
  PROVE  IInv'
<1>1. /\ files' = files /\ backups' = backups /\ restore' = restore /\ recs' = recs
      /\ dir' = dir /\ listed' = listed /\ seen' = seen /\ left' = left
      /\ own' = own /\ ses' = ses /\ GoTo(t, "ended")
      /\ phase' \in {"exited", "running", "closed"}
  BY DEF Leave, disk, home
<1>2. /\ pc' \in [Threads -> Labels] /\ pc'[t] = "ended"
      /\ \A u \in Threads : u # t => pc'[u] = pc[u]
  BY <1>1, Moves DEF IInv, Labels
<1>3. TypeOK'
  BY <1>1, <1>2 DEF IInv, TypeOK
<1>4. Carried'
  BY <1>1, <1>2, CarriedByOthers DEF IInv, Carries
<1>5. Compared' /\ ReviewKnown'
  BY <1>1, <1>2, ThreadFrame DEF Saving
<1> QED BY <1>3, <1>4, <1>5 DEF IInv

LEMMA ShutdownInv ==
  ASSUME IInv, NEW t \in Threads, NEW q \in Policies, Shutdown(t, q)
  PROVE  IInv'
<1>1. /\ files' = files /\ backups' = backups /\ restore' = restore /\ recs' = recs
      /\ dir' = dir /\ listed' = listed /\ phase' = phase /\ left' = left
      /\ ses' = [ses EXCEPT !.down = TRUE]
      /\ own' = [own EXCEPT ![t].then = "clean"]
      /\ seen' = [seen EXCEPT !.raced = @ \/ Busy(Other(t)),
                              !.asked = IF ses.down THEN @ ELSE q]
      /\ GoTo(t, IF ses.down THEN "leave" ELSE FirstOfShutdown(q))
  BY DEF Shutdown, disk, home
<1>2. \E label \in {"leave", "open", "discard", "clean"} : GoTo(t, label)
  BY <1>1 DEF FirstOfShutdown, Policies
<1>3. /\ pc' \in [Threads -> Labels] /\ pc'[t] \in {"leave", "open", "discard", "clean"}
      /\ \A u \in Threads : u # t => pc'[u] = pc[u]
  <2>1. {"leave", "open", "discard", "clean"} \subseteq Labels
    BY DEF Labels
  <2> QED BY <1>2, <2>1, Moves DEF IInv
<1>4. own' \in [Threads -> Owned] /\ \A u \in Threads : u # t => own'[u] = own[u]
  BY <1>1 DEF IInv, TypeOK, Owned
<1>5. /\ ses' \in Sessions /\ ses'.target = ses.target /\ ses'.keeps = ses.keeps
      /\ ses'.reviewed = ses.reviewed /\ ses'.count = ses.count /\ ses'.draft = ses.draft
  BY <1>1 DEF IInv, TypeOK, Sessions
<1>6. /\ seen' \in Histories /\ seen'.blind = seen.blind /\ seen'.touched = seen.touched
      /\ seen'.reviewed = seen.reviewed
  <2>1. seen \in Histories
    BY DEF IInv, TypeOK
  <2>2. (seen.raced \/ Busy(Other(t))) \in BOOLEAN
    BY <2>1 DEF Histories, Busy
  <2>3. (IF ses.down THEN seen.asked ELSE q) \in Policies
    BY <2>1 DEF Histories
  <2> QED BY <1>1, <2>1, <2>2, <2>3 DEF Histories
<1>7. TypeOK'
  BY <1>1, <1>3, <1>4, <1>5, <1>6 DEF IInv, TypeOK
<1>8. Carried'
  BY <1>3, <1>4, CarriedByOthers DEF IInv, Carries
<1>9. Compared' /\ ReviewKnown'
  BY <1>1, <1>3, <1>4, <1>5, <1>6, ThreadFrame DEF Saving
<1> QED BY <1>7, <1>8, <1>9 DEF IInv

LEMMA CrashInv == IInv /\ Crash => IInv'
<1> SUFFICES ASSUME IInv, Crash PROVE IInv'
  OBVIOUS
<1>1. NoMemory \in Sessions
  <2>1. TextOf(ses.draft) \in Texts
    BY TextsAreTexts DEF IInv, TypeOK, Sessions
  <2> QED BY <2>1, NoMemoryType
<1>2. AtRest \in [Threads -> Owned]
  BY DEF AtRest, Owned
<1>3. seen' \in Histories
  BY DEF Crash, IInv, TypeOK, Histories, Policies
<1>4. pc' \in [Threads -> Labels] /\ \A t \in Threads : pc'[t] = "ended"
  BY DEF Crash, Labels
<1>5. TypeOK'
  BY <1>1, <1>2, <1>3, <1>4 DEF Crash, IInv, TypeOK, disk
<1>6. Carried'
  BY <1>4 DEF Carried
<1>7. Compared'
  BY <1>4, NotSaving DEF Saving, Threads
<1>8. ReviewKnown'
  BY DEF Crash, ReviewKnown
<1> QED BY <1>5, <1>6, <1>7, <1>8 DEF IInv

-----------------------------------------------------------------------------
(* What other programs do.                                                 *)
LEMMA WrittenInv ==
  ASSUME IInv, NEW p \in Paths, NEW x \in Texts \cup {NoText}, Written(p, x),
         restore' \in [to : Paths, text : Texts] \cup {NoText},
         left' \in [changes : 0 .. MaxChanges, sessions : 0 .. MaxSessions],
         UNCHANGED <<backups, home, ses, pc, own, phase>>
  PROVE  IInv'
<1>1. /\ files' = [files EXCEPT ![p] = x]
      /\ seen' = [seen EXCEPT !.touched = @ \/ p = ses.target,
                              !.blind = @ \/ (p = ses.target /\ pc["server"] = "replace")]
  BY DEF Written
<1>2. seen \in Histories /\ files \in [Paths -> Texts \cup {NoText}] /\ ses.target \in Paths
  BY DEF IInv, TypeOK, Sessions
<1>3. /\ seen' \in Histories /\ seen'.reviewed = seen.reviewed
      /\ seen'.touched <=> (seen.touched \/ p = ses.target)
      /\ seen'.blind <=> (seen.blind \/ (p = ses.target /\ pc["server"] = "replace"))
  BY <1>1, <1>2 DEF Histories
<1>4. p # ses.target => Target' = Target
  BY <1>1, <1>2 DEF Target
<1>5. TypeOK'
  BY <1>1, <1>2, <1>3 DEF IInv, TypeOK, home
<1>6. Carried'
  BY DEF IInv, Carried
<1>7. Compared'
  BY <1>3, <1>4 DEF IInv, Compared
<1>8. ReviewKnown'
  BY <1>3, ReviewUntouched DEF IInv, home
<1> QED BY <1>5, <1>6, <1>7, <1>8 DEF IInv

LEMMA FewerChanges ==
  ASSUME TypeOK, left.changes > 0, left' = [left EXCEPT !.changes = @ - 1]
  PROVE  left' \in [changes : 0 .. MaxChanges, sessions : 0 .. MaxSessions]
BY EditorAssumption DEF TypeOK

LEMMA WriteFileInv ==
  ASSUME IInv, NEW p \in Paths, NEW x \in Foreign \cup {NoText}, WriteFile(p, x)
  PROVE  IInv'
<1>1. x \in Texts \cup {NoText}
  BY EditorAssumption
<1>2. left' \in [changes : 0 .. MaxChanges, sessions : 0 .. MaxSessions]
  BY FewerChanges DEF WriteFile, IInv
<1>3. restore' \in [to : Paths, text : Texts] \cup {NoText}
  BY DEF WriteFile, IInv, TypeOK
<1> QED BY <1>1, <1>2, <1>3, WrittenInv DEF WriteFile

LEMMA RestoreReplacesInv == IInv /\ RestoreReplaces => IInv'
<1> SUFFICES ASSUME IInv, RestoreReplaces PROVE IInv'
  OBVIOUS
<1>1. restore.to \in Paths /\ restore.text \in Texts \cup {NoText}
  BY DEF RestoreReplaces, IInv, TypeOK
<1>2. left' \in [changes : 0 .. MaxChanges, sessions : 0 .. MaxSessions]
  BY DEF RestoreReplaces, IInv, TypeOK
<1> QED BY <1>1, <1>2, WrittenInv DEF RestoreReplaces

LEMMA OtherProgramsInv ==
  ASSUME IInv, (\E r \in RecIds : DiscardRecovery(r)) \/ (\E b \in backups : RestoreBegins(b))
  PROVE  IInv'
<1>1. /\ files' = files /\ backups' = backups /\ dir' = dir /\ listed' = listed
      /\ ses' = ses /\ pc' = pc /\ own' = own /\ phase' = phase
      /\ left.changes > 0 /\ left' = [left EXCEPT !.changes = @ - 1]
      /\ \/ restore' = restore /\ \E r \in RecIds :
              /\ recs' = [recs EXCEPT ![r] = NoDir]
              /\ seen' = [seen EXCEPT !.raced = @ \/ r = ses.rid]
         \/ recs' = recs /\ seen' = seen /\ \E b \in backups :
              b.holds # NoText /\ restore' = [to |-> ses.target, text |-> b.holds]
  BY DEF DiscardRecovery, RestoreBegins, disk, home
<1>2. left' \in [changes : 0 .. MaxChanges, sessions : 0 .. MaxSessions]
  BY <1>1, FewerChanges DEF IInv
<1>3. recs' \in [RecIds -> Recoveries \cup {NoDir}]
  BY <1>1 DEF IInv, TypeOK
<1>4. restore' \in [to : Paths, text : Texts] \cup {NoText}
  <2>1. ses.target \in Paths
    BY DEF IInv, TypeOK, Sessions
  <2>2. \A b \in backups : b.holds \in Texts \cup {NoText}
    BY DEF IInv, TypeOK
  <2> QED BY <1>1, <2>1, <2>2 DEF IInv, TypeOK
<1>5. /\ seen' \in Histories /\ seen'.blind = seen.blind /\ seen'.touched = seen.touched
      /\ seen'.reviewed = seen.reviewed
  BY <1>1 DEF IInv, TypeOK, Histories
<1>6. TypeOK'
  BY <1>1, <1>2, <1>3, <1>4, <1>5 DEF IInv, TypeOK
<1>7. Carried'
  BY <1>1 DEF IInv, Carried
<1>8. Compared'
  BY <1>1, <1>5, SaveUntouched DEF IInv
<1>9. ReviewKnown'
  BY <1>1, <1>5, ReviewUntouched DEF IInv
<1> QED BY <1>6, <1>7, <1>8, <1>9 DEF IInv

-----------------------------------------------------------------------------
LEMMA NextInv == IInv /\ [Next]_vars => IInv'
<1> SUFFICES ASSUME IInv, [Next]_vars PROVE IInv'
  OBVIOUS
<1>1. ASSUME NEW p \in Paths, NEW k \in BOOLEAN, Start(p, k) PROVE IInv'
  BY <1>1, StartInv
<1>2. ASSUME NEW r \in RecIds, Resume(r) \/ DiscardRecovery(r) PROVE IInv'
  BY <1>2, ResumeInv, OtherProgramsInv
<1>3. ASSUME NEW d \in Docs, Edit(d) PROVE IInv'
  BY <1>3, EditInv
<1>4. CASE EmptyEdit \/ Review \/ Save
  BY <1>4, EmptyEditInv, ReviewInv, SaveInv
<1>5. ASSUME NEW t \in Threads, NEW q \in Policies, Shutdown(t, q) PROVE IInv'
  BY <1>5, ShutdownInv
<1>6. ASSUME NEW t \in Threads, ThreadStep(t) PROVE IInv'
  BY <1>6, OpenRecoveryInv, CopyDraftInv, CopySideInv, WriteManifestInv, DiscardInv,
     CleanInv, LeaveInv DEF ThreadStep
<1>7. CASE RequestStep
  BY <1>7, WriteDraftInv, WriteRegistryInv, BackupInv, RecheckInv, ReplaceInv,
     RefreshBaseInv DEF RequestStep
<1>8. ASSUME NEW p \in Paths, NEW x \in Foreign \cup {NoText}, WriteFile(p, x) PROVE IInv'
  BY <1>8, WriteFileInv
<1>9. ASSUME NEW b \in backups, RestoreBegins(b) PROVE IInv'
  BY <1>9, OtherProgramsInv
<1>10. CASE UNCHANGED vars
  BY <1>10 DEF vars, disk, home, IInv, TypeOK, Carried, Compared, ReviewKnown, Target
<1>11. "server" \in Threads /\ "stopper" \in Threads
  BY DEF Threads
<1> QED BY <1>1, <1>2, <1>3, <1>4, <1>5, <1>6, <1>7, <1>8, <1>9, <1>10, <1>11,
           CrashInv, RestoreReplacesInv DEF Next

LEMMA Invariance == Spec => []IInv
BY InitInv, NextInv, PTL DEF Spec

-----------------------------------------------------------------------------
(* The shapes of files, recoveries and memory (session.py, save.py) hold   *)
(* in every reachable state, for any configurations and any bounds.        *)
THEOREM TypeCorrect == Spec => []TypeOK
BY Invariance, PTL DEF IInv

(* Only Recheck goes from the last comparison to the end of a save.        *)
LEMMA OnlyRecheckInstalls ==
  ASSUME IInv, Next, pc["server"] = "recheck", pc'["server"] = "refresh"
  PROVE  Recheck
<1>0. "server" \in Threads /\ pc \in [Threads -> Labels]
  BY DEF Threads, IInv, TypeOK
<1>1. ASSUME NEW t \in Threads, ThreadStep(t) PROVE FALSE
  <2>1. pc[t] \in {"open", "copy_draft", "copy_side", "manifest", "discard", "clean", "leave"}
    BY <1>1 DEF ThreadStep, OpenRecovery, CopyDraft, CopySide, WriteManifest, Discard,
                Clean, Leave, At
  <2>2. \E label \in Labels : GoTo(t, label)
    <3>1. own[t].then \in Labels /\ {"copy_draft", "copy_side", "manifest", "leave", "ended",
                                     "idle", "failed"} \subseteq Labels
      BY Onward DEF IInv, Labels
    <3>2. OpenRecovery(t) \/ Discard(t) \/ Clean(t) \/ Leave(t) => \E label \in Labels : GoTo(t, label)
      BY <3>1 DEF OpenRecovery, Discard, Clean, Leave
    <3>3. CopyDraft(t) \/ WriteManifest(t) => \E label \in Labels : GoTo(t, label)
      BY <3>1 DEF CopyDraft, WriteManifest, Fail
    <3>4. CopySide(t) => Fail(t) \/ GoTo(t, "manifest")
      <4>1. CASE NoText \in {recs[own[t].rid].draft, IF dir = NoDir THEN recs[own[t].rid].side ELSE dir.side}
        BY <4>1 DEF CopySide
      <4>2. CASE NoText \notin {recs[own[t].rid].draft, IF dir = NoDir THEN recs[own[t].rid].side ELSE dir.side}
        BY <4>2 DEF CopySide
      <4> QED BY <4>1, <4>2
    <3> QED BY <1>1, <3>1, <3>2, <3>3, <3>4 DEF ThreadStep, Fail
  <2>3. t # "server"
    BY <2>1
  <2>4. pc'["server"] = pc["server"]
    BY <1>0, <2>2, <2>3 DEF GoTo
  <2> QED BY <2>4
<1>2. ASSUME NEW t \in Threads, NEW q \in Policies, Shutdown(t, q) PROVE FALSE
  <2>1. t # "server" /\ \E label \in {"leave", "open", "discard", "clean"} : GoTo(t, label)
    BY <1>2 DEF Shutdown, Idle, FirstOfShutdown, Policies
  <2>2. pc'["server"] = pc["server"]
    BY <1>0, <2>1 DEF GoTo
  <2> QED BY <2>2
<1>3. ASSUME NEW s, NEW d, NEW side, Begin(s, d, side) PROVE FALSE
  BY <1>0, <1>3 DEF Begin
<1>4. ASSUME (\E d \in Docs : Edit(d)) \/ EmptyEdit \/ Review \/ Save PROVE FALSE
  BY <1>4 DEF Edit, EmptyEdit, Review, Save, Request, Idle
<1>5. CASE RequestStep
  BY <1>5 DEF RequestStep, WriteDraft, WriteSidecar, WriteRegistry, Backup, Replace,
              RefreshBase, At
<1>6. ASSUME Crash PROVE FALSE
  BY <1>0, <1>6 DEF Crash
<1>7. ASSUME \/ \E p \in Paths, x \in Foreign \cup {NoText} : WriteFile(p, x)
             \/ \E r \in RecIds : DiscardRecovery(r)
             \/ \E b \in backups : RestoreBegins(b)
             \/ RestoreReplaces
      PROVE  FALSE
  BY <1>7 DEF WriteFile, DiscardRecovery, RestoreBegins, RestoreReplaces
<1>8. "stopper" \in Threads /\ Policies \ {"cancel"} \subseteq Policies
  BY DEF Threads
<1> QED BY <1>0, <1>1, <1>2, <1>3, <1>4, <1>5, <1>6, <1>7, <1>8 DEF Next, Start, Resume

(* Whatever other programs write, save_draft replaces the text it compared *)
(* (but for a write after the last comparison), which is in a backup then. *)
THEOREM AlwaysReplacesWhatItKnows == Spec => ReplacesWhatItKnows
<1>1. IInv /\ [Next]_vars =>
        [ Replaces =>
            /\ Target = own["server"].expected \/ seen.blind
            /\ ses.keeps /\ Target # NoText /\ ~seen.touched =>
                 [of |-> Target, holds |-> Target] \in backups ]_vars
  <2> SUFFICES ASSUME IInv, [Next]_vars, ~UNCHANGED vars, Replaces
               PROVE  /\ Target = own["server"].expected \/ seen.blind
                      /\ ses.keeps /\ Target # NoText /\ ~seen.touched =>
                           [of |-> Target, holds |-> Target] \in backups
    OBVIOUS
  <2>1. CASE pc["server"] = "replace"
    BY <2>1 DEF IInv, Compared
  <2>2. CASE Next /\ pc["server"] = "recheck" /\ pc'["server"] = "refresh"
    <3>1. Recheck /\ "server" \in Threads /\ pc \in [Threads -> Labels]
      BY <2>2, OnlyRecheckInstalls DEF IInv, TypeOK, Threads
    <3>2. ~Fail("server") /\ ~GoTo("server", "replace")
      BY <2>2, <3>1 DEF Fail, GoTo
    <3>3. Target = NoText /\ own["server"].expected = NoText
      BY <3>1, <3>2 DEF Recheck
    <3> QED BY <3>3
  <2> QED BY <2>1, <2>2 DEF Replaces, At
<1> QED BY <1>1, Invariance, PTL DEF Spec, ReplacesWhatItKnows

(* A save writes the draft that was reviewed last, whatever the page did   *)
(* between the review and the save (handle_review, handle_save).           *)
THEOREM AlwaysSavedWasReviewed == Spec => SavedWasReviewed
<1>1. IInv => [ Replaces /\ dir # NoDir => ses.draft = seen.reviewed ]_vars
  BY DEF IInv, ReviewKnown, Replaces, At
<1> QED BY <1>1, Invariance, PTL DEF Spec, SavedWasReviewed

-----------------------------------------------------------------------------
(* The recovery. What holds of it as long as nothing has raced with a stop *)
(* or has taken the session's recovery away.                               *)
Handling == {"draft", "sidecar", "registry", "backup", "recheck", "replace", "refresh"}
Copying  == {"copy_draft", "copy_side", "manifest"}
Leaving  == {"clean", "leave"}

(* The sidecar of the draft as it is in memory.                            *)
Now == [sha |-> TextOf(ses.draft), count |-> ses.count]

(* Thread t is the one that works, if any does, and what follows its       *)
(* writing tells whether it is the one that stops the session.             *)
Turn(t) ==
  /\ pc[Other(t)] = "idle" /\ own[Other(t)].then = "registry"
  /\ pc[t] \notin {"ended", "failed"}
  /\ own[t].then = "clean" => pc[t] # "idle" /\ pc[t] \notin Handling
  /\ own[t].then = "clean" <=> ses.down
  /\ pc[t] \in Leaving => own[t].then = "clean"
  /\ t = "stopper" => pc[t] = "idle" \/ own[t].then = "clean"

(* The session's directory says what the memory says, but for the files    *)
(* that the request under way has yet to write, until it is removed.       *)
Mirrored(t) ==
  /\ pc[t] # "leave" => dir # NoDir
  /\ pc[t] = "leave" => dir = NoDir /\ ~listed
  /\ dir # NoDir /\ pc[t] \notin {"draft", "sidecar"} => dir.side = Now
  /\ dir # NoDir /\ ses.dirty /\ pc[t] # "draft" => dir.draft = TextOf(ses.draft)
  /\ ses.dirty => Now \in seen.drafts

(* The recovery of the session is there, and no thread remembers another.  *)
Kept ==
  /\ ses.rid # NoRec => recs[ses.rid] # NoDir
  /\ \A u \in Threads : own[u].rid \in {NoRec, ses.rid} \/ recs[own[u].rid] = NoDir

(* How far the thread is with the recovery that it writes.                 *)
Copied(t) ==
  /\ pc[t] \in Copying => ses.dirty /\ ses.rid # NoRec /\ own[t].rid = ses.rid
  /\ pc[t] \in {"copy_side", "manifest"} => recs[ses.rid].draft = TextOf(ses.draft)
  /\ pc[t] = "manifest" => recs[ses.rid].side = Now /\ own[t].side = Now
  /\ pc[t] = "discard" =>
       IF own[t].then = "clean" THEN seen.asked = "discard" ELSE ~ses.dirty
  /\ pc[t] \in Copying \cup {"open"} /\ own[t].then = "clean" => seen.asked # "discard"

(* Where it is not writing it, the recovery of a changed draft is complete *)
(* or has been discarded.                                                  *)
Whole(t) ==
  \/ pc[t] \in {"idle", "registry", "backup", "recheck", "replace", "refresh"}
  \/ pc[t] \in Leaving /\ seen.asked # "discard"

Complete(t) ==
  /\ ses.dirty /\ Whole(t) => ses.rid # NoRec /\ Current(ses.rid)
  /\ pc[t] \in Leaving /\ seen.asked = "discard" => ses.rid = NoRec

Working(t) == Turn(t) /\ Mirrored(t) /\ Kept /\ Copied(t) /\ Complete(t)

(* A manifest describes a draft that the editor had.                       *)
Described ==
  /\ \A x \in seen.drafts : TextOf(x.sha.says) = x.sha
  /\ \A r \in RecIds : recs[r] # NoDir /\ recs[r].manifest # NoText =>
       /\ recs[r].manifest.sha = recs[r].manifest.side.sha
       /\ recs[r].manifest.count = recs[r].manifest.side.count
       /\ recs[r].manifest.side \in seen.drafts

(* What is left of a session that was stopped.                             *)
Ended ==
  phase \in {"closed", "exited"} =>
    /\ dir = NoDir /\ ~listed
    /\ seen.asked = "discard" =>
         \A u \in Threads : own[u].rid = NoRec \/ recs[own[u].rid] = NoDir
    /\ seen.asked # "discard" /\ ses.dirty =>
         ses.rid # NoRec /\ recs[ses.rid] # NoDir /\ Current(ses.rid)

Undisturbed ==
  ~seen.raced => /\ Described /\ Ended
                 /\ Running => \E t \in Threads : Working(t)

LEMMA Others ==
  \A t \in Threads : /\ Other(t) \in Threads /\ Other(t) # t
                     /\ \A u \in Threads : u = t \/ u = Other(t)
                     /\ Other(Other(t)) = t
BY DEF Threads, Other

(* A thread that is on its way is the one that works; where both are idle, *)
(* either may be taken for it.                                             *)
LEMMA Worker ==
  ASSUME IInv, Undisturbed, Running, ~seen.raced, NEW t \in Threads,
         ~Idle(t) \/ Idle(Other(t))
  PROVE  Working(t) /\ Described
<1>1. PICK u \in Threads : Working(u)
  BY DEF Undisturbed
<1>2. CASE u = t
  BY <1>1, <1>2 DEF Undisturbed
<1>3. CASE u = Other(t)
  <2>1. Other(u) = t /\ pc[t] = "idle" /\ pc[u] = "idle"
    BY <1>1, <1>3, Others DEF Working, Turn, Idle
  <2>2. own[t].then = "registry" /\ own[u].then = "registry" /\ ~ses.down
    BY <1>1, <2>1, Onward DEF Working, Turn, IInv
  <2>3. Turn(t)
    BY <1>3, <2>1, <2>2 DEF Turn, Leaving
  <2>4. Mirrored(t) /\ Kept /\ Copied(t)
    BY <1>1, <2>1 DEF Working, Mirrored, Copied, Copying
  <2>5. Complete(t)
    BY <1>1, <2>1 DEF Working, Complete, Whole, Leaving
  <2> QED BY <2>3, <2>4, <2>5 DEF Working, Undisturbed
<1> QED BY <1>2, <1>3, Others

(* What a step has to show.                                                *)
LEMMA StillWorking ==
  ASSUME NEW t \in Threads,
         seen'.raced \/ (Described' /\ Working(t)' /\ phase' = "running")
  PROVE  Undisturbed'
BY DEF Undisturbed, Ended

-----------------------------------------------------------------------------
(* Steps of the server's thread between its requests and within a save:    *)
(* they leave the directory, the recovery and what is in memory alone.     *)
Resting == {"idle", "registry", "backup", "recheck", "replace", "refresh"}

LEMMA ServerThen ==
  ASSUME IInv, Turn("server"), pc["server"] \in Handling \cup {"idle"}
  PROVE  own["server"].then = "registry"
<1>1. "server" \in Threads
  BY DEF Threads
<1> QED BY <1>1, Onward DEF IInv, Turn

LEMMA ServerMoves ==
  ASSUME IInv, Working("server"), Described,
         pc["server"] \in Resting, pc'["server"] \in Resting \cup {"open", "draft"},
         pc'["stopper"] = pc["stopper"], own'["stopper"] = own["stopper"],
         own'["server"].then = "registry", own'["server"].rid = own["server"].rid,
         dir' = dir, recs' = recs, ses' = ses,
         seen'.drafts = seen.drafts, seen'.asked = seen.asked, phase' = "running"
  PROVE  Undisturbed'
<1>1. Other("server") = "stopper" /\ Threads = {"server", "stopper"}
  BY DEF Other, Threads
<1>2. own["server"].then = "registry"
  BY ServerThen DEF Working, Resting, Handling
<1>3. Turn("server")'
  BY <1>1, <1>2 DEF Working, Turn, Resting, Handling, Leaving
<1>4. Mirrored("server")'
  BY DEF Working, Mirrored, Resting, Now
<1>5. Kept'
  BY <1>1 DEF Working, Kept
<1>6. Copied("server")'
  BY DEF Copied, Resting, Copying
<1>7. Complete("server")'
  BY DEF Working, Complete, Resting, Whole, Leaving, Current
<1>8. Described'
  BY DEF Described
<1> QED BY <1>1, <1>3, <1>4, <1>5, <1>6, <1>7, <1>8, StillWorking DEF Working

(* Steps of other programs, and the review: no thread moves.               *)
LEMMA Elsewhere ==
  ASSUME IInv, Undisturbed, ~seen.raced, phase' = phase,
         pc' = pc, own' = own, dir' = dir, listed' = listed,
         ses' = [ses EXCEPT !.reviewed = ses'.reviewed],
         \/ recs' = recs
         \/ \E r \in RecIds : r # ses.rid /\ recs' = [recs EXCEPT ![r] = NoDir],
         seen'.drafts = seen.drafts, seen'.asked = seen.asked
  PROVE  Undisturbed'
<1>1. /\ ses'.target = ses.target /\ ses'.base = ses.base /\ ses'.draft = ses.draft
      /\ ses'.dirty = ses.dirty /\ ses'.count = ses.count /\ ses'.rid = ses.rid
      /\ ses'.down = ses.down
  BY DEF IInv, TypeOK, Sessions
<1>2. /\ ses.rid # NoRec => recs'[ses.rid] = recs[ses.rid]
      /\ \A r \in RecIds : recs'[r] \in {recs[r], NoDir}
  BY DEF IInv, TypeOK, Sessions
<1>3. \A u \in Threads : own[u].rid # NoRec /\ recs[own[u].rid] = NoDir => recs'[own[u].rid] = NoDir
  BY <1>2 DEF IInv, TypeOK, Owned
<1>4. Described'
  BY <1>2 DEF Undisturbed, Described
<1>5. ses.rid # NoRec /\ Current(ses.rid) => Current(ses.rid)'
  BY <1>1, <1>2 DEF Current
<1>6. Ended'
  BY <1>1, <1>2, <1>3, <1>5 DEF Undisturbed, Ended
<1>7. ASSUME NEW t \in Threads, Working(t) PROVE Working(t)'
  <2>1. Turn(t)' /\ Mirrored(t)'
    BY <1>1, <1>7 DEF Working, Turn, Mirrored, Now
  <2>2. Kept'
    BY <1>1, <1>2, <1>3, <1>7 DEF Working, Kept
  <2>3. Copied(t)'
    BY <1>1, <1>2, <1>7 DEF Working, Copied, Copying, Now
  <2>4. Complete(t)'
    BY <1>1, <1>5, <1>7 DEF Working, Complete, Whole
  <2> QED BY <2>1, <2>2, <2>3, <2>4 DEF Working
<1> QED BY <1>4, <1>6, <1>7 DEF Undisturbed, Running

-----------------------------------------------------------------------------
LEMMA EditCalm ==
  ASSUME IInv, Working("server"), Described, Idle("stopper"), NEW d \in Docs, Edit(d)
  PROVE  Undisturbed'
<1>1. /\ pc["server"] = "idle" /\ GoTo("server", "draft")
      /\ own' = [own EXCEPT !["server"] = [@ EXCEPT !.then = "registry", !.round = 1]]
      /\ recs' = recs /\ dir' = dir /\ phase' = "running"
      /\ ses' = [ses EXCEPT !.draft = d, !.dirty = TRUE, !.count = @ + 1]
      /\ seen' = [Racing(seen) EXCEPT
                    !.drafts = @ \cup {[sha |-> TextOf(d), count |-> ses.count + 1]}]
  BY DEF Edit, Request, Idle, Running, home
<1>2. Other("server") = "stopper" /\ Threads = {"server", "stopper"}
  BY DEF Other, Threads
<1>3. pc'["server"] = "draft" /\ pc'["stopper"] = pc["stopper"]
  BY <1>1, <1>2 DEF GoTo, IInv, TypeOK
<1>4. /\ own'["stopper"] = own["stopper"] /\ own'["server"].then = "registry"
      /\ own'["server"].rid = own["server"].rid
  BY <1>1, <1>2 DEF IInv, TypeOK, Owned
<1>5. /\ ses'.draft = d /\ ses'.dirty = TRUE /\ ses'.count = ses.count + 1
      /\ ses'.rid = ses.rid /\ ses'.down = ses.down
  BY <1>1 DEF IInv, TypeOK, Sessions
<1>6. Now' = [sha |-> TextOf(d), count |-> ses.count + 1]
  BY <1>5 DEF Now
<1>7. seen'.drafts = seen.drafts \cup {Now'} /\ seen'.asked = seen.asked
  BY <1>1, <1>6 DEF IInv, TypeOK, Histories, Racing
<1>8. Turn("server")'
  <2>1. own["server"].then = "registry" /\ ~ses.down
    BY <1>1, ServerThen DEF Working, Turn
  <2> QED BY <1>2, <1>3, <1>4, <1>5, <2>1 DEF Working, Turn, Leaving
<1>9. Mirrored("server")'
  BY <1>1, <1>3, <1>7 DEF Working, Mirrored
<1>10. Kept'
  BY <1>1, <1>2, <1>4, <1>5 DEF Working, Kept
<1>11. Copied("server")' /\ Complete("server")'
  BY <1>3 DEF Copied, Copying, Complete, Whole, Leaving
<1>12. Described'
  <2>1. TextOf(Now'.sha.says) = Now'.sha
    BY <1>6, EditorAssumption DEF TextOf
  <2> QED BY <1>1, <1>7, <2>1 DEF Described
<1> QED BY <1>1, <1>2, <1>8, <1>9, <1>10, <1>11, <1>12, StillWorking DEF Working

LEMMA WriteDraftCalm ==
  ASSUME IInv, Working("server"), Described, WriteDraft \/ WriteSidecar
  PROVE  Undisturbed'
<1>1. pc["server"] \in {"draft", "sidecar"} /\ dir # NoDir
  BY DEF WriteDraft, WriteSidecar, At, Working, Mirrored
<1>2. /\ own' = own /\ recs' = recs /\ ses' = ses /\ phase' = "running" /\ seen' = seen
      /\ \/ /\ pc["server"] = "draft" /\ GoTo("server", "sidecar")
            /\ dir' = [dir EXCEPT !.draft = TextOf(ses.draft)]
         \/ /\ pc["server"] = "sidecar" /\ GoTo("server", "open")
            /\ dir' = [dir EXCEPT !.side = Now]
  BY <1>1 DEF WriteDraft, WriteSidecar, At, Running, Now
<1>3. Other("server") = "stopper" /\ Threads = {"server", "stopper"}
  BY DEF Other, Threads
<1>4. /\ pc'["server"] = IF pc["server"] = "draft" THEN "sidecar" ELSE "open"
      /\ pc'["stopper"] = pc["stopper"]
  BY <1>2, <1>3 DEF GoTo, IInv, TypeOK
<1>5. own["server"].then = "registry"
  BY <1>1, ServerThen DEF Working, Handling
<1>6. Turn("server")'
  BY <1>1, <1>2, <1>3, <1>4, <1>5 DEF Working, Turn, Leaving
<1>7. Mirrored("server")'
  <2>1. Now' = Now
    BY <1>2 DEF Now
  <2>2. dir \in [draft : Texts, side : Sides] /\ dir' # NoDir
    <3>1. dir \in [draft : Texts, side : Sides]
      BY <1>1 DEF IInv, TypeOK
    <3>2. Now \in Sides /\ TextOf(ses.draft) \in Texts
      BY TextsAreTexts DEF IInv, TypeOK, Sessions, Now, Sides
    <3>3. dir' \in [draft : Texts, side : Sides]
      BY <1>2, <3>1, <3>2
    <3> QED BY <3>1, <3>3, EditorAssumption
  <2>3. CASE pc["server"] = "draft"
    BY <1>2, <1>4, <2>1, <2>2, <2>3 DEF Working, Mirrored
  <2>4. CASE pc["server"] = "sidecar"
    BY <1>2, <1>4, <2>1, <2>2, <2>4 DEF Working, Mirrored
  <2> QED BY <1>1, <2>3, <2>4
<1>8. Kept' /\ Described'
  BY <1>2 DEF Working, Kept, Described
<1>9. Copied("server")' /\ Complete("server")'
  BY <1>2, <1>4, <1>5 DEF Copied, Copying, Complete, Whole, Leaving
<1> QED BY <1>2, <1>3, <1>6, <1>7, <1>8, <1>9, StillWorking DEF Working

(* The saved file is read again: the draft is clean, its recovery useless. *)
LEMMA RefreshBaseCalm ==
  ASSUME IInv, Working("server"), Described, RefreshBase
  PROVE  Undisturbed'
<1> DEFINE d == Target.says
           side == [sha |-> TextOf(d), count |-> 0]
<1>1. pc["server"] = "refresh" /\ dir # NoDir
  BY DEF RefreshBase, At, Working, Mirrored
<1>2. Other("server") = "stopper" /\ Threads = {"server", "stopper"}
  BY DEF Other, Threads
<1>3. own["server"].then = "registry"
  BY <1>1, ServerThen DEF Working, Handling
<1>4. CASE Fail("server") /\ dir' = dir /\ ses' = ses
  <2>1. pc'["server"] = "idle" /\ pc'["stopper"] = pc["stopper"]
    BY <1>2, <1>3, <1>4 DEF Fail, GoTo, IInv, TypeOK
  <2>2. seen' = seen /\ own' = own /\ recs' = recs /\ phase' = "running"
    BY <1>4 DEF RefreshBase, At, Running
  <2> QED BY <1>1, <1>3, <1>4, <2>1, <2>2, ServerMoves DEF Resting
<1>5. CASE ~(Fail("server") /\ dir' = dir /\ ses' = ses)
  <2>1. /\ GoTo("server", "discard") /\ dir' = [dir EXCEPT !.side = side]
        /\ ses' = [ses EXCEPT !.base = TextOf(d), !.draft = d, !.dirty = FALSE,
                              !.count = 0, !.reviewed = -1]
        /\ seen' = IF ses' = ses THEN seen ELSE [seen EXCEPT !.drafts = @ \cup {side}]
        /\ own' = own /\ recs' = recs /\ phase' = "running" /\ Target # NoText
    BY <1>1, <1>5 DEF RefreshBase, At, Running
  <2>2. pc'["server"] = "discard" /\ pc'["stopper"] = pc["stopper"]
    BY <1>2, <2>1 DEF GoTo, IInv, TypeOK
  <2>3. /\ ses'.draft = d /\ ses'.dirty = FALSE /\ ses'.count = 0
        /\ ses'.rid = ses.rid /\ ses'.down = ses.down
    BY <2>1 DEF IInv, TypeOK, Sessions
  <2>4. d \in Docs /\ side \in Sides /\ TextOf(d).says = Read[d]
    BY <2>1, TargetType, TextsAreTexts DEF IInv, Texts, Sides, TextOf
  <2>5. Now' = side
    BY <2>3 DEF Now
  <2> HIDE DEF d
  <2>6. TextOf(side.sha.says) = side.sha
    BY <2>4, EditorAssumption DEF TextOf
  <2> HIDE DEF side
  <2>7. dir' # NoDir /\ dir'.side = side
    <3>1. dir \in [draft : Texts, side : Sides]
      BY <1>1 DEF IInv, TypeOK
    <3> QED BY <2>1, <2>4, <3>1, EditorAssumption
  <2>8. Turn("server")'
    BY <1>1, <1>2, <1>3, <2>1, <2>2, <2>3 DEF Working, Turn, Leaving, Handling
  <2>9. Mirrored("server")'
    BY <2>2, <2>3, <2>5, <2>7 DEF Mirrored
  <2>10. Kept'
    BY <2>1, <2>3 DEF Working, Kept
  <2>11. Copied("server")' /\ Complete("server")'
    BY <1>3, <2>1, <2>2, <2>3 DEF Copied, Copying, Complete, Whole, Leaving
  <2>12. Described'
    <3>1. seen.drafts \subseteq seen'.drafts /\ seen'.drafts \subseteq seen.drafts \cup {side}
      BY <2>1 DEF IInv, TypeOK, Histories
    <3> QED BY <2>1, <2>6, <3>1 DEF Described
  <2> QED BY <1>2, <2>1, <2>8, <2>9, <2>10, <2>11, <2>12, StillWorking DEF Working
<1> QED BY <1>4, <1>5

-----------------------------------------------------------------------------
(* The recovery is written, by either thread.                              *)
LEMMA ThreadMoves ==
  ASSUME IInv, NEW t \in Threads, Turn(t), pc[t] # "idle", NEW label \in Labels, GoTo(t, label),
         \A u \in Threads : own'[u].then = own[u].then, ses'.down = ses.down,
         label \notin {"ended", "failed"} \cup Handling \cup Leaving \cup {"idle"}
           \/ label = own[t].then \/ (label = "leave" /\ own[t].then = "clean")
  PROVE  Turn(t)' /\ pc'[t] = label /\ pc'[Other(t)] = "idle"
<1>1. pc'[t] = label /\ pc'[Other(t)] = "idle"
  BY Others DEF GoTo, IInv, TypeOK, Turn
<1>2. own[t].then \in {"registry", "clean"} /\ own'[t].then = own[t].then
      /\ own'[Other(t)].then = "registry"
  BY Onward, Others DEF IInv, Turn
<1> QED BY <1>1, <1>2 DEF Turn, Handling, Leaving

LEMMA OpenRecoveryCalm ==
  ASSUME IInv, NEW t \in Threads, Working(t), Described, OpenRecovery(t)
  PROVE  Undisturbed'
<1> DEFINE r == IF ses.rid = NoRec THEN CHOOSE x \in FreshRecs : TRUE ELSE ses.rid
           blank == [draft |-> NoText, side |-> NoText, manifest |-> NoText]
<1>1. /\ dir' = dir /\ listed' = listed /\ phase' = "running" /\ seen' = seen
      /\ pc[t] = "open" /\ (ses.rid = NoRec => FreshRecs # {})
      /\ \/ /\ ses.dirty /\ GoTo(t, "copy_draft")
            /\ ses' = [ses EXCEPT !.rid = r]
            /\ own' = [own EXCEPT ![t].rid = r]
            /\ recs' = [recs EXCEPT ![r] = IF @ = NoDir THEN blank ELSE @]
         \/ ~ses.dirty /\ GoTo(t, own[t].then) /\ recs' = recs /\ ses' = ses /\ own' = own
  BY DEF OpenRecovery, At, Running
<1>2. CASE ~ses.dirty
  <2>1. GoTo(t, own[t].then) /\ recs' = recs /\ ses' = ses /\ own' = own
    BY <1>1, <1>2
  <2>2. own[t].then \in {"registry", "clean"} /\ own[t].then \in Labels
    BY Onward DEF IInv
  <2>3. Turn(t)' /\ pc'[t] = own[t].then
    BY <1>1, <2>1, <2>2, ThreadMoves DEF Working
  <2>4. Mirrored(t)'
    BY <1>1, <1>2, <2>1, <2>2, <2>3 DEF Working, Mirrored, Now
  <2>5. Kept' /\ Described'
    BY <1>1, <2>1 DEF Working, Kept, Described
  <2>6. Copied(t)'
    BY <2>2, <2>3 DEF Copied, Copying
  <2>7. Complete(t)'
    BY <1>1, <1>2, <2>1, <2>2, <2>3 DEF Working, Copied, Complete, Leaving
  <2> QED BY <1>1, <2>3, <2>4, <2>5, <2>6, <2>7, StillWorking DEF Working
<1>3. CASE ses.dirty
  <2>1. /\ GoTo(t, "copy_draft") /\ ses' = [ses EXCEPT !.rid = r]
        /\ own' = [own EXCEPT ![t].rid = r]
        /\ recs' = [recs EXCEPT ![r] = IF @ = NoDir THEN blank ELSE @]
    BY <1>1, <1>3
  <2>2. /\ r \in RecIds /\ r # NoRec
        /\ ses.rid # NoRec => r = ses.rid /\ recs[r] # NoDir
        /\ ses.rid = NoRec => recs[r] = NoDir /\ \A u \in Threads : own[u].rid # r
    <3>1. CASE ses.rid # NoRec
      BY <3>1 DEF IInv, TypeOK, Sessions, Working, Kept
    <3>2. CASE ses.rid = NoRec
      <4>1. r \in FreshRecs
        BY <1>1, <3>2
      <4> QED BY <3>2, <4>1 DEF FreshRecs, RecIds, NoRec
    <3> QED BY <3>1, <3>2
  <2> HIDE DEF r
  <2>3. blank # NoDir /\ blank.manifest = NoText
    <3>1. blank \in Recoveries
      BY DEF Recoveries
    <3> QED BY <3>1, EditorAssumption
  <2> HIDE DEF blank
  <2>4. /\ ses'.target = ses.target /\ ses'.base = ses.base /\ ses'.draft = ses.draft
        /\ ses'.dirty = ses.dirty /\ ses'.count = ses.count /\ ses'.down = ses.down
        /\ ses'.rid = r
    BY <2>1 DEF IInv, TypeOK, Sessions
  <2>5. /\ \A u \in Threads : own'[u].then = own[u].then
        /\ own'[t].rid = r /\ \A u \in Threads : u # t => own'[u].rid = own[u].rid
    BY <2>1 DEF IInv, TypeOK, Owned
  <2>6. Turn(t)' /\ pc'[t] = "copy_draft"
    <3>1. "copy_draft" \in Labels
      BY DEF Labels
    <3> QED BY <1>1, <2>1, <2>4, <2>5, <3>1, ThreadMoves DEF Working, Handling, Leaving
  <2>7. Mirrored(t)'
    BY <1>1, <2>4, <2>6 DEF Working, Mirrored, Now
  <2>8. /\ recs'[r] = IF recs[r] = NoDir THEN blank ELSE recs[r]
        /\ \A x \in RecIds : x # r => recs'[x] = recs[x]
    BY <2>1, <2>2 DEF IInv, TypeOK
  <2>9. Kept'
    <3>1. recs'[r] # NoDir
      BY <2>3, <2>8
    <3>2. ASSUME NEW u \in Threads, u # t PROVE own[u].rid \in {NoRec, r} \/ recs'[own[u].rid] = NoDir
      <4>1. own[u].rid \in {NoRec, ses.rid} \/ recs[own[u].rid] = NoDir
        BY DEF Working, Kept
      <4>2. own[u].rid \in RecIds \cup {NoRec}
        BY DEF IInv, TypeOK, Owned
      <4> QED BY <2>2, <2>8, <4>1, <4>2
    <3> QED BY <2>4, <2>5, <3>1, <3>2 DEF Kept
  <2>10. Copied(t)'
    <3>1. own[t].then = "clean" => seen.asked # "discard"
      BY <1>1 DEF Working, Copied
    <3> QED BY <1>1, <1>3, <2>2, <2>4, <2>5, <2>6, <3>1 DEF Copied, Copying
  <2>11. Complete(t)'
    BY <2>6 DEF Complete, Whole, Leaving
  <2>12. Described'
    BY <1>1, <2>3, <2>8 DEF Described
  <2> QED BY <1>1, <2>6, <2>7, <2>9, <2>10, <2>11, <2>12, StillWorking DEF Working
<1> QED BY <1>2, <1>3

(* One file of the recovery r is written; what its manifest says may have  *)
(* changed only to a draft that the editor had.                            *)
LEMMA OneRecovery ==
  ASSUME IInv, Kept, Described, NEW r \in RecIds, recs[r] # NoDir,
         NEW rec \in Recoveries, recs' = [recs EXCEPT ![r] = rec],
         \A u \in Threads : own'[u].rid = own[u].rid, ses'.rid = ses.rid,
         seen'.drafts = seen.drafts,
         \/ rec.manifest = recs[r].manifest
         \/ /\ rec.manifest.sha = rec.manifest.side.sha
            /\ rec.manifest.count = rec.manifest.side.count
            /\ rec.manifest.side \in seen.drafts
  PROVE  Kept' /\ Described'
<1>1. /\ recs'[r] = rec /\ rec # NoDir
      /\ \A x \in RecIds : x # r => recs'[x] = recs[x]
  BY EditorAssumption DEF IInv, TypeOK
<1>2. ses.rid \in RecIds \cup {NoRec} /\ \A u \in Threads : own[u].rid \in RecIds \cup {NoRec}
  BY DEF IInv, TypeOK, Sessions, Owned
<1>3. Kept'
  BY <1>1, <1>2 DEF Kept
<1>4. Described'
  BY <1>1 DEF Described
<1> QED BY <1>3, <1>4

LEMMA CopyDraftCalm ==
  ASSUME IInv, NEW t \in Threads, Working(t), Described, CopyDraft(t)
  PROVE  Undisturbed'
<1> DEFINE r == own[t].rid
           rec == [recs[r] EXCEPT !.draft = dir.draft]
<1>1. pc[t] = "copy_draft" /\ r = ses.rid /\ r # NoRec /\ r \in RecIds /\ ses.dirty
  BY DEF CopyDraft, At, Working, Copied, Copying, IInv, Carried
<1>2. dir # NoDir /\ recs[r] # NoDir /\ dir.draft = TextOf(ses.draft) /\ dir.side = Now
  BY <1>1 DEF Working, Mirrored, Kept
<1>3. /\ dir' = dir /\ listed' = listed /\ phase' = "running" /\ seen' = seen
      /\ ses' = ses /\ own' = own /\ GoTo(t, "copy_side")
      /\ recs' = [recs EXCEPT ![r] = rec]
  BY <1>1, <1>2 DEF CopyDraft, At, Running
<1>4. rec \in Recoveries /\ rec.draft = TextOf(ses.draft) /\ rec.manifest = recs[r].manifest
  BY <1>1, <1>2 DEF IInv, TypeOK, Recoveries
<1> HIDE DEF rec, r
<1>5. Turn(t)' /\ pc'[t] = "copy_side"
  <2>1. "copy_side" \in Labels
    BY DEF Labels
  <2> QED BY <1>1, <1>3, <2>1, ThreadMoves DEF Working, Handling, Leaving
<1>6. Mirrored(t)'
  BY <1>2, <1>3, <1>5 DEF Working, Mirrored, Now
<1>7. Kept' /\ Described'
  BY <1>1, <1>2, <1>3, <1>4, OneRecovery DEF Working
<1>8. recs'[r] = rec
  BY <1>1, <1>3 DEF IInv, TypeOK
<1>9. Copied(t)'
  BY <1>1, <1>3, <1>4, <1>5, <1>8 DEF Working, Copied, Copying
<1>10. Complete(t)'
  BY <1>5 DEF Complete, Whole, Leaving
<1> QED BY <1>3, <1>5, <1>6, <1>7, <1>9, <1>10, StillWorking DEF Working

LEMMA CopySideCalm ==
  ASSUME IInv, NEW t \in Threads, Working(t), Described, CopySide(t)
  PROVE  Undisturbed'
<1> DEFINE r == own[t].rid
           rec == [recs[r] EXCEPT !.side = Now]
<1>1. pc[t] = "copy_side" /\ r = ses.rid /\ r # NoRec /\ r \in RecIds /\ ses.dirty
  BY DEF CopySide, At, Working, Copied, Copying, IInv, Carried
<1>2. dir # NoDir /\ recs[r] # NoDir /\ dir.side = Now /\ recs[r].draft = TextOf(ses.draft)
  BY <1>1 DEF Working, Mirrored, Kept, Copied
<1>3. recs[r].draft # NoText /\ Now # NoText /\ Now \in Sides
  <2>1. TextOf(ses.draft) \in Texts /\ Now \in Sides
    BY TextsAreTexts DEF IInv, TypeOK, Sessions, Now, Sides
  <2> QED BY <1>2, <2>1, EditorAssumption
<1>4. /\ dir' = dir /\ listed' = listed /\ phase' = "running" /\ seen' = seen
      /\ ses' = ses /\ own' = [own EXCEPT ![t].side = Now] /\ GoTo(t, "manifest")
      /\ recs' = [recs EXCEPT ![r] = rec]
  BY <1>1, <1>2, <1>3 DEF CopySide, At, Running
<1>5. /\ rec \in Recoveries /\ rec.draft = TextOf(ses.draft) /\ rec.side = Now
      /\ rec.manifest = recs[r].manifest
  BY <1>1, <1>2, <1>3 DEF IInv, TypeOK, Recoveries
<1> HIDE DEF rec
<1>6. /\ own'[t].side = Now
      /\ \A u \in Threads : own'[u].then = own[u].then /\ own'[u].rid = own[u].rid
  BY <1>4 DEF IInv, TypeOK, Owned
<1> HIDE DEF r
<1>7. Turn(t)' /\ pc'[t] = "manifest"
  <2>1. "manifest" \in Labels
    BY DEF Labels
  <2> QED BY <1>1, <1>4, <1>6, <2>1, ThreadMoves DEF Working, Handling, Leaving
<1>8. Mirrored(t)'
  BY <1>1, <1>2, <1>4, <1>7 DEF Working, Mirrored, Now
<1>9. Kept' /\ Described'
  BY <1>1, <1>2, <1>4, <1>5, <1>6, OneRecovery DEF Working
<1>10. recs'[r] = rec /\ Now' = Now
  BY <1>1, <1>4 DEF IInv, TypeOK, Now
<1>11. Copied(t)'
  BY <1>1, <1>4, <1>5, <1>6, <1>7, <1>10 DEF Working, Copied, Copying
<1>12. Complete(t)'
  BY <1>7 DEF Complete, Whole, Leaving
<1> QED BY <1>4, <1>7, <1>8, <1>9, <1>11, <1>12, StillWorking DEF Working

LEMMA WriteManifestCalm ==
  ASSUME IInv, NEW t \in Threads, Working(t), Described, WriteManifest(t)
  PROVE  Undisturbed'
<1> DEFINE r == own[t].rid
           manifest == [target |-> ses.target, base |-> ses.base, sha |-> TextOf(ses.draft),
                        side |-> Now, count |-> ses.count]
           rec == [recs[r] EXCEPT !.manifest = manifest]
<1>1. pc[t] = "manifest" /\ r = ses.rid /\ r # NoRec /\ r \in RecIds /\ ses.dirty
  BY DEF WriteManifest, At, Working, Copied, Copying, IInv, Carried
<1>2. /\ dir # NoDir /\ recs[r] # NoDir /\ dir.side = Now /\ own[t].side = Now
      /\ recs[r].draft = TextOf(ses.draft) /\ recs[r].side = Now
      /\ Now \in seen.drafts
  BY <1>1 DEF Working, Mirrored, Kept, Copied
<1>3. Now \in Sides /\ Now.sha = TextOf(ses.draft) /\ Now.count = ses.count
      /\ Now.sha \in Texts
  BY TextsAreTexts DEF IInv, TypeOK, Sessions, Now, Sides
<1>4. /\ dir' = dir /\ listed' = listed /\ phase' = "running" /\ seen' = seen
      /\ ses' = ses /\ own' = [own EXCEPT ![t].side = NoText] /\ GoTo(t, own[t].then)
      /\ recs' = [recs EXCEPT ![r] = rec]
  BY <1>1, <1>2, <1>3 DEF WriteManifest, Rewritten, At, Running
<1>5. manifest \in Manifests
  BY <1>3 DEF IInv, TypeOK, Sessions, Manifests
<1>6. /\ manifest.sha = manifest.side.sha /\ manifest.count = manifest.side.count
      /\ manifest.side = Now
  BY <1>3
<1> HIDE DEF manifest
<1>7. /\ rec \in Recoveries /\ rec.draft = TextOf(ses.draft) /\ rec.side = Now
      /\ rec.manifest = manifest
  BY <1>1, <1>2, <1>5 DEF IInv, TypeOK, Recoveries
<1> HIDE DEF rec
<1>8. \A u \in Threads : own'[u].then = own[u].then /\ own'[u].rid = own[u].rid
  BY <1>4 DEF IInv, TypeOK, Owned
<1> HIDE DEF r
<1>9. own[t].then \in {"registry", "clean"} /\ own[t].then \in Labels
  BY Onward DEF IInv
<1>10. Turn(t)' /\ pc'[t] = own[t].then
  BY <1>1, <1>4, <1>8, <1>9, ThreadMoves DEF Working
<1>11. Mirrored(t)'
  BY <1>1, <1>2, <1>4, <1>9, <1>10 DEF Working, Mirrored, Now
<1>12. Kept' /\ Described'
  BY <1>1, <1>2, <1>4, <1>6, <1>7, <1>8, OneRecovery DEF Working
<1>13. recs'[r] = rec /\ Now' = Now
  BY <1>1, <1>4 DEF IInv, TypeOK, Now
<1>14. Current(ses.rid)'
  <2>1. ses'.rid = r /\ ses' = ses
    BY <1>1, <1>4
  <2> QED BY <1>7, <1>13, <2>1 DEF Current, manifest, Now
<1>15. Copied(t)'
  BY <1>9, <1>10 DEF Copied, Copying
<1>16. Complete(t)'
  <2>1. own[t].then = "clean" => seen.asked # "discard"
    BY <1>1 DEF Working, Copied, Copying
  <2> QED BY <1>1, <1>4, <1>9, <1>10, <1>14, <2>1 DEF Complete, Leaving
<1> QED BY <1>4, <1>10, <1>11, <1>12, <1>15, <1>16, StillWorking DEF Working

LEMMA DiscardCalm ==
  ASSUME IInv, NEW t \in Threads, Working(t), Described, Discard(t)
  PROVE  Undisturbed'
<1>1. /\ dir' = dir /\ phase' = "running" /\ seen' = seen /\ own' = own
      /\ pc[t] = "discard" /\ GoTo(t, own[t].then)
      /\ \/ ses.rid = NoRec /\ recs' = recs /\ ses' = ses
         \/ /\ ses.rid # NoRec /\ recs' = [recs EXCEPT ![ses.rid] = NoDir]
            /\ ses' = [ses EXCEPT !.rid = NoRec]
  BY DEF Discard, Removed, At, Running
<1>2. own[t].then \in {"registry", "clean"} /\ own[t].then \in Labels
  BY Onward DEF IInv
<1>3. /\ ses'.target = ses.target /\ ses'.base = ses.base /\ ses'.draft = ses.draft
      /\ ses'.dirty = ses.dirty /\ ses'.count = ses.count /\ ses'.down = ses.down
      /\ ses'.rid = NoRec
  BY <1>1 DEF IInv, TypeOK, Sessions
<1>4. Turn(t)' /\ pc'[t] = own[t].then
  BY <1>1, <1>2, <1>3, ThreadMoves DEF Working
<1>5. Mirrored(t)'
  BY <1>1, <1>2, <1>3, <1>4 DEF Working, Mirrored, Now
<1>6. /\ \A r \in RecIds : recs'[r] \in {recs[r], NoDir}
      /\ ses.rid # NoRec => recs'[ses.rid] = NoDir
  BY <1>1 DEF IInv, TypeOK, Sessions
<1>7. Kept'
  <2>1. \A u \in Threads : own[u].rid \in RecIds \cup {NoRec}
    BY DEF IInv, TypeOK, Owned
  <2> QED BY <1>1, <1>3, <1>6, <2>1 DEF Working, Kept
<1>8. Described'
  BY <1>1, <1>6 DEF Described
<1>9. Copied(t)'
  BY <1>2, <1>4 DEF Copied, Copying
<1>10. Complete(t)'
  <2>1. IF own[t].then = "clean" THEN seen.asked = "discard" ELSE ~ses.dirty
    BY <1>1 DEF Working, Copied
  <2> QED BY <1>1, <1>2, <1>3, <1>4, <2>1 DEF Complete, Whole, Leaving
<1> QED BY <1>1, <1>4, <1>5, <1>7, <1>8, <1>9, <1>10, StillWorking DEF Working

-----------------------------------------------------------------------------
(* The end of a session, and the beginning of the next.                    *)
LEMMA CleanCalm ==
  ASSUME IInv, NEW t \in Threads, Working(t), Described, Clean(t)
  PROVE  Undisturbed'
<1>1. /\ dir' = NoDir /\ listed' = FALSE /\ phase' = "running" /\ seen' = seen /\ own' = own
      /\ recs' = recs /\ ses' = ses /\ pc[t] = "clean" /\ GoTo(t, "leave")
  BY DEF Clean, At, Running
<1>2. Turn(t)' /\ pc'[t] = "leave"
  <2>1. "leave" \in Labels /\ own[t].then = "clean"
    BY <1>1 DEF Labels, Working, Turn, Leaving
  <2> QED BY <1>1, <2>1, ThreadMoves DEF Working
<1>3. Mirrored(t)'
  BY <1>1, <1>2 DEF Working, Mirrored, Now
<1>4. Kept' /\ Described'
  BY <1>1 DEF Working, Kept, Described
<1>5. Copied(t)'
  BY <1>2 DEF Copied, Copying
<1>6. Complete(t)'
  BY <1>1, <1>2 DEF Working, Complete, Whole, Leaving, Current
<1> QED BY <1>1, <1>2, <1>3, <1>4, <1>5, <1>6, StillWorking DEF Working

LEMMA LeaveCalm ==
  ASSUME IInv, NEW t \in Threads, Working(t), Described, Leave(t)
  PROVE  Undisturbed'
<1>1. /\ dir' = dir /\ listed' = listed /\ seen' = seen /\ own' = own
      /\ recs' = recs /\ ses' = ses /\ pc[t] = "leave"
  BY DEF Leave, At, home
<1>2. phase' \in {"closed", "exited"}
  <2>1. t = "server" => ~Busy("stopper")
    BY DEF Working, Turn, Other, Busy
  <2> QED BY <2>1 DEF Leave, Threads
<1>3. dir = NoDir /\ ~listed
  BY <1>1 DEF Working, Mirrored
<1>4. seen.asked = "discard" => \A u \in Threads : own[u].rid = NoRec \/ recs[own[u].rid] = NoDir
  BY <1>1 DEF Working, Complete, Kept, Leaving
<1>5. seen.asked # "discard" /\ ses.dirty =>
        ses.rid # NoRec /\ recs[ses.rid] # NoDir /\ Current(ses.rid)
  BY <1>1 DEF Working, Complete, Kept, Whole, Leaving
<1>6. Ended'
  BY <1>1, <1>3, <1>4, <1>5 DEF Ended, Current
<1>7. Described'
  BY <1>1 DEF Described
<1> QED BY <1>2, <1>6, <1>7 DEF Undisturbed, Running

LEMMA ShutdownCalm ==
  ASSUME IInv, NEW t \in Threads, NEW q \in Policies, Working(t), Described,
         Idle(Other(t)), Shutdown(t, q)
  PROVE  Undisturbed'
<1>1. pc[t] = "idle" /\ ~ses.down
  BY DEF Shutdown, Idle, Working, Turn
<1>2. /\ dir' = dir /\ listed' = listed /\ recs' = recs /\ phase' = "running"
      /\ ses' = [ses EXCEPT !.down = TRUE] /\ own' = [own EXCEPT ![t].then = "clean"]
      /\ GoTo(t, FirstOfShutdown(q))
  BY <1>1 DEF Shutdown, Running, home
<1>3. seen'.asked = q /\ seen'.drafts = seen.drafts
  BY <1>1 DEF Shutdown, IInv, TypeOK, Histories
<1>4. /\ FirstOfShutdown(q) \in {"open", "discard", "clean"}
      /\ q = "discard" <=> FirstOfShutdown(q) = "discard"
  BY DEF FirstOfShutdown, Policies
<1>5. pc'[t] = FirstOfShutdown(q) /\ pc'[Other(t)] = "idle"
  BY <1>2, Others DEF GoTo, IInv, TypeOK, Idle
<1>6. /\ ses'.target = ses.target /\ ses'.base = ses.base /\ ses'.draft = ses.draft
      /\ ses'.dirty = ses.dirty /\ ses'.count = ses.count /\ ses'.rid = ses.rid
      /\ ses'.down = TRUE
  BY <1>2 DEF IInv, TypeOK, Sessions
<1>7. /\ own'[t].then = "clean" /\ own'[Other(t)].then = own[Other(t)].then
      /\ \A u \in Threads : own'[u].rid = own[u].rid
  BY <1>2, Others DEF IInv, TypeOK, Owned
<1>8. Turn(t)'
  BY <1>4, <1>5, <1>6, <1>7 DEF Working, Turn, Handling, Leaving
<1>9. Mirrored(t)'
  BY <1>1, <1>2, <1>3, <1>4, <1>5, <1>6 DEF Working, Mirrored, Now
<1>10. Kept' /\ Described'
  BY <1>2, <1>3, <1>6, <1>7 DEF Working, Kept, Described
<1>11. Copied(t)'
  BY <1>3, <1>4, <1>5, <1>7 DEF Copied, Copying
<1>12. Complete(t)'
  <2>1. ses.dirty => ses.rid # NoRec /\ Current(ses.rid)
    BY <1>1 DEF Working, Complete, Whole
  <2> QED BY <1>2, <1>3, <1>4, <1>5, <1>6, <2>1 DEF Complete, Whole, Leaving, Current
<1> QED BY <1>2, <1>8, <1>9, <1>10, <1>11, <1>12, StillWorking DEF Working

LEMMA BeginCalm ==
  ASSUME IInv, Described, NEW s \in Sessions, NEW d \in Docs, NEW side \in Sides, Begin(s, d, side),
         s.draft = d, side = [sha |-> TextOf(d), count |-> s.count], ~s.down,
         s.rid # NoRec => recs[s.rid] # NoDir,
         s.dirty => /\ side \in seen.drafts /\ s.rid # NoRec
                    /\ recs[s.rid].draft = TextOf(d) /\ recs[s.rid].side = side
                    /\ recs[s.rid].manifest = [target |-> s.target, base |-> s.base,
                         sha |-> TextOf(d), side |-> side, count |-> s.count]
  PROVE  Undisturbed'
<1>1. /\ ses' = s /\ dir' = [draft |-> TextOf(d), side |-> side] /\ recs' = recs
      /\ pc' = [t \in Threads |-> "idle"] /\ own' = [AtRest EXCEPT !["server"].rid = s.rid]
      /\ phase' = "running"
      /\ seen' = [seen EXCEPT !.reviewed = NoText, !.asked = "cancel"]
  BY DEF Begin
<1>2. seen'.drafts = seen.drafts
  BY <1>1 DEF IInv, TypeOK, Histories
<1>3. Other("server") = "stopper" /\ Threads = {"server", "stopper"}
  BY DEF Other, Threads
<1>4. /\ own'["server"].then = "registry" /\ own'["stopper"].then = "registry"
      /\ own'["server"].rid = s.rid /\ own'["stopper"].rid = NoRec
  BY <1>1, <1>3 DEF AtRest
<1>5. pc'["server"] = "idle" /\ pc'["stopper"] = "idle"
  BY <1>1, <1>3
<1>6. dir' # NoDir /\ dir'.side = side /\ dir'.draft = TextOf(d) /\ Now' = side
  <2>1. dir' \in [draft : Texts, side : Sides]
    BY <1>1, TextsAreTexts
  <2> QED BY <1>1, <2>1, EditorAssumption DEF Now
<1>7. Turn("server")'
  BY <1>1, <1>3, <1>4, <1>5 DEF Turn, Leaving
<1>8. Mirrored("server")'
  BY <1>1, <1>2, <1>5, <1>6 DEF Mirrored
<1>9. Kept' /\ Described'
  BY <1>1, <1>2, <1>3, <1>4 DEF Kept, Described
<1>10. Copied("server")' /\ Complete("server")'
  BY <1>1, <1>5 DEF Copied, Copying, Complete, Leaving, Current
<1> QED BY <1>1, <1>3, <1>7, <1>8, <1>9, <1>10, StillWorking DEF Working

LEMMA StartCalm ==
  ASSUME IInv, Described, NEW p \in Paths, NEW k \in BOOLEAN, Start(p, k)
  PROVE  Undisturbed'
<1> DEFINE d == files[Source].says
           s == [NoMemory EXCEPT !.target = p, !.keeps = k, !.base = TextOf(d), !.draft = d]
           side == [sha |-> TextOf(d), count |-> 0]
<1>1. Begin(s, d, side)
  BY DEF Start
<1>2. d \in Docs
  BY <1>1 DEF Begin, IInv, TypeOK, Texts, Paths, Source
<1>3. TextOf(d) \in Texts /\ side \in Sides
  BY <1>2, TextsAreTexts DEF Sides
<1>4. NoMemory \in Sessions /\ NoMemory.count = 0 /\ NoMemory.rid = NoRec
      /\ ~NoMemory.dirty /\ ~NoMemory.down
  BY <1>3, NoMemoryType DEF NoMemory
<1> HIDE DEF d
<1>5. s \in Sessions
  BY <1>2, <1>3, <1>4 DEF Sessions
<1>6. s.draft = d /\ s.count = 0 /\ s.rid = NoRec /\ ~s.dirty /\ ~s.down
  BY <1>4 DEF Sessions
<1> HIDE DEF s
<1> QED BY <1>1, <1>2, <1>3, <1>5, <1>6, BeginCalm

(* A recovery that is accepted is resumed as what its manifest describes.  *)
LEMMA ResumeCalm ==
  ASSUME IInv, Described, NEW r \in RecIds, Resume(r)
  PROVE  Undisturbed'
<1> DEFINE d == recs[r].draft.says
           n == recs[r].side.count
           base == TextOf(files[Source].says)
           s == [NoMemory EXCEPT !.target = recs[r].manifest.target, !.base = base, !.draft = d,
                   !.dirty = TRUE, !.count = n, !.reviewed = RestoredReview(n), !.rid = r]
<1>1. Begin(s, d, recs[r].side) /\ Resumable(r)
  BY DEF Resume
<1>2. recs[r] \in Recoveries /\ recs[r].manifest \in Manifests /\ recs[r] # NoDir
  BY <1>1 DEF Resumable, IInv, TypeOK, Recoveries
<1>3. /\ recs[r].draft = recs[r].manifest.sha /\ recs[r].side = recs[r].manifest.side
      /\ recs[r].draft \in Texts /\ recs[r].side \in Sides
      /\ recs[r].manifest.base = base /\ recs[r].manifest.target \in Paths
  BY <1>1, <1>2 DEF Resumable, Manifests
<1>4. /\ recs[r].draft = recs[r].side.sha /\ recs[r].side \in seen.drafts
      /\ recs[r].manifest.count = n /\ TextOf(d) = recs[r].draft
  BY <1>1, <1>2, <1>3 DEF Described, Resumable, Manifests
<1>5. d \in Docs /\ n \in Nat
  BY <1>3 DEF Texts, Sides
<1>6. recs[r].side = [sha |-> TextOf(d), count |-> n]
  BY <1>3, <1>4 DEF Sides
<1>7. recs[r].manifest = [target |-> recs[r].manifest.target, base |-> base,
                          sha |-> TextOf(d), side |-> recs[r].side, count |-> n]
  BY <1>2, <1>3, <1>4 DEF Manifests
<1>8. base \in Texts /\ n - 1 \in Int
  BY <1>1, <1>5, TextsAreTexts DEF Begin, IInv, TypeOK, Texts, Paths, Source
<1>9. NoMemory \in Sessions /\ ~NoMemory.down
  BY <1>8, NoMemoryType DEF NoMemory
<1> HIDE DEF d, n, base
<1>10. s \in Sessions
  BY <1>3, <1>5, <1>8, <1>9 DEF Sessions, RestoredReview
<1>11. /\ s.draft = d /\ s.count = n /\ s.rid = r /\ s.dirty /\ ~s.down /\ s.base = base
       /\ s.target = recs[r].manifest.target
  BY <1>9 DEF Sessions
<1>12. r # NoRec
  BY DEF RecIds, NoRec
<1> HIDE DEF s
<1> QED BY <1>1, <1>2, <1>3, <1>4, <1>5, <1>6, <1>7, <1>10, <1>11, <1>12, BeginCalm

LEMMA CrashCalm == Undisturbed /\ ~seen.raced /\ IInv /\ Crash => Undisturbed'
<1> SUFFICES ASSUME Undisturbed, ~seen.raced, IInv, Crash PROVE Undisturbed'
  OBVIOUS
<1>1. recs' = recs /\ seen'.drafts = seen.drafts /\ phase' = "killed"
  BY DEF Crash, IInv, TypeOK, Histories
<1>2. Described'
  BY <1>1 DEF Undisturbed, Described
<1> QED BY <1>1, <1>2 DEF Undisturbed, Ended, Running

-----------------------------------------------------------------------------
LEMMA InitCalm == Init => Undisturbed
BY DEF Init, Undisturbed, Described, Ended, Running, NoHistory

(* A thread that is not busy is idle; and history is not forgotten.        *)
LEMMA Rests ==
  ASSUME IInv, Undisturbed, Running, ~seen.raced, NEW t \in Threads, ~Busy(t)
  PROVE  Idle(t)
<1>1. PICK u \in Threads : Working(u)
  BY DEF Undisturbed
<1> QED BY <1>1, Others DEF Working, Turn, Busy, Idle

LEMMA RequestCalm ==
  ASSUME IInv, Undisturbed, ~seen'.raced,
         (\E d \in Docs : Edit(d)) \/ EmptyEdit \/ Save
  PROVE  Undisturbed'
<1>1. Running /\ pc["server"] = "idle" /\ dir' = dir /\ recs' = recs /\ phase' = "running"
  BY DEF Edit, EmptyEdit, Save, Request, Idle, Running, home
<1>2. ~seen.raced /\ ~Busy("stopper")
  BY DEF Edit, EmptyEdit, Save, Racing, IInv, TypeOK, Histories
<1>3. Other("server") = "stopper" /\ Threads = {"server", "stopper"}
  BY DEF Other, Threads
<1>4. Working("server") /\ Described /\ Idle("stopper")
  BY <1>1, <1>2, <1>3, Rests, Worker
<1>5. CASE \E d \in Docs : Edit(d)
  BY <1>4, <1>5, EditCalm
<1>6. CASE EmptyEdit \/ Save
  <2>1. ses' = ses /\ seen'.drafts = seen.drafts /\ seen'.asked = seen.asked
    BY <1>6 DEF EmptyEdit, Save, Racing, IInv, TypeOK, Histories
  <2>2. \E label \in {"draft", "open", "backup", "recheck"} : GoTo("server", label)
    BY <1>6 DEF EmptyEdit, Save, Request
  <2>3. pc'["server"] \in {"draft", "open", "backup", "recheck"} /\ pc'["stopper"] = pc["stopper"]
    BY <1>3, <2>2 DEF GoTo, IInv, TypeOK
  <2>4. own["server"].then = "registry"
    BY <1>1, <1>4, ServerThen DEF Working
  <2>5. /\ own'["stopper"] = own["stopper"]
        /\ own'["server"].then = "registry" /\ own'["server"].rid = own["server"].rid
    <3>1. own \in [Threads -> Owned] /\ own["server"] \in Owned /\ own["stopper"] \in Owned
      BY <1>3 DEF IInv, TypeOK
    <3>2. CASE EmptyEdit
      BY <1>3, <2>4, <3>1, <3>2 DEF EmptyEdit, Owned
    <3>3. CASE Save
      <4> DEFINE o == [own["server"] EXCEPT !.expected = Target, !.then = "registry", !.round = 2]
      <4>1. own' = [own EXCEPT !["server"] = o]
        BY <3>3 DEF Save
      <4>2. o.then = "registry" /\ o.rid = own["server"].rid
        BY <3>1 DEF Owned
      <4> HIDE DEF o
      <4> QED BY <1>3, <3>1, <4>1, <4>2
    <3> QED BY <1>6, <3>2, <3>3
  <2> QED BY <1>1, <1>4, <2>1, <2>3, <2>5, ServerMoves DEF Resting
<1> QED BY <1>5, <1>6

LEMMA RequestStepCalm ==
  ASSUME IInv, Undisturbed, ~seen'.raced, RequestStep
  PROVE  Undisturbed'
<1>1. Running /\ ~Idle("server")
  BY DEF RequestStep, WriteDraft, WriteSidecar, WriteRegistry, Backup, Recheck, Replace,
         RefreshBase, At, Idle
<1>2. ~seen.raced
  BY DEF RequestStep, WriteDraft, WriteSidecar, WriteRegistry, Backup, Recheck, Replace,
         RefreshBase, IInv, TypeOK, Histories
<1>3. Other("server") = "stopper" /\ Threads = {"server", "stopper"}
  BY DEF Other, Threads
<1>4. Working("server") /\ Described
  BY <1>1, <1>2, <1>3, Worker
<1>5. CASE WriteDraft \/ WriteSidecar
  BY <1>4, <1>5, WriteDraftCalm
<1>6. CASE RefreshBase
  BY <1>4, <1>6, RefreshBaseCalm
<1>7. CASE WriteRegistry \/ Backup \/ Recheck \/ Replace
  <2>1. /\ pc["server"] \in {"registry", "backup", "recheck", "replace"} /\ phase' = "running"
        /\ dir' = dir /\ recs' = recs /\ ses' = ses /\ seen' = seen
        /\ own' = own \/ own' = [own EXCEPT !["server"].round = 2]
    BY <1>7 DEF WriteRegistry, Backup, Recheck, Replace, At, Running, home
  <2>2. own["server"].then = "registry"
    BY <1>4, <2>1, ServerThen DEF Working, Handling
  <2>3. \E label \in {"open", "idle", "recheck", "replace", "refresh"} : GoTo("server", label)
    BY <1>7, <2>2 DEF WriteRegistry, Backup, Recheck, Replace, Fail
  <2>4. /\ pc'["server"] \in {"open", "idle", "recheck", "replace", "refresh"}
        /\ pc'["stopper"] = pc["stopper"]
    BY <1>3, <2>3 DEF GoTo, IInv, TypeOK
  <2>5. /\ own'["stopper"] = own["stopper"]
        /\ own'["server"].then = "registry" /\ own'["server"].rid = own["server"].rid
    BY <1>3, <2>1, <2>2 DEF IInv, TypeOK, Owned
  <2> QED BY <1>4, <2>1, <2>4, <2>5, ServerMoves DEF Resting
<1> QED BY <1>5, <1>6, <1>7 DEF RequestStep

LEMMA ThreadStepCalm ==
  ASSUME IInv, Undisturbed, ~seen'.raced, NEW t \in Threads, ThreadStep(t)
  PROVE  Undisturbed'
<1>1. Running /\ ~Idle(t) /\ ~seen.raced
  BY DEF ThreadStep, OpenRecovery, CopyDraft, CopySide, WriteManifest, Discard, Clean, Leave,
         At, Idle
<1>2. Working(t) /\ Described
  BY <1>1, Worker
<1> QED BY <1>2, OpenRecoveryCalm, CopyDraftCalm, CopySideCalm, WriteManifestCalm, DiscardCalm,
           CleanCalm, LeaveCalm DEF ThreadStep

LEMMA StopCalm ==
  ASSUME IInv, Undisturbed, ~seen'.raced, NEW t \in Threads, NEW q \in Policies, Shutdown(t, q)
  PROVE  Undisturbed'
<1>1. Running /\ Idle(t) /\ ~seen.raced /\ ~Busy(Other(t))
  BY DEF Shutdown, IInv, TypeOK, Histories
<1>2. Idle(Other(t))
  BY <1>1, Others, Rests
<1>3. Working(t) /\ Described
  BY <1>1, <1>2, Worker
<1> QED BY <1>2, <1>3, ShutdownCalm

LEMMA ElsewhereCalm ==
  ASSUME IInv, Undisturbed, ~seen'.raced,
         \/ Review \/ RestoreReplaces \/ UNCHANGED vars
         \/ \E r \in RecIds : DiscardRecovery(r)
         \/ \E p \in Paths, x \in Foreign \cup {NoText} : WriteFile(p, x)
         \/ \E b \in backups : RestoreBegins(b)
  PROVE  Undisturbed'
<1>1. /\ phase' = phase /\ pc' = pc /\ own' = own /\ dir' = dir /\ listed' = listed
      /\ ses' = ses \/ ses' = [ses EXCEPT !.reviewed = ses.count]
      /\ \/ recs' = recs /\ seen'.raced = seen.raced
         \/ \E r \in RecIds : /\ recs' = [recs EXCEPT ![r] = NoDir]
                             /\ seen'.raced = (seen.raced \/ r = ses.rid)
      /\ seen'.drafts = seen.drafts /\ seen'.asked = seen.asked
  <2>1. seen \in Histories
    BY DEF IInv, TypeOK
  <2>2. CASE Review \/ UNCHANGED vars
    BY <2>1, <2>2 DEF Review, vars, home, Histories
  <2>3. CASE RestoreReplaces \/ \E p \in Paths, x \in Foreign \cup {NoText} : WriteFile(p, x)
    BY <2>1, <2>3 DEF RestoreReplaces, WriteFile, Written, home, Histories
  <2>4. CASE \E r \in RecIds : DiscardRecovery(r)
    BY <2>1, <2>4 DEF DiscardRecovery, Histories
  <2>5. CASE \E b \in backups : RestoreBegins(b)
    BY <2>5 DEF RestoreBegins, home
  <2> QED BY <2>2, <2>3, <2>4, <2>5
<1>2. ses' = [ses EXCEPT !.reviewed = ses'.reviewed]
  BY <1>1 DEF IInv, TypeOK, Sessions
<1> QED BY <1>1, <1>2, Elsewhere

LEMMA NextCalm == IInv /\ Undisturbed /\ [Next]_vars => Undisturbed'
<1> SUFFICES ASSUME IInv, Undisturbed, [Next]_vars PROVE Undisturbed'
  OBVIOUS
<1>1. CASE seen'.raced
  BY <1>1 DEF Undisturbed
<1>2. CASE ~seen'.raced
  <2>1. ASSUME NEW s, NEW d, NEW side, Begin(s, d, side) PROVE Described
    BY <1>2, <2>1 DEF Begin, IInv, TypeOK, Histories, Undisturbed
  <2>2. ASSUME NEW p \in Paths, NEW k \in BOOLEAN, Start(p, k) PROVE Undisturbed'
    BY <2>1, <2>2, StartCalm DEF Start
  <2>3. ASSUME NEW r \in RecIds, Resume(r) PROVE Undisturbed'
    BY <2>1, <2>3, ResumeCalm DEF Resume
  <2>4. CASE Crash
    BY <1>2, <2>4, CrashCalm DEF Crash, IInv, TypeOK, Histories
  <2>5. "server" \in Threads /\ "stopper" \in Threads /\ Policies \ {"cancel"} \subseteq Policies
    BY DEF Threads
  <2> QED BY <1>2, <2>2, <2>3, <2>4, <2>5, RequestCalm, RequestStepCalm, ThreadStepCalm,
             StopCalm, ElsewhereCalm DEF Next
<1> QED BY <1>1, <1>2

LEMMA Undisturbing == Spec => [](IInv /\ Undisturbed)
<1>1. Init => IInv /\ Undisturbed
  BY InitInv, InitCalm
<1>2. IInv /\ Undisturbed /\ [Next]_vars => (IInv /\ Undisturbed)'
  BY NextInv, NextCalm
<1> QED BY <1>1, <1>2, PTL DEF Spec

-----------------------------------------------------------------------------
(* As long as nothing has raced, the draft with unsaved edits is whole and *)
(* up to date in its recovery between any two requests: for any number of  *)
(* edits, sessions, crashes and writes by others (write_recovery).         *)
THEOREM AlwaysRecoveryIsCurrent == Spec => []RecoveryIsCurrent
<1>1. IInv /\ Undisturbed => RecoveryIsCurrent
  <2> SUFFICES ASSUME IInv, Undisturbed, Running, ses.dirty, ~seen.raced,
                      \A t \in Threads : Idle(t)
               PROVE  ses.rid # NoRec /\ recs[ses.rid] # NoDir /\ Current(ses.rid)
    BY DEF RecoveryIsCurrent
  <2>1. PICK t \in Threads : Working(t)
    BY DEF Undisturbed
  <2> QED BY <2>1 DEF Working, Kept, Complete, Whole, Idle
<1> QED BY <1>1, Undisturbing, PTL

(* Wherever a crash falls, what resume_session accepts is a draft that the *)
(* editor had, with the count it had then: the manifest is written last,   *)
(* and compared with both files.                                           *)
THEOREM AlwaysNoTornResume == Spec => []NoTornResume
<1>1. IInv /\ Undisturbed => NoTornResume
  <2> SUFFICES ASSUME IInv, Undisturbed, NEW r \in RecIds, ~seen.raced, Resumable(r)
               PROVE  [sha |-> recs[r].draft, count |-> recs[r].side.count] \in seen.drafts
    BY DEF NoTornResume
  <2>1. recs[r] \in Recoveries /\ recs[r].manifest \in Manifests /\ recs[r] # NoDir
    BY DEF Resumable, IInv, TypeOK, Recoveries
  <2>2. recs[r].side \in Sides /\ recs[r].side = recs[r].manifest.side
    BY <2>1 DEF Resumable, Manifests
  <2>3. recs[r].draft = recs[r].side.sha /\ recs[r].side \in seen.drafts
    BY <2>1, <2>2 DEF Undisturbed, Described, Resumable
  <2>4. recs[r].side = [sha |-> recs[r].draft, count |-> recs[r].side.count]
    BY <2>2, <2>3 DEF Sides
  <2> QED BY <2>3, <2>4
<1> QED BY <1>1, Undisturbing, PTL

(* A session that was stopped with "keep" has left its draft, one that was *)
(* stopped with "discard" nothing, and none its directory (shutdown).      *)
THEOREM AlwaysStopKeepsItsWord == Spec => []StopKeepsItsWord
<1>1. IInv /\ Undisturbed => StopKeepsItsWord
  <2>1. \A r \in RecIds : r # NoRec
    BY DEF RecIds, NoRec
  <2> QED BY <2>1 DEF Undisturbed, Ended, StopKeepsItsWord
<1> QED BY <1>1, Undisturbing, PTL
=============================================================================
