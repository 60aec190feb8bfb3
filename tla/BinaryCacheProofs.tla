-------------------------- MODULE BinaryCacheProofs --------------------------
(* Theorems about BinaryCache, for any number of platforms, releases,      *)
(* updates and crashes.                                                    *)
EXTENDS BinaryCache, TLAPS

Downloading == {"sum", "copy", "binary", "verify"}
Renaming    == {"stat", "aside", "install"}

\* What the directory of an update holds while it downloads: platforms that
\* are done have their files, the others none or a torn one.  Once Verify has
\* let it pass it holds nothing but what matches its checksum, or is torn.
Undone(j, p) == j.tmp[p] # NoFiles => j.tmp[p].bin = Torn
DirectoryOK(j) ==
    /\ j.pc \in Downloading => \A p \in Platforms \ j.done : Undone(j, p)
    /\ j.pc \in Renaming => Matching(j.tmp)

\* The inductive invariant behind VisibleUnmixed.
DirectoriesOK ==
    /\ CacheTypeOK
    /\ VisibleUnmixed
    /\ backup # None => Matching(backup)
    /\ \A u \in Updates : DirectoryOK(job[u])

-----------------------------------------------------------------------------
LEMMA IdleJob == Idle \in Jobs /\ Idle.pc = "idle"
BY DEF Idle, Jobs

LEMMA EmptyDirectory == Empty \in Directory
BY DEF Empty, Directory, Files

\* The shape of a job, by its pc.
LEMMA JobShape ==
    ASSUME NEW j \in Jobs
    PROVE  /\ j.pc = "idle" => j = Idle
           /\ j.pc \in Downloading => j.tmp \in Directory /\ j.done \in SUBSET Platforms
           /\ j.pc \in {"sum", "copy", "binary"} => j.at \in Platforms
           /\ j.pc \in {"copy", "binary"} => j.sum \in Releases
           /\ j.pc \in Renaming => j.tmp \in Directory
           /\ j.pc \in Downloading \cup Renaming \cup {"idle", "restore", "drop"}
BY DEF Jobs, Idle, Downloading, Renaming

LEMMA RenamingGoesOn ==
    ASSUME NEW j \in Jobs, j.pc \in Renaming, NEW pc
    PROVE  [j EXCEPT !.pc = pc] = [pc |-> pc, tmp |-> j.tmp]
<1>1. PICK tmp \in Directory, q \in Renaming : j = [pc |-> q, tmp |-> tmp]
  BY DEF Jobs, Idle, Renaming
<1> QED
  BY <1>1

\* Follow writes the files of the present platform and goes on.
LEMMA FollowStep ==
    ASSUME CacheTypeOK, NEW u \in Updates, job[u].pc \in {"sum", "copy", "binary"},
           NEW files \in Files, NEW done \in SUBSET Platforms,
           Follow(u, files, done)
    PROVE  \E j \in Jobs :
             /\ job' = [job EXCEPT ![u] = j]
             /\ j.pc \in {"sum", "verify"}
             /\ j.tmp = [job[u].tmp EXCEPT ![job[u].at] = files]
             /\ j.done = done
<1>1. job[u] \in Jobs
  BY DEF CacheTypeOK
<1>2. /\ job[u].tmp \in Directory
      /\ job[u].at \in Platforms
  BY <1>1, JobShape DEF Downloading
<1> DEFINE tmp == [job[u].tmp EXCEPT ![job[u].at] = files]
<1>3. tmp \in Directory
  BY <1>2 DEF Directory
<1>4. CASE job[u].at < NPlatforms
  <2> DEFINE j == [pc |-> "sum", at |-> job[u].at + 1, tmp |-> tmp, done |-> done]
  <2>1. job[u].at + 1 \in Platforms
    BY <1>2, <1>4, CacheAssumption DEF Platforms
  <2>2. j \in Jobs
    BY <1>3, <2>1 DEF Jobs
  <2> QED
    BY <1>4, <2>2 DEF Follow, Goto
<1>5. CASE ~(job[u].at < NPlatforms)
  <2> DEFINE j == [pc |-> "verify", tmp |-> tmp, done |-> done]
  <2>1. j \in Jobs
    BY <1>3 DEF Jobs
  <2> QED
    BY <1>5, <2>1 DEF Follow, Goto
<1> QED
  BY <1>4, <1>5

\* Skip and Complete keep what holds of the directory of an update.
LEMMA SkipStep ==
    ASSUME DirectoriesOK, NEW u \in Updates, job[u].pc \in {"sum", "copy", "binary"},
           NEW files \in Files, files = NoFiles \/ files.bin = Torn,
           Skip(u, files)
    PROVE  \E j \in Jobs : job' = [job EXCEPT ![u] = j] /\ DirectoryOK(j)
<1>1. job[u] \in Jobs /\ DirectoryOK(job[u])
  BY DEF DirectoriesOK, CacheTypeOK
<1>2. /\ job[u].tmp \in Directory
      /\ job[u].done \in SUBSET Platforms
      /\ job[u].at \in Platforms
  BY <1>1, JobShape DEF Downloading
<1>3. PICK j \in Jobs :
             /\ job' = [job EXCEPT ![u] = j]
             /\ j.pc \in {"sum", "verify"}
             /\ j.tmp = [job[u].tmp EXCEPT ![job[u].at] = files]
             /\ j.done = job[u].done
  BY <1>2, FollowStep DEF Skip, DirectoriesOK
<1>4. \A p \in Platforms \ job[u].done : Undone(job[u], p)
  BY <1>1 DEF DirectoryOK, Downloading
<1>5. \A p \in Platforms \ j.done : Undone(j, p)
  BY <1>2, <1>3, <1>4 DEF Undone, Directory
<1> QED
  BY <1>3, <1>5 DEF DirectoryOK, Renaming

LEMMA CompleteStep ==
    ASSUME DirectoriesOK, NEW u \in Updates, job[u].pc \in {"copy", "binary"},
           NEW bin \in Releases \cup {Torn},
           Complete(u, bin)
    PROVE  \E j \in Jobs : job' = [job EXCEPT ![u] = j] /\ DirectoryOK(j)
<1>1. job[u] \in Jobs /\ DirectoryOK(job[u])
  BY DEF DirectoriesOK, CacheTypeOK
<1>2. /\ job[u].tmp \in Directory
      /\ job[u].done \in SUBSET Platforms
      /\ job[u].at \in Platforms
      /\ job[u].sum \in Releases
  BY <1>1, JobShape DEF Downloading
<1> DEFINE files == [sum |-> job[u].sum, bin |-> bin]
           done  == job[u].done \cup {job[u].at}
<1>3. files \in Files /\ done \in SUBSET Platforms
  BY <1>2 DEF Files
<1>4. PICK j \in Jobs :
             /\ job' = [job EXCEPT ![u] = j]
             /\ j.pc \in {"sum", "verify"}
             /\ j.tmp = [job[u].tmp EXCEPT ![job[u].at] = files]
             /\ j.done = done
  <2> Follow(u, files, done)
    BY DEF Complete
  <2> HIDE DEF files, done
  <2> QED
    BY <1>3, FollowStep DEF DirectoriesOK
<1>5. \A p \in Platforms \ job[u].done : Undone(job[u], p)
  BY <1>1 DEF DirectoryOK, Downloading
<1>6. \A p \in Platforms \ j.done : Undone(j, p)
  BY <1>2, <1>4, <1>5 DEF Undone, Directory
<1> QED
  BY <1>4, <1>6 DEF DirectoryOK, Renaming

\* What Verify lets pass matches its checksums, but for torn files.
LEMMA VerifiedMatches ==
    ASSUME NEW j \in Jobs, j.pc = "verify", DirectoryOK(j), Verified(j)
    PROVE  Matching(j.tmp)
<1>1. j.tmp \in Directory /\ \A p \in Platforms \ j.done : Undone(j, p)
  BY JobShape DEF DirectoryOK, Downloading
<1>2. \A p \in j.done : j.tmp[p].bin = j.tmp[p].sum
  BY DEF Verified
<1> QED
  BY <1>1, <1>2 DEF Matching, Undone

-----------------------------------------------------------------------------
LEMMA CacheInitOK == CacheInit => DirectoriesOK
<1> SUFFICES ASSUME CacheInit PROVE DirectoriesOK
  OBVIOUS
<1>1. CacheTypeOK
  BY CacheAssumption, IdleJob DEF CacheInit, CacheTypeOK, Releases
<1>2. \A u \in Updates : DirectoryOK(job[u])
  BY IdleJob DEF CacheInit, DirectoryOK, Downloading, Renaming
<1> QED
  BY <1>1, <1>2 DEF CacheInit, DirectoriesOK, VisibleUnmixed

\* A step that replaces one job by one whose directory is in order.
LEMMA JobReplaced ==
    ASSUME DirectoriesOK, NEW u \in Updates, NEW j \in Jobs, DirectoryOK(j),
           job' = [job EXCEPT ![u] = j]
    PROVE  /\ job' \in [Updates -> Jobs]
           /\ \A v \in Updates : DirectoryOK(job'[v])
BY DEF DirectoriesOK, CacheTypeOK

LEMMA DirectoriesStep ==
    DirectoriesOK /\ [CacheNext]_cacheVars => DirectoriesOK'
<1> SUFFICES ASSUME DirectoriesOK, [CacheNext]_cacheVars PROVE DirectoriesOK'
  OBVIOUS
<1> USE DEF diskVars
<1>0. /\ CacheTypeOK
      /\ cache \in Directory \cup {None}
      /\ backup \in Directory \cup {None}
      /\ release \in Releases
      /\ \A u \in Updates : job[u] \in Jobs /\ DirectoryOK(job[u])
      /\ cache # None => Matching(cache)
      /\ backup # None => Matching(backup)
  BY DEF DirectoriesOK, CacheTypeOK, VisibleUnmixed
\* A step that leaves the disk alone, or renames and removes directories.
<1>1. ASSUME NEW u \in Updates, NEW j \in Jobs, DirectoryOK(j),
             job' = [job EXCEPT ![u] = j],
             \/ cache' \in {cache, backup, None}
             \/ job[u].pc \in Renaming /\ cache' = job[u].tmp,
             backup' \in {backup, cache, None},
             release' = release, crashes' = crashes
      PROVE  DirectoriesOK'
  <2>1. /\ job' \in [Updates -> Jobs]
        /\ \A v \in Updates : DirectoryOK(job'[v])
    BY <1>1, JobReplaced
  <2>2. /\ cache' \in Directory \cup {None}
        /\ cache' # None => Matching(cache')
    <3>1. CASE job[u].pc \in Renaming /\ cache' = job[u].tmp
      BY <1>0, <1>1, <3>1, JobShape DEF DirectoryOK
    <3>2. CASE cache' \in {cache, backup, None}
      BY <1>0, <3>2
    <3> QED
      BY <1>1, <3>1, <3>2
  <2>3. /\ backup' \in Directory \cup {None}
        /\ backup' # None => Matching(backup')
    BY <1>0, <1>1
  <2>4. CacheTypeOK'
    BY <1>0, <1>1, <2>1, <2>2, <2>3 DEF CacheTypeOK
  <2> QED
    BY <2>1, <2>2, <2>3, <2>4 DEF DirectoriesOK, VisibleUnmixed, Matching, DirectoryOK, Undone
\* A step that ends or continues a job without a directory of its own.
<1>2. ASSUME NEW pc \in {"restore", "drop"}
      PROVE  [pc |-> pc] \in Jobs /\ DirectoryOK([pc |-> pc])
  BY DEF Jobs, DirectoryOK, Downloading, Renaming
<1>3. Idle \in Jobs /\ DirectoryOK(Idle)
  BY IdleJob DEF DirectoryOK, Downloading, Renaming
\* A step that takes an update with a verified directory further.
<1>4. ASSUME NEW pc \in Renaming, NEW tmp \in Directory, Matching(tmp)
      PROVE  [pc |-> pc, tmp |-> tmp] \in Jobs /\ DirectoryOK([pc |-> pc, tmp |-> tmp])
  BY <1>4 DEF Jobs, DirectoryOK, Downloading, Renaming
<1>5. ASSUME NEW u \in Updates, job[u].pc \in Renaming
      PROVE  job[u].tmp \in Directory /\ Matching(job[u].tmp)
  BY <1>0, <1>5, JobShape DEF DirectoryOK
<1>6. CASE CalmNext
  <2>1. ASSUME NEW u \in Updates, Begin(u) PROVE DirectoriesOK'
    <3> DEFINE j == [pc |-> "sum", at |-> 1, tmp |-> Empty, done |-> {}]
    <3>1. j \in Jobs
      BY EmptyDirectory, CacheAssumption DEF Jobs, Platforms
    <3>2. DirectoryOK(j)
      BY DEF DirectoryOK, Undone, Empty, Renaming
    <3>3. job' = [job EXCEPT ![u] = j]
      BY <2>1 DEF Begin, Goto
    <3> HIDE DEF j
    <3> QED
      BY <1>1, <2>1, <3>1, <3>2, <3>3 DEF Begin
  <2>2. ASSUME NEW u \in Updates, FetchSum(u) PROVE DirectoriesOK'
    <3>1. /\ job[u] \in Jobs /\ DirectoryOK(job[u]) /\ job[u].pc = "sum"
          /\ job[u].tmp \in Directory
          /\ job[u].done \in SUBSET Platforms
          /\ job[u].at \in Platforms
      BY <1>0, <2>2, JobShape DEF FetchSum, Downloading
    <3> DEFINE j(pc) == [pc  |-> pc, at |-> job[u].at, sum |-> release,
                         tmp |-> job[u].tmp, done |-> job[u].done]
    <3>2. PICK pc \in {"copy", "binary"} : job' = [job EXCEPT ![u] = j(pc)]
      BY <2>2 DEF FetchSum, Goto
    <3>3. j(pc) \in Jobs
      BY <1>0, <3>1 DEF Jobs
    <3>4. DirectoryOK(j(pc))
      BY <3>1 DEF DirectoryOK, Downloading, Renaming, Undone
    <3> HIDE DEF j
    <3> QED
      BY <1>1, <2>2, <3>2, <3>3, <3>4 DEF FetchSum
  <2>3. ASSUME NEW u \in Updates, Copy(u) PROVE DirectoriesOK'
    <3>1. job[u].pc = "copy" /\ job[u].at \in Platforms
      BY <1>0, <2>3, JobShape DEF Copy
    <3>2. CASE cache = None \/ cache[job[u].at] = NoFiles
      <4>1. Skip(u, NoFiles)
        BY <2>3, <3>2 DEF Copy
      <4>2. NoFiles \in Files
        BY DEF Files
      <4> QED
        BY <1>1, <2>3, <3>1, <4>1, <4>2, SkipStep DEF Copy
    <3>3. CASE ~(cache = None \/ cache[job[u].at] = NoFiles)
      <4>1. Complete(u, cache[job[u].at].bin)
        BY <2>3, <3>3 DEF Copy
      <4>2. cache[job[u].at].bin \in Releases \cup {Torn}
        BY <1>0, <3>1, <3>3 DEF Directory, Files
      <4> QED
        BY <1>1, <2>3, <3>1, <4>1, <4>2, CompleteStep DEF Copy
    <3> QED
      BY <3>2, <3>3
  <2>4. ASSUME NEW u \in Updates, FetchBinary(u) PROVE DirectoriesOK'
    BY <1>0, <1>1, <2>4, CompleteStep DEF FetchBinary
  <2>5. ASSUME NEW u \in Updates, Verify(u) PROVE DirectoriesOK'
    <3>1. job[u] \in Jobs /\ DirectoryOK(job[u]) /\ job[u].pc = "verify" /\ job[u].tmp \in Directory
      BY <1>0, <2>5, JobShape DEF Verify, Downloading
    <3>2. CASE Verified(job[u])
      <4>1. /\ job' = [job EXCEPT ![u] = [pc |-> "stat", tmp |-> job[u].tmp]]
            /\ backup' = None
        BY <2>5, <3>2 DEF Verify, Goto
      <4>2. Matching(job[u].tmp)
        BY <3>1, <3>2, VerifiedMatches
      <4> QED
        BY <1>1, <1>4, <2>5, <3>1, <4>1, <4>2 DEF Verify, Renaming
    <3>3. CASE ~Verified(job[u])
      BY <1>1, <1>3, <2>5, <3>3 DEF Verify, Goto
    <3> QED
      BY <3>2, <3>3
  <2>6. ASSUME NEW u \in Updates, Stat(u) PROVE DirectoriesOK'
    <3>1. job[u].pc \in Renaming
      BY <2>6 DEF Stat, Renaming
    <3>2. PICK pc \in Renaming : job' = [job EXCEPT ![u] = [job[u] EXCEPT !.pc = pc]]
      BY <2>6 DEF Stat, Goto, Renaming
    <3>3. [job[u] EXCEPT !.pc = pc] = [pc |-> pc, tmp |-> job[u].tmp]
      BY <1>0, <3>1, RenamingGoesOn
    <3> DEFINE j == [pc |-> pc, tmp |-> job[u].tmp]
    <3>4. j \in Jobs /\ DirectoryOK(j)
      BY <1>4, <1>5, <3>1
    <3>5. job' = [job EXCEPT ![u] = j]
      BY <3>2, <3>3
    <3> HIDE DEF j
    <3> QED
      BY <1>1, <2>6, <3>4, <3>5 DEF Stat
  <2>7. ASSUME NEW u \in Updates, MoveAside(u) PROVE DirectoriesOK'
    <3>1. job[u].pc \in Renaming
      BY <2>7 DEF MoveAside, Renaming
    <3>2. CASE cache # None /\ backup = None
      <4>1. /\ job' = [job EXCEPT ![u] = [job[u] EXCEPT !.pc = "install"]]
            /\ cache' = None /\ backup' = cache
        BY <2>7, <3>2 DEF MoveAside, Goto
      <4>2. [job[u] EXCEPT !.pc = "install"] = [pc |-> "install", tmp |-> job[u].tmp]
        BY <1>0, <3>1, RenamingGoesOn
      <4> DEFINE j == [pc |-> "install", tmp |-> job[u].tmp]
      <4>3. j \in Jobs /\ DirectoryOK(j)
        BY <1>4, <1>5, <3>1 DEF Renaming
      <4>4. job' = [job EXCEPT ![u] = j]
        BY <4>1, <4>2
      <4>5. release' = release /\ crashes' = crashes
        BY <2>7 DEF MoveAside
      <4> HIDE DEF j
      <4> QED
        BY <1>1, <4>1, <4>3, <4>4, <4>5
    <3>3. CASE ~(cache # None /\ backup = None)
      BY <1>1, <1>3, <2>7, <3>1, <3>3 DEF MoveAside, Goto
    <3> QED
      BY <3>2, <3>3
  <2>8. ASSUME NEW u \in Updates, Install(u) PROVE DirectoriesOK'
    BY <1>1, <1>2, <2>8 DEF Install, Goto, Renaming
  <2>9. ASSUME NEW u \in Updates, Restore(u) PROVE DirectoriesOK'
    <3>1. job' = [job EXCEPT ![u] = Idle]
      BY <2>9 DEF Restore, Goto
    <3>2. ~(job[u].pc \in Renaming) /\ job[u].pc = "restore"
      BY <2>9 DEF Restore, Renaming
    <3>3. \/ cache' = backup /\ backup' = None
          \/ cache' = cache /\ backup' = backup
      BY <2>9 DEF Restore
    <3> QED
      BY <1>0, <1>3, <2>9, <3>1, <3>2, <3>3, JobReplaced
      DEF Restore, DirectoriesOK, CacheTypeOK, VisibleUnmixed, Matching, DirectoryOK, Undone
  <2>10. ASSUME NEW u \in Updates, Drop(u) PROVE DirectoriesOK'
    <3>1. job' = [job EXCEPT ![u] = Idle]
      BY <2>10 DEF Drop, Goto
    <3> QED
      BY <1>0, <1>3, <2>10, <3>1, JobReplaced
      DEF Drop, DirectoriesOK, CacheTypeOK, VisibleUnmixed, Matching, DirectoryOK, Undone
  <2>11. CASE Publish
    BY <1>0, <2>11, CacheAssumption
    DEF Publish, DirectoriesOK, CacheTypeOK, VisibleUnmixed, Matching, DirectoryOK, Undone, Releases
  <2> QED
    BY <1>6, <2>1, <2>2, <2>3, <2>4, <2>5, <2>6, <2>7, <2>8, <2>9, <2>10, <2>11 DEF CalmNext, Step
<1>7. ASSUME NEW u \in Updates, Fault(u) PROVE DirectoriesOK'
  <2>1. CASE FetchFails(u)
    <3>1. NoFiles \in Files
      BY DEF Files
    <3> QED
      BY <1>1, <2>1, <3>1, SkipStep DEF FetchFails
  <2>2. CASE CutShort(u)
    <3> DEFINE files == [sum |-> job[u].sum, bin |-> Torn]
    <3>1. files \in Files
      BY <1>0, <2>2, JobShape DEF CutShort, Files
    <3> QED
      BY <1>1, <2>2, <3>1, SkipStep DEF CutShort
  <2> QED
    BY <1>7, <2>1, <2>2 DEF Fault
<1>8. CASE Crash
  <2>1. job' = [u \in Updates |-> Idle]
    BY <1>8 DEF Crash
  <2>2. /\ job' \in [Updates -> Jobs]
        /\ \A u \in Updates : DirectoryOK(job'[u])
    BY <1>3, <2>1
  <2> QED
    BY <1>0, <1>8, <2>2, CacheAssumption
    DEF Crash, DirectoriesOK, CacheTypeOK, VisibleUnmixed, Matching, DirectoryOK, Undone
<1>9. CASE UNCHANGED cacheVars
  BY <1>0, <1>9
  DEF cacheVars, DirectoriesOK, CacheTypeOK, VisibleUnmixed, Matching, DirectoryOK, Undone
<1> QED
  BY <1>6, <1>7, <1>8, <1>9 DEF CacheNext

\* The disk and the updates have their types (CacheTypeOK).
THEOREM CacheTypeCorrect == CacheSpec => []CacheTypeOK
<1>1. DirectoriesOK => CacheTypeOK
  BY DEF DirectoriesOK
<1> QED
  BY <1>1, CacheInitOK, DirectoriesStep, PTL DEF CacheSpec

\* Whatever updates, faults and crashes there are, no binary on offer is of
\* another release than its checksum: a torn one is all that gets through.
THEOREM VisibleIsUnmixed == CacheSpec => []VisibleUnmixed
<1>1. DirectoriesOK => VisibleUnmixed
  BY DEF DirectoriesOK
<1> QED
  BY <1>1, CacheInitOK, DirectoriesStep, PTL DEF CacheSpec

-----------------------------------------------------------------------------
(* Torn files come from copies cut short and from nothing else: without    *)
(* them whatever is on offer is what its checksum file is about.           *)

Intact == \A u \in Updates : ~CutShort(u)

Untorn(d) == \A p \in Platforms : d[p].bin # Torn
NothingTorn ==
    /\ cache # None => Untorn(cache)
    /\ backup # None => Untorn(backup)
    /\ \A u \in Updates :
         job[u].pc \in Downloading \cup Renaming => Untorn(job[u].tmp)

\* Writing an untorn file, or none, keeps the directory of the update so.
LEMMA FollowUntorn ==
    ASSUME CacheTypeOK, NothingTorn, NEW u \in Updates,
           job[u].pc \in {"sum", "copy", "binary"},
           NEW files \in Files, files.bin # Torn, NEW done \in SUBSET Platforms,
           Follow(u, files, done), UNCHANGED diskVars
    PROVE  NothingTorn'
<1>1. PICK j \in Jobs :
             /\ job' = [job EXCEPT ![u] = j]
             /\ j.tmp = [job[u].tmp EXCEPT ![job[u].at] = files]
  BY FollowStep
<1>2. /\ job \in [Updates -> Jobs]
      /\ job[u].tmp \in Directory
      /\ Untorn(job[u].tmp)
  BY JobShape DEF CacheTypeOK, NothingTorn, Downloading
<1>3. Untorn(j.tmp)
  BY <1>1, <1>2 DEF Untorn, Directory
<1>4. \A v \in Updates :
         job'[v].pc \in Downloading \cup Renaming => Untorn(job'[v].tmp)
  <2> SUFFICES ASSUME NEW v \in Updates, job'[v].pc \in Downloading \cup Renaming
               PROVE  Untorn(job'[v].tmp)
    OBVIOUS
  <2>1. CASE v = u
    BY <1>1, <1>2, <1>3, <2>1
  <2>2. CASE v # u
    BY <1>1, <1>2, <2>2 DEF NothingTorn
  <2> QED
    BY <2>1, <2>2
<1> QED
  BY <1>4 DEF NothingTorn, diskVars, Untorn

LEMMA UntornStep ==
    CacheTypeOK /\ NothingTorn /\ [CacheNext]_cacheVars /\ [Intact]_cacheVars
        => NothingTorn'
<1> SUFFICES ASSUME CacheTypeOK, NothingTorn, [CacheNext]_cacheVars, [Intact]_cacheVars
             PROVE  NothingTorn'
  OBVIOUS
<1> USE DEF diskVars
<1>0. /\ job \in [Updates -> Jobs]
      /\ cache \in Directory \cup {None}
      /\ release \in Releases
      /\ NoFiles \in Files /\ NoFiles.bin # Torn
  BY CacheAssumption DEF CacheTypeOK, Files, NoFiles
<1>t. ASSUME NEW u \in Updates, job[u].pc \in {"sum", "copy", "binary"}
      PROVE  /\ job[u].done \in SUBSET Platforms /\ job[u].at \in Platforms
             /\ job[u].pc # "sum" => job[u].sum \in Releases
  BY <1>0, <1>t, JobShape DEF Downloading
\* A step of an update that keeps its directory, or ends with none.
<1>1. ASSUME NEW u \in Updates, NEW j, job' = [job EXCEPT ![u] = j],
             j.pc \in Downloading \cup Renaming => Untorn(j.tmp),
             \/ cache' \in {cache, backup, None}
             \/ job[u].pc \in Renaming /\ cache' = job[u].tmp,
             backup' \in {backup, cache, None}
      PROVE  NothingTorn'
  <2>1. \A v \in Updates :
           job'[v].pc \in Downloading \cup Renaming => Untorn(job'[v].tmp)
    BY <1>0, <1>1 DEF NothingTorn
  <2>2. cache' # None => Untorn(cache')
    BY <1>1 DEF NothingTorn
  <2> QED
    BY <1>1, <2>1, <2>2 DEF NothingTorn, Untorn
\* A platform is done or skipped.
<1>2. ASSUME NEW u \in Updates, job[u].pc \in {"sum", "copy", "binary"},
             Skip(u, NoFiles), UNCHANGED diskVars
      PROVE  NothingTorn'
  BY <1>0, <1>2, <1>t, FollowUntorn DEF Skip
<1>3. ASSUME NEW u \in Updates, job[u].pc \in {"copy", "binary"},
             NEW bin \in Releases, Complete(u, bin), UNCHANGED diskVars
      PROVE  NothingTorn'
  <2> DEFINE files == [sum |-> job[u].sum, bin |-> bin]
             done  == job[u].done \cup {job[u].at}
  <2>1. files \in Files /\ files.bin # Torn /\ done \in SUBSET Platforms
    BY <1>3, <1>t, CacheAssumption DEF Files, Releases
  <2>2. Follow(u, files, done)
    BY <1>3 DEF Complete
  <2> HIDE DEF files, done
  <2> QED
    BY <1>3, <2>1, <2>2, FollowUntorn
<1>4. ASSUME NEW u \in Updates, Begin(u) PROVE NothingTorn'
  <2>1. Untorn(Empty)
    BY CacheAssumption DEF Untorn, Empty, NoFiles
  <2> QED
    BY <1>1, <1>4, <2>1 DEF Begin, Goto
<1>5. ASSUME NEW u \in Updates, FetchSum(u) PROVE NothingTorn'
  <2>1. Untorn(job[u].tmp)
    BY <1>5 DEF FetchSum, NothingTorn, Downloading
  <2> QED
    BY <1>1, <1>5, <2>1 DEF FetchSum, Goto
<1>6. ASSUME NEW u \in Updates, Copy(u) PROVE NothingTorn'
  <2>1. CASE cache = None \/ cache[job[u].at] = NoFiles
    BY <1>2, <1>6, <2>1 DEF Copy
  <2>2. CASE ~(cache = None \/ cache[job[u].at] = NoFiles)
    <3>1. cache[job[u].at].bin \in Releases
      BY <1>0, <1>6, <1>t, <2>2 DEF Copy, NothingTorn, Untorn, Directory, Files
    <3> QED
      BY <1>3, <1>6, <2>2, <3>1 DEF Copy
  <2> QED
    BY <2>1, <2>2
<1>7. ASSUME NEW u \in Updates, FetchBinary(u) PROVE NothingTorn'
  BY <1>0, <1>3, <1>7 DEF FetchBinary
<1>8. ASSUME NEW u \in Updates, Verify(u) PROVE NothingTorn'
  <2>1. Untorn(job[u].tmp)
    BY <1>8 DEF Verify, NothingTorn, Downloading
  <2>2. PICK j : job' = [job EXCEPT ![u] = j] /\ j \in {Idle, [pc |-> "stat", tmp |-> job[u].tmp]}
    BY <1>8 DEF Verify, Goto
  <2>3. j.pc \in Downloading \cup Renaming => Untorn(j.tmp)
    BY <2>1, <2>2, IdleJob DEF Downloading, Renaming
  <2> QED
    BY <1>1, <1>8, <2>2, <2>3 DEF Verify
<1>9. ASSUME NEW u \in Updates, Stat(u) \/ MoveAside(u) PROVE NothingTorn'
  <2>1. job[u].pc \in Renaming /\ job[u] \in Jobs /\ Untorn(job[u].tmp)
    BY <1>0, <1>9 DEF Stat, MoveAside, NothingTorn, Renaming
  <2>2. PICK j : /\ job' = [job EXCEPT ![u] = j]
                 /\ \/ j = Idle
                    \/ \E pc \in Renaming : j = [pc |-> pc, tmp |-> job[u].tmp]
    BY <1>9, <2>1, RenamingGoesOn DEF Stat, MoveAside, Goto, Renaming
  <2>3. j.pc \in Downloading \cup Renaming => Untorn(j.tmp)
    BY <2>1, <2>2, IdleJob DEF Downloading, Renaming
  <2> QED
    BY <1>1, <1>9, <2>2, <2>3 DEF Stat, MoveAside
<1>10. ASSUME NEW u \in Updates, Install(u) \/ Restore(u) \/ Drop(u) PROVE NothingTorn'
  <2>1. PICK j : /\ job' = [job EXCEPT ![u] = j]
                 /\ j \in {Idle, [pc |-> "drop"], [pc |-> "restore"]}
    BY <1>10 DEF Install, Restore, Drop, Goto
  <2>2. ~(j.pc \in Downloading \cup Renaming)
    BY <2>1, IdleJob DEF Downloading, Renaming
  <2> QED
    BY <1>1, <1>10, <2>1, <2>2 DEF Install, Restore, Drop, Renaming
<1>11. ASSUME NEW u \in Updates, FetchFails(u) PROVE NothingTorn'
  BY <1>2, <1>11 DEF FetchFails
<1>12. ASSUME NEW u \in Updates, CutShort(u) PROVE NothingTorn'
  BY <1>12 DEF Intact, CutShort, cacheVars, NothingTorn, Untorn
<1>13. CASE Publish \/ UNCHANGED cacheVars
  BY <1>13 DEF Publish, cacheVars, NothingTorn, Untorn
<1>14. CASE Crash
  BY <1>14, IdleJob DEF Crash, NothingTorn, Untorn, Downloading, Renaming
<1> QED
  BY <1>4, <1>5, <1>6, <1>7, <1>8, <1>9, <1>10, <1>11, <1>12, <1>13, <1>14
  DEF CacheNext, CalmNext, Step, Fault

\* As long as no copy is cut short, every binary on offer is the one that its
\* checksum file is about, through skipped platforms, crashes, a publication
\* between two downloads and updates that replace each other's directory.
THEOREM IntactIsVerified ==
    CacheSpec /\ [][Intact]_cacheVars => []VisibleVerified
<1>1. CacheInit => NothingTorn
  BY IdleJob DEF CacheInit, NothingTorn, Downloading, Renaming
<1>2. DirectoriesOK => CacheTypeOK
  BY DEF DirectoriesOK
<1>3. DirectoriesOK /\ NothingTorn => VisibleVerified
  BY DEF DirectoriesOK, NothingTorn, VisibleUnmixed, VisibleVerified, Matching, Vouched, Untorn
<1> QED
  BY <1>1, <1>2, <1>3, CacheInitOK, DirectoriesStep, UntornStep, PTL DEF CacheSpec

-----------------------------------------------------------------------------
\* MoveAside, which takes the cache away, leaves its update about to install;
\* Install leaves a directory behind, whatever it finds; no other step ends an
\* installation that is due.
LEMMA OfferedStep ==
    ASSUME CacheTypeOK, [CacheNext]_cacheVars
    PROVE  StaysOffered
<1> SUFFICES ASSUME Offered, crashes' = crashes PROVE Offered'
  BY DEF StaysOffered
<1> USE DEF diskVars
<1>1. /\ job \in [Updates -> Jobs]
      /\ cache \in Directory \cup {None}
      /\ backup \in Directory \cup {None}
      /\ crashes \in Nat
  BY CacheAssumption DEF CacheTypeOK
\* A step that leaves the cache alone, of an update that is not about to install.
<1>2. ASSUME NEW u \in Updates, NEW j, job' = [job EXCEPT ![u] = j],
             job[u].pc # "install", cache' = cache
      PROVE  Offered'
  <2>1. Swapping => Swapping'
    <3> SUFFICES ASSUME NEW v \in Updates, job[v].pc = "install" PROVE job'[v].pc = "install"
      BY DEF Swapping
    <3> QED
      BY <1>1, <1>2
  <2> QED
    BY <1>2, <2>1 DEF Offered
<1>3. ASSUME NEW u \in Updates, Begin(u) \/ Step(u) \/ Fault(u) PROVE Offered'
  <2>1. CASE Begin(u)
    BY <1>2, <2>1, IdleJob DEF Begin, Goto
  <2>2. CASE FetchSum(u)
    BY <1>2, <2>2 DEF FetchSum, Goto
  <2>3. CASE Copy(u)
    <3>1. \E j : job' = [job EXCEPT ![u] = j]
      BY <2>3 DEF Copy, Skip, Complete, Follow, Goto
    <3> QED
      BY <1>2, <2>3, <3>1 DEF Copy
  <2>4. CASE FetchBinary(u)
    <3>1. \E j : job' = [job EXCEPT ![u] = j]
      BY <2>4 DEF FetchBinary, Complete, Follow, Goto
    <3> QED
      BY <1>2, <2>4, <3>1 DEF FetchBinary
  <2>5. CASE Verify(u)
    BY <1>2, <2>5 DEF Verify, Goto
  <2>6. CASE Stat(u)
    BY <1>2, <2>6 DEF Stat, Goto
  <2>7. CASE MoveAside(u)
    <3>1. CASE cache # None /\ backup = None
      <4>1. job'[u].pc = "install"
        <5>1. job[u] \in Jobs /\ job[u].pc = "aside"
          BY <1>1, <2>7 DEF MoveAside
        <5>2. [job[u] EXCEPT !.pc = "install"].pc = "install"
          BY <5>1 DEF Jobs, Idle
        <5> QED
          BY <1>1, <2>7, <3>1, <5>2 DEF MoveAside, Goto
      <4> QED
        BY <4>1 DEF Offered, Swapping
    <3>2. CASE ~(cache # None /\ backup = None)
      BY <1>2, <2>7, <3>2 DEF MoveAside, Goto
    <3> QED
      BY <3>1, <3>2
  <2>8. CASE Install(u)
    <3>1. cache' # None
      <4>1. job[u].tmp \in Directory
        BY <1>1, <2>8, JobShape DEF Install, Renaming
      <4> QED
        BY <2>8, <4>1, DirectoryAssumption DEF Install
    <3> QED
      BY <3>1 DEF Offered
  <2>9. CASE Restore(u)
    <3>1. CASE cache = None /\ backup # None
      BY <2>9, <3>1 DEF Restore, Offered
    <3>2. CASE ~(cache = None /\ backup # None)
      BY <1>2, <2>9, <3>2 DEF Restore, Goto
    <3> QED
      BY <3>1, <3>2
  <2>10. CASE Drop(u)
    BY <1>2, <2>10 DEF Drop, Goto
  <2>11. CASE FetchFails(u)
    <3>1. \E j : job' = [job EXCEPT ![u] = j]
      BY <2>11 DEF FetchFails, Skip, Follow, Goto
    <3> QED
      BY <1>2, <2>11, <3>1 DEF FetchFails
  <2>12. CASE CutShort(u)
    <3>1. \E j : job' = [job EXCEPT ![u] = j]
      BY <2>12 DEF CutShort, Skip, Follow, Goto
    <3> QED
      BY <1>2, <2>12, <3>1 DEF CutShort
  <2> QED
    BY <1>3, <2>1, <2>2, <2>3, <2>4, <2>5, <2>6, <2>7, <2>8, <2>9, <2>10, <2>11, <2>12
    DEF Step, Fault
<1>4. CASE Publish
  BY <1>4 DEF Publish, Offered, Swapping
<1>5. CASE Crash
  BY <1>1, <1>5 DEF Crash
<1>6. CASE UNCHANGED cacheVars
  BY <1>6 DEF cacheVars, Offered, Swapping
<1> QED
  BY <1>3, <1>4, <1>5, <1>6 DEF CacheNext, CalmNext

\* No step of any update, failed or not, loses the directory: it goes missing
\* only with a new one about to be put in its place.
THEOREM CacheAvailable == CacheSpec => Available
<1>1. DirectoriesOK => CacheTypeOK
  BY DEF DirectoriesOK
<1>2. DirectoriesOK /\ [CacheNext]_cacheVars => [StaysOffered]_cacheVars
  BY <1>1, OfferedStep
<1> QED
  BY <1>2, CacheInitOK, DirectoriesStep, PTL DEF CacheSpec, Available

-----------------------------------------------------------------------------
(* Every platform is there, when nothing fails and one update runs at a    *)
(* time: what run colliding_updates shows to fail takes two of them.       *)

OneUpdate == \A u, v \in Updates : u = v

\* No platform is skipped: those before the present one have their files, and
\* what was compared is still there to be copied.
Full(d) == \A p \in Platforms : d[p] # NoFiles
WholeJob(j) ==
    /\ j.pc \in {"sum", "copy", "binary"} => \A p \in 1..(j.at - 1) : j.tmp[p] # NoFiles
    /\ j.pc = "copy" => cache # None /\ cache[j.at] # NoFiles
    /\ j.pc \in {"verify"} \cup Renaming => Full(j.tmp)
WholeInv ==
    /\ AllPlatforms
    /\ backup # None => Full(backup)
    /\ \A u \in Updates : WholeJob(job[u])

LEMMA CompleteWhole ==
    ASSUME CacheTypeOK, NEW u \in Updates, job[u].pc \in {"copy", "binary"},
           WholeJob(job[u]), NEW bin \in Releases \cup {Torn}, Complete(u, bin),
           UNCHANGED cache
    PROVE  WholeJob(job[u])'
<1> DEFINE files == [sum |-> job[u].sum, bin |-> bin]
<1>1. /\ job[u].tmp \in Directory
      /\ job[u].done \cup {job[u].at} \in SUBSET Platforms
      /\ job[u].at \in Platforms
      /\ job[u].sum \in Releases
      /\ \A p \in 1..(job[u].at - 1) : job[u].tmp[p] # NoFiles
  BY JobShape DEF CacheTypeOK, Downloading, WholeJob
<1>2. files \in Files /\ files # NoFiles
  BY <1>1, CacheAssumption DEF Files, NoFiles, Releases
<1> DEFINE tmp == [job[u].tmp EXCEPT ![job[u].at] = files]
           done == job[u].done \cup {job[u].at}
<1>3. \A p \in 1..job[u].at : tmp[p] # NoFiles
  <2> HIDE DEF files
  <2> QED BY <1>1, <1>2, CacheAssumption DEF Directory, Platforms
<1>4. job' = [job EXCEPT ![u] =
        IF job[u].at < NPlatforms
        THEN [pc |-> "sum", at |-> job[u].at + 1, tmp |-> tmp, done |-> done]
        ELSE [pc |-> "verify", tmp |-> tmp, done |-> done]]
  BY DEF Complete, Follow, Goto
<1> HIDE DEF tmp, done, files
<1>5. CASE job[u].at < NPlatforms
  <2>1. job'[u] = [pc |-> "sum", at |-> job[u].at + 1, tmp |-> tmp, done |-> done]
    BY <1>4, <1>5 DEF CacheTypeOK
  <2>2. (job[u].at + 1) - 1 = job[u].at
    BY <1>1, CacheAssumption DEF Platforms
  <2> QED BY <1>3, <2>1, <2>2 DEF WholeJob, Renaming
<1>6. CASE ~(job[u].at < NPlatforms)
  <2>1. job'[u] = [pc |-> "verify", tmp |-> tmp, done |-> done]
    BY <1>4, <1>6 DEF CacheTypeOK
  <2>2. job[u].at = NPlatforms
    BY <1>1, <1>6, CacheAssumption DEF Platforms
  <2> QED BY <1>3, <2>1, <2>2 DEF WholeJob, Renaming, Full, Platforms
<1> QED BY <1>5, <1>6

LEMMA WholeStep ==
    ASSUME OneUpdate
    PROVE  CacheTypeOK /\ WholeInv /\ [CalmNext]_cacheVars => WholeInv'
<1> SUFFICES ASSUME CacheTypeOK, WholeInv, [CalmNext]_cacheVars PROVE WholeInv'
  OBVIOUS
<1> USE DEF diskVars
<1>0. /\ job \in [Updates -> Jobs]
      /\ cache # None => Full(cache)
      /\ backup # None => Full(backup)
      /\ \A u \in Updates : WholeJob(job[u])
  BY DEF CacheTypeOK, WholeInv, AllPlatforms, Full
\* The update goes on, and directories are renamed or removed.
<1>1. ASSUME NEW u \in Updates, WholeJob(job[u])',
             \/ cache' \in {cache, backup, None}
             \/ job[u].pc \in Renaming /\ cache' = job[u].tmp,
             backup' \in {backup, cache, None}
      PROVE  WholeInv'
  <2>1. \A v \in Updates : WholeJob(job[v])'
    BY <1>1 DEF OneUpdate
  <2>2. cache' # None => Full(cache')
    BY <1>0, <1>1 DEF WholeJob
  <2> QED BY <1>0, <1>1, <2>1, <2>2 DEF WholeInv, AllPlatforms, Full
\* Jobs without a directory.
<1>2. ASSUME NEW u \in Updates, job'[u].pc \in {"idle", "restore", "drop"}
      PROVE  WholeJob(job[u])'
  BY <1>2 DEF WholeJob, Renaming
\* A verified directory goes on.
<1>3. ASSUME NEW u \in Updates, job[u].pc \in {"verify"} \cup Renaming,
             job'[u].tmp = job[u].tmp, job'[u].pc \in Renaming
      PROVE  WholeJob(job[u])'
  BY <1>0, <1>3 DEF WholeJob, Renaming, Full
<1>4. ASSUME NEW u \in Updates, Begin(u) PROVE WholeInv'
  <2>1. job'[u] = [pc |-> "sum", at |-> 1, tmp |-> Empty, done |-> {}]
    BY <1>0, <1>4 DEF Begin, Goto
  <2>2. WholeJob(job[u])'
    BY <2>1 DEF WholeJob, Renaming
  <2> QED BY <1>1, <1>4, <2>2 DEF Begin
<1>5. ASSUME NEW u \in Updates, FetchSum(u) PROVE WholeInv'
  <2>1. job[u].pc = "sum" /\ job[u].at \in Platforms
    BY <1>0, <1>5, JobShape DEF FetchSum
  <2>2. /\ job'[u].pc = IF Reusable(job[u].at) THEN "copy" ELSE "binary"
        /\ job'[u].at = job[u].at /\ job'[u].tmp = job[u].tmp
        /\ cache' = cache
    BY <1>0, <1>5 DEF FetchSum, Goto
  <2>3. Reusable(job[u].at) => cache # None /\ cache[job[u].at] # NoFiles
    <3>1. release # None
      BY CacheAssumption DEF CacheTypeOK, Releases
    <3> QED BY <3>1 DEF Reusable, NoFiles
  <2>4. \A p \in 1..(job[u].at - 1) : job[u].tmp[p] # NoFiles
    BY <1>0, <2>1 DEF WholeJob
  <2>5. WholeJob(job[u])'
    BY <2>2, <2>3, <2>4 DEF WholeJob, Renaming
  <2> QED BY <1>1, <1>5, <2>5 DEF FetchSum
<1>6. ASSUME NEW u \in Updates, Copy(u) PROVE WholeInv'
  <2>1. /\ job[u].pc = "copy" /\ job[u].at \in Platforms
        /\ cache # None /\ cache[job[u].at] # NoFiles
    BY <1>0, <1>6, JobShape DEF Copy, WholeJob
  <2>2. cache[job[u].at].bin \in Releases \cup {Torn}
    BY <2>1 DEF CacheTypeOK, Directory, Files
  <2>3. Complete(u, cache[job[u].at].bin)
    BY <1>6, <2>1 DEF Copy
  <2> QED BY <1>0, <1>1, <1>6, <2>1, <2>2, <2>3, CompleteWhole DEF Copy
<1>7. ASSUME NEW u \in Updates, FetchBinary(u) PROVE WholeInv'
  <2>1. release \in Releases \cup {Torn}
    BY DEF CacheTypeOK
  <2> QED BY <1>0, <1>1, <1>7, <2>1, CompleteWhole DEF FetchBinary
<1>8. ASSUME NEW u \in Updates, Verify(u) PROVE WholeInv'
  <2>1. \/ job'[u] = [pc |-> "stat", tmp |-> job[u].tmp]
        \/ job'[u] = Idle
    BY <1>0, <1>8 DEF Verify, Goto
  <2>2. WholeJob(job[u])'
    BY <1>2, <1>3, <1>8, <2>1, IdleJob DEF Verify, Renaming
  <2> QED BY <1>1, <1>8, <2>2 DEF Verify
<1>9. ASSUME NEW u \in Updates, Stat(u) PROVE WholeInv'
  <2>1. job[u].pc \in Renaming /\ job[u] \in Jobs
    BY <1>0, <1>9 DEF Stat, Renaming
  <2>2. \E pc \in Renaming : job'[u] = [pc |-> pc, tmp |-> job[u].tmp]
    BY <1>0, <1>9, <2>1, RenamingGoesOn DEF Stat, Goto, Renaming
  <2>3. WholeJob(job[u])'
    BY <1>3, <2>1, <2>2
  <2> QED BY <1>1, <1>9, <2>3 DEF Stat
<1>10. ASSUME NEW u \in Updates, MoveAside(u) PROVE WholeInv'
  <2>1. job[u].pc \in Renaming /\ job[u] \in Jobs /\ "install" \in Renaming
    BY <1>0, <1>10 DEF MoveAside, Renaming
  <2>2. \/ job'[u] = [pc |-> "install", tmp |-> job[u].tmp]
        \/ job'[u] = Idle
    BY <1>0, <1>10, <2>1, RenamingGoesOn DEF MoveAside, Goto
  <2>3. WholeJob(job[u])'
    BY <1>2, <1>3, <2>1, <2>2, IdleJob
  <2> QED BY <1>1, <1>10, <2>3 DEF MoveAside
<1>11. ASSUME NEW u \in Updates, Install(u) PROVE WholeInv'
  <2>1. job'[u].pc \in {"restore", "drop"}
    BY <1>0, <1>11 DEF Install, Goto
  <2> QED BY <1>1, <1>2, <1>11, <2>1 DEF Install, Renaming
<1>12. ASSUME NEW u \in Updates, Restore(u) \/ Drop(u) PROVE WholeInv'
  <2>1. job'[u] = Idle
    BY <1>0, <1>12 DEF Restore, Drop, Goto
  <2> QED BY <1>1, <1>2, <1>12, <2>1, IdleJob DEF Restore, Drop
<1>13. CASE Publish \/ UNCHANGED cacheVars
  BY <1>0, <1>13 DEF Publish, cacheVars, WholeInv, AllPlatforms, WholeJob, Full
<1> QED BY <1>4, <1>5, <1>6, <1>7, <1>8, <1>9, <1>10, <1>11, <1>12, <1>13
        DEF CalmNext, Step

\* With the network and the disk in order and one update at a time, whatever
\* is published between its downloads, no platform is ever missing.
THEOREM SoleUpdateComplete == ASSUME OneUpdate PROVE CalmSpec => []AllPlatforms
<1>1. CacheInit => WholeInv
  BY IdleJob DEF CacheInit, WholeInv, AllPlatforms, WholeJob, Renaming
<1>2. CalmSpec => CacheSpec
  <2>1. [CalmNext]_cacheVars => [CacheNext]_cacheVars
    BY DEF CacheNext
  <2> QED BY <2>1, PTL DEF CalmSpec, CacheSpec
<1>3. WholeInv => AllPlatforms
  BY DEF WholeInv
<1> QED BY <1>1, <1>2, <1>3, WholeStep, CacheTypeCorrect, PTL DEF CalmSpec
=============================================================================
