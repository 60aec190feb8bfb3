----------------------------- MODULE BinaryCache -----------------------------
(***************************************************************************)
(* internal/binary and its callers in internal/server/binary.go: the       *)
(* directory of client binaries that /bin/ serves and /<port> lists.       *)
(*                                                                         *)
(*   updates   - Update, run by the ticker of startBinaryUpdater and by    *)
(*               each "lrs binary update"; no lock keeps them apart;       *)
(*   upstream  - where the binaries come from; publishes at any moment;    *)
(*   faults    - downloads and copies that fail, crashes.                  *)
(*                                                                         *)
(* A path is looked up when it is used: what the names of the cache and of *)
(* its backup lead to may change between two steps of an update.           *)
(***************************************************************************)
EXTENDS Naturals

CONSTANTS
    NPlatforms,     \* len(defaultPlatforms)
    MaxRelease,     \* bound on the releases upstream publishes
    Updates,        \* goroutines that run Update
    Ticker,         \* the one that startBinaryUpdater runs
    MaxCrashes,     \* bound on crashes
    None,           \* no file, no directory
    Torn            \* a file that was not written to its end

ASSUME CacheAssumption ==
    /\ NPlatforms \in Nat \ {0}
    /\ MaxRelease \in Nat \ {0}
    /\ MaxCrashes \in Nat
    /\ Ticker \in Updates
    /\ None \notin Nat /\ Torn \notin Nat /\ None # Torn

Platforms == 1..NPlatforms
Releases  == 1..MaxRelease

\* lrc-<platform>.sha256 and lrc-<platform>.  The checksum of a release's
\* binary is identified with the release; nothing has the checksum of Torn.
\* A checksum file without its binary is never looked at, and left out.
NoFiles   == [sum |-> None, bin |-> None]
Files     == [sum : Releases, bin : Releases \cup {Torn}] \cup {NoFiles}
Directory == [Platforms -> Files]

ASSUME DirectoryAssumption == None \notin Directory

Empty == [p \in Platforms |-> NoFiles]

VARIABLES
    release,    \* what upstream serves now
    cache,      \* c.dir
    backup,     \* c.dir + ".old"
    job,        \* update -> its local state
    crashes

cacheVars == <<release, cache, backup, job, crashes>>
diskVars  == <<release, cache, backup, crashes>>

\* tmp is the directory of MkdirTemp, done the list "downloaded", and sum the
\* checksum just downloaded.
Idle == [pc |-> "idle"]
Jobs == {Idle}
    \cup [pc : {"sum"}, at : Platforms, tmp : Directory, done : SUBSET Platforms]
    \cup [pc : {"copy", "binary"}, at : Platforms, sum : Releases,
          tmp : Directory, done : SUBSET Platforms]
    \cup [pc : {"verify"}, tmp : Directory, done : SUBSET Platforms]
    \cup [pc : {"stat", "aside", "install"}, tmp : Directory]
    \cup [pc : {"restore", "drop"}]

Goto(u, j) == job' = [job EXCEPT ![u] = j]

CacheInit ==
    /\ release = 1
    /\ cache = None
    /\ backup = None
    /\ job = [u \in Updates |-> Idle]
    /\ crashes = 0

-----------------------------------------------------------------------------
(* Update: the downloads, platform after platform.  One that fails is      *)
(* skipped, and what it has left in the directory stays there.             *)

Begin(u) ==
    /\ job[u] = Idle
    /\ Goto(u, [pc |-> "sum", at |-> 1, tmp |-> Empty, done |-> {}])
    /\ UNCHANGED diskVars

\* On to the next platform, with these files of the present one.
Follow(u, files, done) ==
    LET j   == job[u]
        tmp == [j.tmp EXCEPT ![j.at] = files] IN
    Goto(u, IF j.at < NPlatforms
            THEN [pc |-> "sum", at |-> j.at + 1, tmp |-> tmp, done |-> done]
            ELSE [pc |-> "verify", tmp |-> tmp, done |-> done])

Skip(u, files)   == Follow(u, files, job[u].done)
Complete(u, bin) == Follow(u, [sum |-> job[u].sum, bin |-> bin],
                           job[u].done \cup {job[u].at})

\* The local binary may be reused: it matches its checksum and the new one.
ReusableUnverified(p) ==                                          \* mutant
    cache # None /\ cache[p] # NoFiles /\ cache[p].sum = release
Reusable(p) == cache # None /\ cache[p] = [sum |-> release, bin |-> release]

FetchSum(u) ==
    /\ job[u].pc = "sum"
    /\ LET j == job[u] IN
       Goto(u, [pc  |-> IF Reusable(j.at) THEN "copy" ELSE "binary",
                at  |-> j.at, sum |-> release, tmp |-> j.tmp, done |-> j.done])
    /\ UNCHANGED diskVars

CreateBeforeOpen(u) ==                                            \* mutant
    /\ job[u].pc = "copy"
    /\ IF cache = None THEN Skip(u, NoFiles) ELSE Complete(u, cache[job[u].at].bin)
    /\ UNCHANGED diskVars

\* copyFile opens whatever its path leads to by now, which need not be what
\* was compared; with no file there it fails before it creates one.
Copy(u) ==
    /\ job[u].pc = "copy"
    /\ IF cache = None \/ cache[job[u].at] = NoFiles
       THEN Skip(u, NoFiles)
       ELSE Complete(u, cache[job[u].at].bin)
    /\ UNCHANGED diskVars

FetchBinary(u) ==
    /\ job[u].pc = "binary"
    /\ Complete(u, release)
    /\ UNCHANGED diskVars

FetchFails(u) ==
    /\ job[u].pc \in {"sum", "binary"}
    /\ Skip(u, NoFiles)
    /\ UNCHANGED diskVars

\* A copy cut short leaves the file as far as it was written, and so does a
\* download whose file cannot be closed.
CutShort(u) ==
    /\ job[u].pc \in {"copy", "binary"}
    /\ Skip(u, [sum |-> job[u].sum, bin |-> Torn])
    /\ UNCHANGED diskVars

-----------------------------------------------------------------------------
(* Update: the swap, a system call at a time.  RemoveAll is one step.      *)

Unverified(j) == j.done # {}                                      \* mutant
Verified(j)   == /\ j.done # {}
                 /\ \A p \in j.done : j.tmp[p].bin = j.tmp[p].sum

\* Nothing downloaded or a wrong checksum ends the update; otherwise the
\* backup of an earlier one is removed.
Verify(u) ==
    /\ job[u].pc = "verify"
    /\ IF Verified(job[u])
       THEN /\ backup' = None
            /\ Goto(u, [pc |-> "stat", tmp |-> job[u].tmp])
       ELSE /\ UNCHANGED backup
            /\ Goto(u, Idle)
    /\ UNCHANGED <<release, cache, crashes>>

Stat(u) ==
    /\ job[u].pc = "stat"
    /\ Goto(u, [job[u] EXCEPT !.pc = IF cache = None THEN "install" ELSE "aside"])
    /\ UNCHANGED diskVars

\* Another update may have moved the directory, or made a backup: rename does
\* not replace a directory that holds files.
MoveAside(u) ==
    /\ job[u].pc = "aside"
    /\ IF cache # None /\ backup = None
       THEN /\ backup' = cache
            /\ cache' = None
            /\ Goto(u, [job[u] EXCEPT !.pc = "install"])
       ELSE /\ UNCHANGED <<cache, backup>>
            /\ Goto(u, Idle)
    /\ UNCHANGED <<release, crashes>>

InstallClearing(u) ==                                             \* mutant
    /\ job[u].pc = "install"
    /\ IF cache = None
       THEN cache' = job[u].tmp /\ Goto(u, [pc |-> "drop"])
       ELSE cache' = None /\ Goto(u, [pc |-> "restore"])
    /\ UNCHANGED <<release, backup, crashes>>

Install(u) ==
    /\ job[u].pc = "install"
    /\ IF cache = None
       THEN cache' = job[u].tmp /\ Goto(u, [pc |-> "drop"])
       ELSE UNCHANGED cache /\ Goto(u, [pc |-> "restore"])
    /\ UNCHANGED <<release, backup, crashes>>

Restore(u) ==
    /\ job[u].pc = "restore"
    /\ IF cache = None /\ backup # None
       THEN cache' = backup /\ backup' = None
       ELSE UNCHANGED <<cache, backup>>
    /\ Goto(u, Idle)
    /\ UNCHANGED <<release, crashes>>

Drop(u) ==
    /\ job[u].pc = "drop"
    /\ backup' = None
    /\ Goto(u, Idle)
    /\ UNCHANGED <<release, cache, crashes>>

-----------------------------------------------------------------------------
Publish ==
    /\ release < MaxRelease
    /\ release' = release + 1
    /\ UNCHANGED <<cache, backup, job, crashes>>

\* Temporary directories stay behind for good.
Crash ==
    /\ crashes < MaxCrashes
    /\ crashes' = crashes + 1
    /\ job' = [u \in Updates |-> Idle]
    /\ UNCHANGED <<release, cache, backup>>

Step(u) ==
    \/ FetchSum(u)
    \/ Copy(u)
    \/ FetchBinary(u)
    \/ Verify(u)
    \/ Stat(u)
    \/ MoveAside(u)
    \/ Install(u)
    \/ Restore(u)
    \/ Drop(u)

Fault(u) == FetchFails(u) \/ CutShort(u)

\* Network and disk in order, and no crash.
CalmNext == (\E u \in Updates : Begin(u) \/ Step(u)) \/ Publish

CacheNext ==
    \/ CalmNext
    \/ \E u \in Updates : Fault(u)
    \/ Crash

\* An update that has begun goes on, and the ticker ticks; nobody has to ask
\* for another update.
CacheSpec     == CacheInit /\ [][CacheNext]_cacheVars
CalmSpec      == CacheInit /\ [][CalmNext]_cacheVars
CacheFairSpec == /\ CacheSpec
                 /\ \A u \in Updates : WF_cacheVars(Step(u) \/ Fault(u))
                 /\ WF_cacheVars(Begin(Ticker))

-----------------------------------------------------------------------------
(* Properties.                                                             *)

\* What the disk and the updates hold (type invariant).
CacheTypeOK ==
    /\ release \in Releases
    /\ cache \in Directory \cup {None}
    /\ backup \in Directory \cup {None}
    /\ job \in [Updates -> Jobs]
    /\ crashes \in 0..MaxCrashes

\* "Verify every checksum before moving anything into place" (cache.go:87):
\* whatever is on offer is the binary that its checksum file is about.
Vouched(d) == \A p \in Platforms : d[p] # NoFiles => d[p].bin = d[p].sum
VisibleVerified == cache # None => Vouched(cache)

\* What is left of it when a copy may be cut short: a binary on offer is never
\* one of another release than its checksum file, also when upstream published
\* between the two downloads, or another update replaced the directory that a
\* binary was reused from.  It may still be torn.
Matching(d) == \A p \in Platforms :
    d[p] # NoFiles => d[p].bin \in {d[p].sum, Torn}
VisibleUnmixed == cache # None => Matching(cache)

\* The directory is never lost by a step of an update, however many run at
\* once and whatever they leave behind: it goes missing only when an update is
\* about to put a new one in its place, and while that one has not, nothing
\* but a crash ends it.
Swapping == \E u \in Updates : job[u].pc = "install"
Offered  == cache # None \/ Swapping
StaysOffered == Offered /\ crashes' = crashes => Offered'
Available == [][StaysOffered]_cacheVars

\* With the network and the disk in order and the ticker left alone, the cache
\* is there again and again, and in the end it never shows anything but the
\* latest release, on every platform: whatever torn, skipped or missing files
\* earlier faults, crashes and colliding updates have left.
Settled == <>[][\A u \in Updates : ~Fault(u) /\ (u # Ticker => ~Begin(u))]_cacheVars
Latest(d) == \A p \in Platforms : d[p] = [sum |-> release, bin |-> release]
Converges == Settled => /\ []<>(cache # None)
                        /\ <>[](cache # None => Latest(cache))

\* "Update downloads all platform binaries": with the network and the disk in
\* order the directory lacks none of them (cache.go:53, under CalmSpec).
AllPlatforms == cache # None => \A p \in Platforms : cache[p] # NoFiles
=============================================================================
