-------------------------- MODULE GitHubTransport --------------------------
(***************************************************************************)
(* The GitHub transport (apc-transport-github): protected objects are      *)
(* files named by the digest of their bytes, a publication is one commit   *)
(* on the branch made by compare-and-swap on its head, and a fetch walks   *)
(* from the head it read back to the commit the caller knows.              *)
(*                                                                         *)
(* The repository (external) keeps immutable commits and a branch head     *)
(* that other writers move too: they add unrelated files, change or remove *)
(* objects, merge, and reset or delete the branch.  Every API call of a    *)
(* fetch is a step of its own, so the branch may move during the walk.     *)
(***************************************************************************)
EXTENDS Integers, Sequences, FiniteSets, Functions

CONSTANTS
    Client,
    ObjectsOf,             \* ObjectsOf[c]: the protected objects c seals
    NoHead,                \* the branch does not exist; no cursor
    MaxIncrementalCommits, \* max_incremental_commits
    MaxCommits,            \* bound: commits in the repository
    MaxOutside             \* bound: steps of other writers

ASSUME TransportAssumption ==
    /\ NoHead \notin Nat
    /\ MaxIncrementalCommits \in Nat \ {0}
    /\ MaxCommits \in Nat \ {0} /\ MaxOutside \in Nat

VARIABLES
    commits,      \* the repository: oid -> parents, changes, files of its tree,
                  \* and, as history, what its author published again in it
    branch,       \* the branch head
    known,        \* known[c]: the cursor c applied last
    have,         \* have[c]: the objects c published or received
    call,         \* call[c]: where c is in fetch_since
    answer,       \* answer[c]: what its last call returned
    outside       \* steps of other writers so far

vars == <<commits, branch, known, have, call, answer, outside>>

Oids == DOMAIN commits
NextOid == Cardinality(Oids) + 1
Idle == [step |-> "idle"]

\* Files: path -> bytes.  The path of an object is the digest of its bytes, so
\* two objects never share one.
NoFiles == [p \in {} |-> p]
Objects == UNION Range(ObjectsOf)

\* A seeded fault: all objects go to one path.
OnePath(bytes) == CHOOSE o \in Objects : TRUE

ObjectPath(bytes) == bytes

\* What git lists as a commit's changes against its first parent.  (It may
\* list a removal and an addition as a rename: that is no "Added" either.)
Changes(before, after) ==
    { [path |-> p, kind |-> "Added"]    : p \in DOMAIN after \ DOMAIN before } \cup
    { [path |-> p, kind |-> "Removed"]  : p \in DOMAIN before \ DOMAIN after } \cup
    { [path |-> p, kind |-> "Modified"] :
          p \in { q \in DOMAIN before \cap DOMAIN after : before[q] # after[q] } }

FilesAt(head) == IF head = NoHead THEN NoFiles ELSE commits[head].files

CommitOf(message, parents, files) ==
    [ message |-> message, parents |-> parents, files |-> files, again |-> {},
      changes |-> Changes(IF parents = <<>> THEN NoFiles ELSE FilesAt(parents[1]), files) ]

\* A commit is created and the branch moves to it.
AddCommit(commit) ==
    /\ NextOid <= MaxCommits
    /\ commits' = [o \in Oids \cup {NextOid} |-> IF o = NextOid THEN commit ELSE commits[o]]
    /\ branch' = NextOid

\* The branch has an initial commit, or does not exist yet.
Init ==
    /\ commits = [o \in {1} |->
                    [ message |-> "other", parents |-> <<>>, files |-> NoFiles,
                      again |-> {}, changes |-> {} ]]
    /\ branch \in {1, NoHead}
    /\ known \in [Client -> {branch, NoHead}]
    /\ have = [c \in Client |-> {}]
    /\ call = [c \in Client |-> Idle]
    /\ answer = [c \in Client |-> "none"]
    /\ outside = 0

Answer(c, result) ==
    /\ answer' = [answer EXCEPT ![c] = result]
    /\ call' = [call EXCEPT ![c] = Idle]

-----------------------------------------------------------------------------
(* fetch_since *)

FetchStart(c) ==
    /\ call[c] = Idle
    /\ \/ branch = known[c] /\ Answer(c, "UpToDate")
       \/ /\ branch # known[c]
          /\ known[c] = NoHead \/ branch = NoHead
          /\ Answer(c, "BaselineUnavailable")
       \/ /\ branch # known[c]
          /\ known[c] # NoHead /\ branch # NoHead
          /\ call' = [call EXCEPT ![c] =
                [step |-> "walk", head |-> branch, cursor |-> branch, range |-> <<>>]]
          /\ answer' = [answer EXCEPT ![c] = "none"]
    /\ UNCHANGED <<commits, branch, known, have, outside>>

Walking(c) == call[c].step = "walk" /\ call[c].cursor # known[c]

\* A seeded fault: the limit is tested one commit too late.
LimitReachedLate(c) == Len(call[c].range) > MaxIncrementalCommits

LimitReached(c) == Len(call[c].range) >= MaxIncrementalCommits

\* The walk gives up: the range is too long, or a commit on it is a merge or
\* a root.
WalkGivesUp(c) ==
    /\ Walking(c)
    /\ LimitReached(c) \/ Len(commits[call[c].cursor].parents) # 1
    /\ Answer(c, "BaselineUnavailable")
    /\ UNCHANGED <<commits, branch, known, have, outside>>

\* commit_info of the cursor, and on to its parent.
WalkOn(c) ==
    /\ Walking(c)
    /\ ~LimitReached(c)
    /\ Len(commits[call[c].cursor].parents) = 1
    /\ call' = [call EXCEPT ![c].cursor = commits[@].parents[1],
                            ![c].range = Append(@, call[c].cursor)]
    /\ UNCHANGED <<commits, branch, known, have, answer, outside>>

\* The changes to objects in the range.
RangeChanges(c) == UNION { commits[o].changes : o \in Range(call[c].range) }

\* No object was changed, removed, or added twice.
Immutable(c) ==
    /\ \A change \in RangeChanges(c) : change.kind = "Added"
    /\ \A i, j \in DOMAIN call[c].range :
          i # j => commits[call[c].range[i]].changes \cap commits[call[c].range[j]].changes = {}

\* read_file_at each added path, at the commit that added it.
ReadAt(o) ==
    { commits[o].files[p] : p \in { change.path : change \in commits[o].changes } }

RangeObjects(c) == UNION { ReadAt(o) : o \in Range(call[c].range) }

\* The names of the files are the digests of what is in them.
PathsMatch(c) ==
    \A o \in Range(call[c].range) : \A change \in commits[o].changes :
        ObjectPath(commits[o].files[change.path]) = change.path

WalkEnded(c) == call[c].step = "walk" /\ call[c].cursor = known[c]

\* Changed: the caller applies the objects and takes the head the walk began
\* at as its cursor (CursorNeverOutrunsState is about how).
FetchChanged(c) ==
    /\ WalkEnded(c)
    /\ Immutable(c) /\ PathsMatch(c)
    /\ have' = [have EXCEPT ![c] = @ \cup RangeObjects(c)]
    /\ known' = [known EXCEPT ![c] = call[c].head]
    /\ Answer(c, "Changed")
    /\ UNCHANGED <<commits, branch, outside>>

\* ImmutableObjectViolation, ObjectPathMismatch
FetchRefused(c) ==
    /\ WalkEnded(c)
    /\ ~(Immutable(c) /\ PathsMatch(c))
    /\ Answer(c, "Refused")
    /\ UNCHANGED <<commits, branch, known, have, outside>>

\* An API call of a fetch, or of a publish that has no effect, fails: the
\* caller keeps its cursor.
CallFails(c) ==
    /\ Answer(c, "Api")
    /\ UNCHANGED <<commits, branch, known, have, outside>>

-----------------------------------------------------------------------------
(* publish, at the caller's cursor *)

PublishWithoutCursor(c) ==
    /\ call[c] = Idle
    /\ known[c] = NoHead
    /\ Answer(c, IF branch = NoHead THEN "BranchUninitialized" ELSE "Conflict")
    /\ UNCHANGED <<commits, branch, known, have, outside>>

\* The files a commit of some objects on a head has.
WithObjects(head, objects) ==
    LET additions == { ObjectPath(o) : o \in objects }
    IN  [p \in DOMAIN FilesAt(head) \cup additions |->
            IF p \in additions THEN CHOOSE o \in objects : ObjectPath(o) = p
            ELSE FilesAt(head)[p]]

\* A path that is added again with the bytes it has: git, whose trees do not
\* differ there, lists nothing, and the two implementations of GitHubApi in the
\* repository, both in tests, list it as Modified.  Either may happen.
Listings(before, after, additions) ==
    { Changes(before, after) \cup { [path |-> p, kind |-> "Modified"] : p \in relisted } :
          relisted \in {{}, additions \cap DOMAIN before} }

\* The commits that a publication of c may be.
Publications(c, head, objects) ==
    { [ message |-> "publication", parents |-> <<head>>, files |-> WithObjects(head, objects),
        again |-> objects \cap have[c], changes |-> changes ] :
          changes \in Listings(FilesAt(head), WithObjects(head, objects),
                              { ObjectPath(o) : o \in objects }) }

\* A seeded fault: the commit goes on whatever head the branch has.
PublishOnAnyHead(c, objects) ==
    /\ call[c] = Idle
    /\ known[c] # NoHead /\ branch # NoHead
    /\ \E commit \in Publications(c, branch, objects) : AddCommit(commit)
    /\ known' = [known EXCEPT ![c] = NextOid]
    /\ have' = [have EXCEPT ![c] = @ \cup objects]
    /\ Answer(c, "Published")
    /\ UNCHANGED outside

\* create_commit_on_branch with expected_head.
PublishCreated(c, objects) ==
    /\ call[c] = Idle
    /\ known[c] # NoHead
    /\ branch = known[c]
    /\ \E commit \in Publications(c, known[c], objects) : AddCommit(commit)
    /\ known' = [known EXCEPT ![c] = NextOid]
    /\ have' = [have EXCEPT ![c] = @ \cup objects]
    /\ Answer(c, "Published")
    /\ UNCHANGED outside

\* The same, but the answer is lost, or names the expected head
\* (InvalidCreatedHead): the caller keeps its cursor and will try again.
PublishUnanswered(c, objects) ==
    /\ call[c] = Idle
    /\ known[c] # NoHead
    /\ branch = known[c]
    /\ \E commit \in Publications(c, known[c], objects) : AddCommit(commit)
    /\ Answer(c, "Api")
    /\ UNCHANGED <<known, have, outside>>

\* HeadChanged
PublishConflict(c) ==
    /\ call[c] = Idle
    /\ known[c] # NoHead
    /\ branch # known[c]
    /\ Answer(c, "Conflict")
    /\ UNCHANGED <<commits, branch, known, have, outside>>

-----------------------------------------------------------------------------
(* Other writers of the repository *)

Outside ==
    /\ outside < MaxOutside
    /\ outside' = outside + 1
    /\ UNCHANGED <<known, have, call, answer>>

\* A commit that changes no object, an initial one when there is no branch.
OutsideCommit ==
    /\ Outside
    /\ AddCommit(CommitOf("other", IF branch = NoHead THEN <<>> ELSE <<branch>>, FilesAt(branch)))

OutsideRemoves ==
    /\ Outside
    /\ \E p \in DOMAIN FilesAt(branch) :
          AddCommit(CommitOf("other", <<branch>>, [q \in DOMAIN FilesAt(branch) \ {p} |-> FilesAt(branch)[q]]))

\* A file is written under a name that may not be its digest.
OutsideWrites ==
    /\ Outside
    /\ branch # NoHead
    /\ \E p, bytes \in Objects :
          /\ p \in DOMAIN FilesAt(branch) => FilesAt(branch)[p] # bytes
          /\ AddCommit(CommitOf("other", <<branch>>,
                [q \in DOMAIN FilesAt(branch) \cup {p} |->
                    IF q = p THEN bytes ELSE FilesAt(branch)[q]]))

OutsideMerges ==
    /\ Outside
    /\ branch # NoHead
    /\ \E other \in Oids \ {branch} :
          AddCommit(CommitOf("other", <<branch, other>>,
              [p \in DOMAIN FilesAt(branch) \cup DOMAIN FilesAt(other) |->
                  IF p \in DOMAIN FilesAt(branch) THEN FilesAt(branch)[p] ELSE FilesAt(other)[p]]))

OutsideResets ==
    /\ Outside
    /\ branch' \in (Oids \cup {NoHead}) \ {branch}
    /\ UNCHANGED commits

Next ==
    \/ \E c \in Client :
          \/ FetchStart(c)
          \/ WalkGivesUp(c)
          \/ WalkOn(c)
          \/ FetchChanged(c)
          \/ FetchRefused(c)
          \/ CallFails(c)
          \/ PublishWithoutCursor(c)
          \/ PublishConflict(c)
          \/ \E objects \in (SUBSET ObjectsOf[c]) \ {{}} :
                PublishCreated(c, objects) \/ PublishUnanswered(c, objects)
    \/ OutsideCommit
    \/ OutsideRemoves
    \/ OutsideWrites
    \/ OutsideMerges
    \/ OutsideResets

Spec == Init /\ [][Next]_vars

-----------------------------------------------------------------------------
(* Properties *)

\* A client has every object its cursor stands for: whatever the branch did
\* while the walk was under way, and whatever others committed before a
\* publish, the cursor never passes an object that was not delivered.
CursorIsCovered ==
    \A c \in Client : known[c] # NoHead => Range(FilesAt(known[c])) \subseteq have[c]

\* A commit with one parent, and that parent.
Single(o) == Len(commits[o].parents) = 1
Parent(o) == commits[o].parents[1]

\* n steps from a commit with one parent to that parent lead from a head to an
\* older commit.
LeadsTo(head, older, n) ==
    \E path \in [0 .. n -> Oids] :
        /\ path[0] = head /\ path[n] = older
        /\ \A i \in 0 .. n - 1 : Single(path[i]) /\ path[i + 1] = Parent(path[i])

\* The limit is exact: a walk is given up only when no chain of at most
\* max_incremental_commits single-parent commits leads to the cursor, and a
\* range is delivered or refused only when one does.
LimitIsExact ==
    [][ \A c \in Client :
          (call[c].step = "walk" /\ call'[c] = Idle) =>
              LET near == \E n \in 0 .. MaxIncrementalCommits : LeadsTo(call[c].head, known[c], n)
              IN  /\ answer'[c] = "BaselineUnavailable" => ~near
                  /\ answer'[c] \in {"Changed", "Refused"} => near
      ]_vars

\* Another writer touched objects in this commit.
Tampered(o) == commits[o].message # "publication" /\ commits[o].changes # {}

\* A client published in this commit an object that it had already published
\* or received.
Repeated(o) == commits[o].again # {}

\* A range is refused only when another writer touched an object in it, or a
\* client published in it an object that the client had been delivered, or had
\* published with an answer.  Concurrent publications, lost answers and their
\* retries at the old cursor never make one.  The second cause is real where
\* the API lists an unchanged path as Modified: fetch_since then refuses the
\* range to everybody.  That the runtime does not publish such an object is
\* SyncRuntime's PublishedAtMostOnce.
RefusedOnlyForCause ==
    [][ \A c \in Client :
          (call[c].step = "walk" /\ answer'[c] = "Refused") =>
              \E o \in Range(call[c].range) : Tampered(o) \/ Repeated(o)
      ]_vars

=============================================================================
