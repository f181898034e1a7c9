------------------------------- MODULE Files -------------------------------
(***************************************************************************)
(* The tools of the Mac server that look at files: list a directory,       *)
(* search a tree, read a file, outline a project and find the repository   *)
(* of a directory, all behind one policy (nexus_mac_mcp/core/filesystem.py *)
(* and tools/files.py, workspace.py, git.py).                              *)
(*                                                                         *)
(* Entries are numbered in the order of their names, which matters only    *)
(* within a directory; what a name says, that it matches, holds            *)
(* credentials or is passed over, is a set. A step of a walk is one        *)
(* directory; between two steps the disk may change.                       *)
(***************************************************************************)
EXTENDS Naturals, Sequences, FiniteSets, SequencesExt

CONSTANTS
    Entries,    \* the entries of the disk, numbers
    Parent,     \* Parent[e]: the directory e is in, or Top
    Above,      \* Above[e]: e and the directories it is in
    Kinds,      \* what each entry may be: functions to "directory", "file",
                \* "symlink", "other"
    Target,     \* Target[e]: what e resolves to, itself unless a symlink
    Roots,      \* the allowed roots
    Denied,     \* directories no path may go through
    Matching,   \* entries whose name contains the query
    Secret,     \* entries whose name says they hold credentials
    Skipped,    \* directories passed over by name
    Unreadable, \* directories whose permissions do not let them be listed
    Repository, \* directories that hold a .git
    MaxBytes,   \* the largest file that is read
    Policies,   \* what the environment may set: records [entries, matches,
                \* depth, visits, queue, overview]
    Gone        \* an entry that is not there, no answer

VARIABLES
    limits, \* the policy, read once for the process
    kind,  \* kind[e]: what e is now, or Gone
    size,  \* size[e]: the size of a file
    job,   \* the call
    calm   \* history: nothing has changed since the call began

filesVars == <<limits, kind, size, job, calm>>

EntryKinds == {"directory", "file", "symlink", "other"}

\* The entries are a forest; a limit that is not positive is replaced by its
\* default (_env_int).
ASSUME FilesAssumption ==
    /\ IsFiniteSet(Entries) /\ Entries \subseteq Nat /\ MaxBytes \in Nat
    /\ \A e \in Entries :
        IF Parent[e] \in Entries
        THEN Above[e] = {e} \cup Above[Parent[e]] /\ e \notin Above[Parent[e]] /\ Above[e] \subseteq Entries
        ELSE Above[e] = {e}
    /\ Kinds \subseteq [Entries -> EntryKinds]
    /\ Target \in [Entries -> Entries]
    /\ Gone \notin Entries
    /\ Policies \subseteq [entries : Nat \ {0}, matches : Nat \ {0}, depth : Nat \ {0}, visits : Nat \ {0},
                     queue : Nat \ {0}, overview : Nat \ {0}]

There(e) == \A d \in Above[e] : kind[d] # Gone /\ (d # e => kind[d] = "directory")

Inside(d) == {e \in Entries : Parent[e] = d /\ There(e)}

\* What iterdir gives a walk, which goes on whatever the reason it fails.
Scanned(d) == IF There(d) /\ d \notin Unreadable THEN Inside(d) ELSE {}

\* The elements of S, each after those before it.
Ascending(S) ==
    [r \in 1..Cardinality(S) |-> CHOOSE e \in S : Cardinality({f \in S : f < e}) = r - 1]

FirstOf(n, s) == SubSeq(s, 1, IF Len(s) < n THEN Len(s) ELSE n)

(***************************************************************************)
(* The policy (core/filesystem.py).                                        *)
(***************************************************************************)

IsAllowedPath(e) == Above[e] \cap Denied = {} /\ Above[e] \cap Roots # {}

\* What a path names, or Gone when it is refused: it is resolved first, must
\* be allowed, exist, and be of the kind the tool wants.
ResolveSafePath(path, wanted) ==
    LET e == Target[path]
    IN  IF There(path) /\ There(e) /\ IsAllowedPath(e) /\ kind[e] = wanted THEN e ELSE Gone

(***************************************************************************)
(* One directory of a walk.                                                *)
(***************************************************************************)

\* variant: a directory at the depth limit is walked too
SearchDeeper(w, child, depth) ==
    LET found == IF child \in Matching THEN Append(w.found, child) ELSE w.found
        full == child \in Matching /\ Len(found) >= limits.matches
        enter == kind[child] = "directory" /\ depth <= limits.depth /\ child \notin Skipped
    IN  CASE w.stop -> w
          [] ~w.stop /\ full -> [w EXCEPT !.found = found, !.truncated = TRUE, !.queue = <<>>, !.stop = TRUE]
          [] OTHER -> [w EXCEPT !.found = found,
                                !.queue = IF enter /\ Len(@) < limits.queue THEN Append(@, <<child, depth + 1>>) ELSE @,
                                !.truncated = @ \/ Len(w.queue) >= limits.queue]

\* search_files at a child: a match is kept, the last allowed one ends the
\* walk, and a directory that is neither a link nor passed over is queued.
SearchChild(w, child, depth) ==
    LET found == IF child \in Matching THEN Append(w.found, child) ELSE w.found
        full == child \in Matching /\ Len(found) >= limits.matches
        enter == kind[child] = "directory" /\ depth + 1 <= limits.depth /\ child \notin Skipped
    IN  CASE w.stop -> w
          [] ~w.stop /\ full -> [w EXCEPT !.found = found, !.truncated = TRUE, !.queue = <<>>, !.stop = TRUE]
          [] OTHER -> [w EXCEPT !.found = found,
                                !.queue = IF enter /\ Len(@) < limits.queue THEN Append(@, <<child, depth + 1>>) ELSE @,
                                !.truncated = @ \/ Len(w.queue) >= limits.queue]

\* repo_overview at a child: what may hold credentials is counted, what is
\* passed over is left out, the last allowed one ends the walk.
OverviewChild(w, child, depth) ==
    LET shown == child \notin Secret /\ kind[child] # "other"
                 /\ ~(kind[child] = "directory" /\ child \in Skipped)
        structure == Append(w.found, child)
        full == Len(structure) >= limits.overview
        enter == kind[child] = "directory" /\ depth < limits.depth
    IN  CASE w.stop -> w
          [] ~w.stop /\ ~shown -> [w EXCEPT !.protected = IF child \in Secret THEN @ + 1 ELSE @]
          [] ~w.stop /\ shown /\ full -> [w EXCEPT !.found = structure, !.truncated = TRUE, !.queue = <<>>, !.stop = TRUE]
          [] OTHER -> [w EXCEPT !.found = structure,
                                !.queue = IF enter THEN Append(@, <<child, depth + 1>>) ELSE @]

AfterChild(w, child, depth) ==
    IF w.tool = "search" THEN SearchChild(w, child, depth) ELSE OverviewChild(w, child, depth)

AfterAll(w, children, depth) ==
    FoldLeft(LAMBDA u, child : AfterChild(u, child, depth), w, children)

(***************************************************************************)
(* The calls.                                                              *)
(***************************************************************************)

NoJob == [tool |-> Gone, stage |-> "idle"]

Walking(tool, root) ==
    [tool |-> tool, stage |-> "walk", root |-> root, queue |-> <<<<root, 0>>>>, visited |-> 0,
     found |-> <<>>, protected |-> 0, truncated |-> FALSE, stop |-> FALSE]

RefusePath(tool) == job' = [tool |-> tool, stage |-> "refused"]

\* Directories first, then by name; one more than fits is read, to know that
\* the list is cut. Here a directory that cannot be listed is a failure.
ListDirectory(path) ==
    /\ job.stage = "idle"
    /\ LET d == ResolveSafePath(path, "directory")
           folders == {e \in Inside(d) : kind[Target[e]] = "directory"}
           all == Ascending(folders) \o Ascending(Inside(d) \ folders)
       IN  IF d = Gone \/ d \in Unreadable THEN RefusePath("list")
           ELSE job' = [tool |-> "list", stage |-> "done", root |-> d,
                        found |-> FirstOf(limits.entries, all), truncated |-> Len(all) > limits.entries]
    /\ calm' = TRUE
    /\ UNCHANGED <<limits, kind, size>>

\* search_files and repo_overview begin with the directory they are given.
BeginWalk(tool, path) ==
    /\ job.stage = "idle"
    /\ LET d == ResolveSafePath(path, "directory")
       IN  IF d = Gone THEN RefusePath(tool) ELSE job' = Walking(tool, d)
    /\ calm' = TRUE
    /\ UNCHANGED <<limits, kind, size>>

\* The next directory; one that is gone by now or cannot be listed is passed over,
\* and the answer does not say so. The order of a search is the disk's, that of an
\* overview is by name.
WalkDirectory ==
    /\ job.stage = "walk"
    /\ job.queue # <<>>
    /\ LET dir == Head(job.queue)[1]
           depth == Head(job.queue)[2]
           next == [job EXCEPT !.queue = Tail(@), !.visited = @ + 1]
       IN  IF job.tool = "search" /\ next.visited > limits.visits
           THEN job' = [next EXCEPT !.queue = <<>>, !.truncated = TRUE]
           ELSE \E children \in IF job.tool = "search" THEN SetToSeqs(Scanned(dir)) ELSE {Ascending(Scanned(dir))} :
                    job' = AfterAll(next, children, depth)
    /\ UNCHANGED <<limits, kind, size, calm>>

EndWalk ==
    /\ job.stage = "walk"
    /\ job.queue = <<>>
    /\ job' = [job EXCEPT !.stage = "done"]
    /\ UNCHANGED <<limits, kind, size, calm>>

\* read_file: the path, the name and the size are checked first.
CheckFile(path) ==
    /\ job.stage = "idle"
    /\ LET f == ResolveSafePath(path, "file")
       IN  IF f = Gone THEN RefusePath("read")
           ELSE IF f \in Secret \/ size[f] > MaxBytes THEN RefusePath("read")
           ELSE job' = [tool |-> "read", stage |-> "checked", root |-> f, size |-> size[f], content |-> 0]
    /\ calm' = TRUE
    /\ UNCHANGED <<limits, kind, size>>

\* Then it is read whole, whatever it has become, if it is text.
ReadFile ==
    /\ job.stage = "checked"
    /\ \/ RefusePath("read")
       \/ /\ There(job.root)
          /\ kind[job.root] = "file"
          /\ job' = [job EXCEPT !.stage = "done", !.content = size[job.root]]
    /\ UNCHANGED <<limits, kind, size, calm>>

\* repository_root: the nearest directory upwards that holds a .git, as long
\* as one stays where paths are allowed.
RepositoryRoot(path) ==
    /\ job.stage = "idle"
    /\ LET d == ResolveSafePath(path, "directory")
           held == Above[d] \cap Repository
           near == CHOOSE r \in held : \A s \in held : s \in Above[r]
       IN  IF d = Gone THEN RefusePath("repository")
           ELSE IF held = {} \/ ~IsAllowedPath(near) THEN RefusePath("repository")
           ELSE job' = [tool |-> "repository", stage |-> "done", root |-> d, found |-> <<near>>]
    /\ calm' = TRUE
    /\ UNCHANGED <<limits, kind, size>>

\* The user's own work: an entry goes, a file grows. Once during a call.
DiskChanges ==
    /\ calm
    /\ job.stage \in {"walk", "checked"}
    /\ calm' = FALSE
    /\ \E e \in Entries :
        \/ kind' = [kind EXCEPT ![e] = Gone] /\ UNCHANGED size
        \/ size' = [size EXCEPT ![e] = MaxBytes + 1] /\ UNCHANGED kind
    /\ UNCHANGED <<limits, job>>

(***************************************************************************)
(* The specification.                                                      *)
(***************************************************************************)

FilesInit ==
    /\ limits \in Policies
    /\ kind \in Kinds
    /\ size = [e \in Entries |-> MaxBytes]
    /\ job = NoJob
    /\ calm = TRUE

FilesNext ==
    \/ \E path \in Entries :
        \/ ListDirectory(path) \/ CheckFile(path) \/ RepositoryRoot(path)
        \/ \E tool \in {"search", "overview"} : BeginWalk(tool, path)
    \/ WalkDirectory \/ EndWalk \/ ReadFile \/ DiskChanges

FilesSpec == FilesInit /\ [][FilesNext]_filesVars

(***************************************************************************)
(* Properties.                                                             *)
(***************************************************************************)

Found == ToSet(job.found)

\* A directory is in the reach of a walk if it and all between it and the root
\* are directories, not passed over, and few enough, and those above it can be
\* listed.
InReach(w, d) ==
    /\ w.root \in Above[d]
    /\ Cardinality(Above[d] \ Above[w.root]) <= limits.depth
    /\ \A p \in Above[d] \ Above[w.root] :
        /\ kind[p] = "directory" /\ p \notin Skipped /\ (w.tool = "overview" => p \notin Secret)
        /\ Parent[p] \notin Unreadable

Reached(w) ==
    {e \in Entries : There(e) /\ \E d \in Entries : InReach(w, d) /\ Parent[e] = d /\ d \notin Unreadable}

\* A search that does not say it was cut short has found every match within
\* its reach, and no search finds anything else, or the same thing twice. What
\* lies in a directory that cannot be listed is out of reach, and unsaid.
SearchIsComplete ==
    (job.tool = "search" /\ job.stage = "done") =>
        /\ IsInjective(job.found)
        /\ Len(job.found) <= limits.matches
        /\ calm => Found \subseteq Reached(job) \cap Matching
        /\ (calm /\ ~job.truncated) => Found = Reached(job) \cap Matching
        /\ (calm /\ job.truncated) =>
             \/ Len(job.found) = limits.matches
             \/ job.visited > limits.visits
             \/ limits.queue < Cardinality({d \in Entries : kind[d] = "directory"})

\* An overview that does not say it was cut short is complete, and none names
\* what may hold credentials, or looks into what is passed over.
OverviewIsComplete ==
    LET shown == {e \in Reached(job) : e \notin Secret /\ kind[e] # "other"
                                  /\ ~(kind[e] = "directory" /\ e \in Skipped)}
    IN  (job.tool = "overview" /\ job.stage = "done") =>
            /\ IsInjective(job.found)
            /\ Len(job.found) <= limits.overview
            /\ Found \cap Secret = {}
            /\ calm => Found \subseteq shown
            /\ (calm /\ ~job.truncated) => Found = shown

\* A listing is of a directory that can be listed, is cut exactly when it says
\* so, and what is cut comes last.
ListingIsExact ==
    (job.tool = "list" /\ job.stage = "done") =>
        /\ job.root \notin Unreadable
        /\ Found \subseteq Inside(job.root)
        /\ job.truncated <=> Found # Inside(job.root)
        /\ Len(job.found) <= limits.entries
        /\ \A e \in Found, f \in Inside(job.root) \ Found :
            kind[Target[f]] = "directory" => kind[Target[e]] = "directory" /\ e < f

\* Whatever is read, listed or walked is allowed, and is no file that may hold
\* credentials; a repository is around the directory it is asked for.
OnlyWhatIsAllowed ==
    job.stage = "done" =>
        /\ IsAllowedPath(job.root)
        /\ job.tool = "read" => job.root \notin Secret /\ job.size <= MaxBytes
        /\ (job.tool = "read" /\ calm) => job.content = job.size
        /\ job.tool = "repository" =>
             \A r \in Found : r \in Above[job.root] \cap Repository /\ IsAllowedPath(r)

\* The file tools answer with what the disk holds within the policy and say
\* when they were cut short (search_files, repo_overview, list_directory,
\* read_file, repository_root).
FilesAreRight ==
    SearchIsComplete /\ OverviewIsComplete /\ ListingIsExact /\ OnlyWhatIsAllowed
=============================================================================
