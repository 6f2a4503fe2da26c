------------------------------ MODULE DirectHost ------------------------------
(***************************************************************************)
(* One environment on a host that InitPad deploys to itself, and what its  *)
(* row says of that host.  The providers work by commands over SSH, SFTP   *)
(* or Docker's API, any of which may fail, and some of whose failures are  *)
(* ignored; the result is published under the operation's lock.  There are *)
(* four kinds of host: "shell" and "files" are a user's server with and    *)
(* without a shell, which serve a folder; "link" is the built-in server,   *)
(* which serves a link to a release; "docker" is the local daemon.         *)
(***************************************************************************)
EXTENDS Integers, Sequences

CONSTANTS HostKinds,       \* the kinds of host that are checked
          Builds,          \* the versions that are deployed
          SiteWorkers,     \* requests and background tasks of the API
          MaxSiteEvents    \* bound: failures, cancellations, deaths and stalls

NoBuild == 0

ASSUME DirectHostAssumption ==
    /\ HostKinds \subseteq {"shell", "files", "link", "docker"}
    /\ Builds \subseteq Nat \ {NoBuild}
    /\ 0 \notin SiteWorkers
    /\ MaxSiteEvents \in Nat

VARIABLES
    hostKind,      \* the kind of the environment's host
    site,          \* what is on the host
    shown,         \* the Environment row: status and version
    siteLock,      \* the worker of Environment.activeOperationId, or 0
    direct,        \* by worker: its operation and the commands it still has to give
    siteEvents,    \* bound: failures, cancellations, deaths and stalls so far
    siteUpsets     \* history: what happened that the properties do not cover

siteVars == <<hostKind, site, shown, siteLock, direct, siteEvents, siteUpsets>>

\* A tree of files, and whether it is all there; and the container.
NoTree == [build |-> NoBuild, whole |-> FALSE]
Whole(b) == [build |-> b, whole |-> TRUE]
Part(b) == [build |-> b, whole |-> FALSE]
Remains(tree) == {tree, Part(tree.build), NoTree}   \* after a removal that failed

EmptySite == [folder |-> NoTree, staging |-> NoTree, release |-> [b \in Builds |-> NoTree],
              link |-> NoBuild, box |-> NoBuild, up |-> FALSE]

NoOrder == [does |-> "none", build |-> NoBuild, was |-> "empty", begun |-> FALSE,
            todo |-> <<>>, result |-> "ok", cancelled |-> FALSE]

Commands == {"connect", "unpack", "swap", "stage", "empty", "rename", "upload", "unlink",
             "symlink", "discard", "run", "halt", "boot", "wipe", "wipeData", "purge", "probe"}

Statuses == {"empty", "deploying", "running", "stopped", "failed"}
Trees == [build : Builds \cup {NoBuild}, whole : BOOLEAN]

SiteTypeOK ==
    /\ hostKind \in HostKinds
    /\ site \in [folder : Trees, staging : Trees, release : [Builds -> Trees],
                 link : Builds \cup {NoBuild}, box : Builds \cup {NoBuild}, up : BOOLEAN]
    /\ shown \in [status : Statuses, build : Builds \cup {NoBuild}]
    /\ siteLock \in SiteWorkers \cup {0}
    /\ direct \in [SiteWorkers ->
           [does : {"none", "deploy", "start", "stop", "remove", "undo"},
            build : Builds \cup {NoBuild}, was : Statuses, begun : BOOLEAN,
            todo : Seq(Commands),
            result : {"ok", "failed", "thrown"}, cancelled : BOOLEAN]]
    /\ siteEvents \in 0 .. MaxSiteEvents
    /\ siteUpsets \subseteq {"halfRemoved", "dataLeft", "overtaken", "cutShort", "outdated"}

SiteInit ==
    /\ hostKind \in HostKinds
    /\ site = EmptySite
    /\ shown = [status |-> "empty", build |-> NoBuild]
    /\ siteLock = 0
    /\ direct = [w \in SiteWorkers |-> NoOrder]
    /\ siteEvents = 0
    /\ siteUpsets = {}

\* What a visitor of the environment's address gets.
Served ==
    CASE hostKind = "link" ->
             IF site.link = NoBuild THEN NoTree ELSE site.release[site.link]
      [] hostKind = "docker" ->
             IF site.up THEN Whole(site.box) ELSE NoTree
      [] OTHER -> site.folder

SiteEvent ==
    /\ siteEvents < MaxSiteEvents
    /\ siteEvents' = siteEvents + 1
NoSiteEvent == UNCHANGED siteEvents

Disturb(what) == siteUpsets' = siteUpsets \cup {what}

(***************************************************************************)
(* The commands of deploy(), start(), stop() and teardown() by provider.   *)
(***************************************************************************)
Deploying ==
    CASE hostKind = "shell" -> <<"connect", "unpack", "swap", "probe">>
      [] hostKind = "files" -> <<"connect", "stage", "empty", "rename", "probe">>
      [] hostKind = "link" -> <<"connect", "upload", "unlink", "symlink", "probe">>
      [] hostKind = "docker" -> <<"connect", "discard", "run", "probe">>

Starting ==
    IF hostKind = "docker" THEN <<"connect", "boot", "probe">>
                           ELSE <<"connect", "unlink", "symlink", "probe">>

Stopping ==
    IF hostKind = "docker" THEN <<"connect", "halt">> ELSE <<"connect", "unlink">>

Removing ==
    CASE hostKind = "shell" -> <<"connect", "wipe", "wipeData">>
      [] hostKind = "files" -> <<"connect", "empty">>
      [] hostKind = "link" -> <<"connect", "unlink", "purge">>
      [] hostKind = "docker" -> <<"connect", "discard">>

CommandsOf(does) ==
    CASE does = "deploy" -> Deploying
      [] does = "start" -> Starting
      [] does = "stop" -> Stopping
      [] does \in {"remove", "undo"} -> Removing

Due(w, command) ==
    direct[w].begun /\ direct[w].todo # <<>> /\ Head(direct[w].todo) = command

Proceeds(w) == direct' = [direct EXCEPT ![w].todo = Tail(@)]
Ends(w, result) == direct' = [direct EXCEPT ![w].todo = <<>>, ![w].result = result]

\* A command that fails ends the work; a removal that had begun is not undone.
Breaks(w, result) ==
    LET removes(commands) == direct[w].does = "remove" /\ Head(direct[w].todo) \in commands IN
    /\ Ends(w, result)
    /\ CASE removes({"purge", "wipeData"}) -> Disturb("dataLeft")
         [] removes({"empty", "wipe"}) /\ site' # site -> Disturb("halfRemoved")
         [] OTHER -> UNCHANGED siteUpsets

\* A command that leads to `done`, or fails with one of `rest` and ends the work.
Command(w, done, rest, result) ==
    /\ \/ site' = done /\ NoSiteEvent /\ Proceeds(w) /\ UNCHANGED siteUpsets
       \/ site' \in rest /\ SiteEvent /\ Breaks(w, result)
    /\ UNCHANGED <<hostKind, shown, siteLock>>

\* sshExec() takes a command that was ended by a signal for one that succeeded.
ShellCommand(w, done, rest, cut) ==
    \/ Command(w, done, rest, "failed")
    \/ /\ site' \in cut /\ SiteEvent /\ Proceeds(w) /\ Disturb("cutShort")
       /\ UNCHANGED <<hostKind, shown, siteLock>>

\* A command whose failure is ignored.
EasyCommand(w, done) ==
    /\ \/ site' = done /\ NoSiteEvent
       \/ UNCHANGED site /\ SiteEvent
    /\ Proceeds(w)
    /\ UNCHANGED <<hostKind, shown, siteLock, siteUpsets>>

\* A command that cannot succeed as things are.
Hopeless(w, result) ==
    /\ UNCHANGED <<site, hostKind, shown, siteLock, siteEvents>>
    /\ Breaks(w, result)

\* A deploy or a start cannot connect, or throws before it tries; stop() and teardown()
\* return if they cannot connect (or ping the daemon), and throw if getSftp() fails.
Unreached(does) ==
    IF does \in {"deploy", "start"} THEN {"failed", "thrown"}
    ELSE IF hostKind = "docker" THEN {"ok"} ELSE {"ok", "failed"}

Reach(w) ==
    /\ Due(w, "connect")
    /\ \E result \in Unreached(direct[w].does) : Command(w, site, {site}, result)

(***************************************************************************)
(* A user's server.  uploadCustom() fills a folder beside the served one   *)
(* and then replaces it.                                                   *)
(***************************************************************************)
Unpack(w) ==
    LET b == direct[w].build IN
    /\ Due(w, "unpack")
    /\ ShellCommand(w, [site EXCEPT !.staging = Whole(b)],
                    {site, [site EXCEPT !.staging = Part(b)]},
                    {[site EXCEPT !.staging = Part(b)]})

\* Mutant: the old folder is not removed, so that the new one is moved into it.
MovedInto ==
    IF site.folder = NoTree THEN [site EXCEPT !.folder = site.staging, !.staging = NoTree]
                             ELSE [site EXCEPT !.staging = NoTree]

\* rm -rf dest, or its move into the quarantine, then mv staging dest
Swapped == [site EXCEPT !.folder = site.staging, !.staging = NoTree]

Swap(w) ==
    LET rest == {[site EXCEPT !.folder = tree] : tree \in Remains(site.folder)} IN
    /\ Due(w, "swap")
    /\ ShellCommand(w, Swapped, rest, rest)

Stage(w) ==
    LET b == direct[w].build IN
    /\ Due(w, "stage")
    /\ Command(w, [site EXCEPT !.staging = Whole(b)],
               {site, [site EXCEPT !.staging = Part(b)]}, "failed")

Empty(w) ==
    /\ Due(w, "empty")
    /\ Command(w, [site EXCEPT !.folder = NoTree],
               {[site EXCEPT !.folder = tree] : tree \in Remains(site.folder)}, "failed")

\* sftpRename() does not replace a folder.
Rename(w) ==
    /\ Due(w, "rename")
    /\ IF site.folder = NoTree
       THEN Command(w, [site EXCEPT !.folder = site.staging, !.staging = NoTree], {site}, "failed")
       ELSE Hopeless(w, "failed")

\* removeCustom(): the public paths, then the data that applications wrote
Wipe(w) ==
    LET rest == {[site EXCEPT !.folder = tree] : tree \in Remains(site.folder)} IN
    /\ Due(w, "wipe")
    /\ ShellCommand(w, [site EXCEPT !.folder = NoTree, !.staging = NoTree], rest, rest)

WipeData(w) ==
    /\ Due(w, "wipeData")
    /\ ShellCommand(w, site, {site}, {site})

(***************************************************************************)
(* The built-in server.                                                    *)
(***************************************************************************)
Upload(w) ==
    LET b == direct[w].build IN
    /\ Due(w, "upload")
    /\ Command(w, [site EXCEPT !.release[b] = Whole(b)],
               {site, [site EXCEPT !.release[b] = Part(b)]}, "failed")

\* sftpUnlink() never fails, and does nothing to a folder.
Unlink(w) ==
    /\ Due(w, "unlink")
    /\ EasyCommand(w, [site EXCEPT !.link = NoBuild])

\* sftpSymlink() replaces nothing; deploy() catches what it throws, start() does not.
Symlink(w) ==
    LET result == IF direct[w].does = "deploy" THEN "failed" ELSE "thrown" IN
    /\ Due(w, "symlink")
    /\ IF hostKind = "link" /\ site.link = NoBuild
       THEN Command(w, [site EXCEPT !.link = direct[w].build], {site}, result)
       ELSE Hopeless(w, result)

Purge(w) ==
    /\ Due(w, "purge")
    /\ Command(w, [site EXCEPT !.release = EmptySite.release],
               {site, [site EXCEPT !.release = [b \in Builds |-> Part(@[b].build)]]}, "failed")

(***************************************************************************)
(* The local daemon.                                                       *)
(***************************************************************************)
\* removeContainer() and removeManagedContainers()
DropBox(w) ==
    /\ Due(w, "discard")
    /\ EasyCommand(w, [site EXCEPT !.box = NoBuild, !.up = FALSE])

\* No container of that name may be left; one that does not start is removed, if it can be.
RunBox(w) ==
    /\ Due(w, "run")
    /\ IF site.box = NoBuild
       THEN Command(w, [site EXCEPT !.box = direct[w].build, !.up = TRUE],
                    {site, [site EXCEPT !.box = direct[w].build]}, "thrown")
       ELSE Hopeless(w, "thrown")

Halt(w) ==
    /\ Due(w, "halt")
    /\ EasyCommand(w, [site EXCEPT !.up = FALSE])

Boot(w) ==
    /\ Due(w, "boot")
    /\ IF site.box # NoBuild
       THEN Command(w, [site EXCEPT !.up = TRUE], {site}, "failed")
       ELSE Hopeless(w, "failed")

(***************************************************************************)
(* waitReachable() and waitHealthy(): whatever is served may answer.       *)
(***************************************************************************)
\* deploy() removes an unhealthy container, and files the server exposes.
GivenUp(does) ==
    IF does = "start" \/ Served = NoTree THEN {site} ELSE {site, EmptySite}

Probe(w) ==
    /\ Due(w, "probe")
    /\ \/ Served # NoTree /\ Proceeds(w) /\ NoSiteEvent /\ UNCHANGED site
       \/ /\ IF Served = NoTree THEN NoSiteEvent ELSE SiteEvent
          /\ site' \in GivenUp(direct[w].does)
          /\ Ends(w, "failed")
    /\ UNCHANGED <<hostKind, shown, siteLock, siteUpsets>>

(***************************************************************************)
(* The operation around the commands.                                      *)
(***************************************************************************)
\* stop(), start() and remove() read the row before they begin.
AskDirect(w) ==
    /\ direct[w] = NoOrder /\ siteLock # w
    /\ \E does \in {"deploy", "start", "stop", "remove"}, b \in Builds \cup {NoBuild} :
           /\ does = "deploy" => b # NoBuild
           /\ does # "deploy" => b = shown.build
           /\ does = "start" => shown.status = "stopped" /\ b # NoBuild
           /\ does = "stop" => shown.status = "running"
           /\ does \in {"stop", "remove"} => siteLock = 0
           /\ direct' = [direct EXCEPT ![w] = [NoOrder EXCEPT
                             !.does = does, !.build = b, !.was = shown.status]]
    /\ UNCHANGED <<hostKind, site, shown, siteLock, siteEvents, siteUpsets>>

\* begin(); a request that finds another operation is refused.  A start serves the version
\* of the row that its task reads after that.
BeginDirect(w) ==
    /\ direct[w].does # "none" /\ ~direct[w].begun
    /\ IF siteLock = 0
       THEN /\ siteLock' = w
            /\ shown' = [shown EXCEPT !.status = "deploying"]
            /\ direct' = [direct EXCEPT
                   ![w].begun = TRUE, ![w].todo = CommandsOf(direct[w].does),
                   ![w].build = IF direct[w].does = "start" THEN shown.build ELSE @]
            /\ IF direct[w].does # "deploy"
                  /\ shown # [status |-> direct[w].was, build |-> direct[w].build]
               THEN Disturb("outdated") ELSE UNCHANGED siteUpsets
       ELSE /\ direct' = [direct EXCEPT ![w] = NoOrder]
            /\ UNCHANGED <<shown, siteLock, siteUpsets>>
    /\ UNCHANGED <<hostKind, site, siteEvents>>

Over(w) == direct[w].begun /\ direct[w].todo = <<>>

\* A task that was cancelled removes what it deployed, unless it threw.
Undoes(w) ==
    /\ direct[w].cancelled
    /\ direct[w].does \in {"deploy", "start"}
    /\ direct[w].result # "thrown"

TearDownCancelled(w) ==
    /\ Over(w) /\ siteLock = w /\ Undoes(w)
    /\ direct' = [direct EXCEPT ![w].does = "undo", ![w].todo = Removing, ![w].result = "ok"]
    /\ UNCHANGED <<hostKind, site, shown, siteLock, siteEvents, siteUpsets>>

\* What the end of an operation writes; a failing stop or removal restores the status.
Outcome(order) ==
    IF order.result = "ok"
    THEN CASE order.does = "deploy" -> [status |-> "running", build |-> order.build]
           [] order.does = "start" -> [shown EXCEPT !.status = "running"]
           [] order.does = "stop" -> [shown EXCEPT !.status = "stopped"]
           [] order.does \in {"remove", "undo"} -> [status |-> "empty", build |-> NoBuild]
    ELSE [shown EXCEPT !.status = IF order.does \in {"stop", "remove"} THEN order.was
                                                                      ELSE "failed"]

PublishDirect(w) ==
    /\ Over(w) /\ siteLock = w /\ ~Undoes(w)
    /\ shown' = Outcome(direct[w])
    /\ siteLock' = 0
    /\ direct' = [direct EXCEPT ![w] = NoOrder]
    /\ UNCHANGED <<hostKind, site, siteEvents, siteUpsets>>

\* Without the lease nothing is published, and nothing is removed.
PublishRefusedDirect(w) ==
    /\ Over(w) /\ siteLock # w
    /\ direct' = [direct EXCEPT ![w] = NoOrder]
    /\ UNCHANGED <<hostKind, site, shown, siteLock, siteEvents, siteUpsets>>

\* remove() of an environment with an active operation
CancelDirect(w) ==
    /\ siteLock = w /\ ~direct[w].cancelled
    /\ SiteEvent
    /\ direct' = [direct EXCEPT ![w].cancelled = TRUE]
    /\ UNCHANGED <<hostKind, site, shown, siteLock, siteUpsets>>

DirectDies(w) ==
    /\ direct[w].begun
    /\ SiteEvent
    /\ direct' = [direct EXCEPT ![w] = IF siteLock = w
                                       THEN [NoOrder EXCEPT !.cancelled = direct[w].cancelled]
                                       ELSE NoOrder]
    /\ UNCHANGED <<hostKind, site, shown, siteLock, siteUpsets>>

\* recoverInterrupted(): the worker is gone, or has lost its lease and goes on.
RecoverDirect(w) ==
    /\ siteLock = w
    /\ siteLock' = 0
    /\ shown' = IF direct[w].cancelled THEN [status |-> "empty", build |-> NoBuild]
                                       ELSE [shown EXCEPT !.status = "failed"]
    /\ IF direct[w].begun
       THEN SiteEvent /\ Disturb("overtaken") /\ UNCHANGED direct
       ELSE /\ direct' = [direct EXCEPT ![w] = NoOrder]
            /\ UNCHANGED <<siteEvents, siteUpsets>>
    /\ UNCHANGED <<hostKind, site>>

SiteNext ==
    \E w \in SiteWorkers :
        \/ AskDirect(w) \/ BeginDirect(w) \/ Reach(w)
        \/ Unpack(w) \/ Swap(w) \/ Stage(w) \/ Empty(w) \/ Rename(w) \/ Wipe(w) \/ WipeData(w)
        \/ Upload(w) \/ Unlink(w) \/ Symlink(w) \/ Purge(w)
        \/ DropBox(w) \/ RunBox(w) \/ Halt(w) \/ Boot(w) \/ Probe(w)
        \/ TearDownCancelled(w) \/ PublishDirect(w) \/ PublishRefusedDirect(w)
        \/ CancelDirect(w) \/ DirectDies(w) \/ RecoverDirect(w)

SiteSpec == SiteInit /\ [][SiteNext]_siteVars

(***************************************************************************)
(* Properties.                                                             *)
(***************************************************************************)
ShownRunning == shown.status = "running" /\ siteLock = 0

\* An environment that is shown as running serves the version that it shows,
\* and all of it, whatever failed on the way there: commands, the process, or a
\* cancellation.  Excepted are an operation that was recovered while its worker
\* went on (the target is not fenced), a request that acted on an old row, a
\* command that a signal ended, and a removal that failed after it had begun.
RunningIsServed ==
    ShownRunning /\ siteUpsets = {} => Served = Whole(shown.build)

\* ADR-037: an application that has been removed is shown neither as failed nor
\* as running.  failDirectLifecycle() restores the status that the environment
\* had, though the public part is gone.
RemovedIsNotRunning ==
    ShownRunning /\ siteUpsets \subseteq {"dataLeft"} => Served # NoTree

\* ADR-034 and the comment of sftpRmrf(): a teardown provably succeeds, and none
\* is reported while files remain.  teardown() returns if it cannot connect.
RemovedIsGone ==
    shown.status = "empty" /\ siteLock = 0 /\ siteUpsets = {} => Served = NoTree
=============================================================================
