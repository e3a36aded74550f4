------------------------------ MODULE WebUpdate ------------------------------
(***************************************************************************)
(* The web update: services/system_update.py in the server's process,      *)
(* deploy/web-update.py (the helper) that systemd starts when the request  *)
(* file exists, and install.sh, which the helper runs.  They share two       *)
(* files, status.json and request, and the checkout, under no lock.  An    *)
(* install.sh somebody runs from a shell at the same time is left out.     *)
(*                                                                         *)
(* The five running states of a status are two here: "starting" is the web *)
(* process's, "working" the helper's.  The stages of an installation are   *)
(* those that change what is checked out or what runs.                     *)
(***************************************************************************)
EXTENDS Integers

CONSTANTS
    MaxCommit,  \* bound: commits pushed to the remote branch
    Broken      \* the commits whose server does not come up

Commits == 0..MaxCommit
None == -1

ASSUME CommitsAssumption == MaxCommit \in Nat /\ Broken \subseteq Commits \ {0}

VARIABLES
    remote,     \* the head of the remote branch
    repo,       \* the commit checked out in APP_DIR
    running,    \* the commit the server's process runs; None if it is down
    available,  \* update_available: "unknown", "yes" or "no"
    check,      \* the commits read by the calls of refresh_version under way
    status,     \* state in status.json
    aged,       \* a "starting" status is older than 20 s
    request,    \* the request file exists
    web,        \* start_update: "idle", "free", "written", "unlinked"
    helper,     \* "off", "locked", "taken", "checked", "install", "result",
                \* "written"
    current,    \* current_commit, read by the helper
    install,    \* install.sh: "off", "begun", "noted", "fetched",
                \* "restarted", "back", "done"
    rollback,   \* its ROLLBACK_COMMIT; None if unset
    ended,      \* how it ended: "ok", "failed", "rolled" and, with the new
                \* commit left checked out, "stopped"
    abandoned   \* history: a running status was left with nobody behind it

version  == <<available, check>>
files    == <<status, aged, request>>
code     == <<remote, repo, running>>
updating == <<helper, current>>
installs == <<install, rollback, ended>>
vars     == <<version, files, code, web, updating, installs, abandoned>>

Running == {"starting", "working"}

TypeOK ==
    /\ remote \in Commits /\ repo \in Commits /\ running \in Commits \cup {None}
    /\ available \in {"unknown", "yes", "no"} /\ check \subseteq Commits
    /\ status \in Running \cup {"idle", "succeeded", "failed"}
    /\ aged \in BOOLEAN /\ request \in BOOLEAN
    /\ web \in {"idle", "free", "written", "unlinked"}
    /\ helper \in {"off", "locked", "taken", "checked", "install", "result", "written"}
    /\ current \in Commits
    /\ install \in {"off", "begun", "noted", "fetched", "restarted", "back", "done"}
    /\ rollback \in Commits \cup {None}
    /\ ended \in {"ok", "failed", "rolled", "stopped"}
    /\ abandoned \in BOOLEAN
    /\ install # "off" => helper = "install"

Init ==
    /\ remote = 0 /\ repo = 0 /\ running = 0
    /\ available = "unknown" /\ check = {}
    /\ status = "idle" /\ aged = FALSE /\ request = FALSE
    /\ web = "idle" /\ helper = "off" /\ current = 0
    /\ install = "off" /\ rollback = None /\ ended = "failed"
    /\ abandoned = FALSE

----------------------------------------------------------------------------
(* The server's process.                                                   *)

\* operation_status: a request nobody collects is shown as failed.
SlipShownAsWritten == status
Shown == IF status = "starting" /\ aged /\ request THEN "failed" ELSE status

WebUp == running # None

\* refresh_version up to its first await, by an operator at any time, by the
\* monitor when no update is shown to run.
CheckBegins ==
    /\ WebUp /\ web = "idle"
    /\ check' = check \cup {repo}
    /\ UNCHANGED <<available, files, code, web, updating, installs, abandoned>>

\* The remote's answer to one of them, or an error.
CheckEnds ==
    /\ WebUp /\ web = "idle"
    /\ \E c \in check : /\ available' \in {"unknown", IF c = remote THEN "no" ELSE "yes"}
                       /\ check' \in {check, check \ {c}}
    /\ UNCHANGED <<files, code, web, updating, installs, abandoned>>

\* start_update, refused while an update is shown to run or none is
\* available.  The files are written one after the other.
StartUpdate ==
    /\ WebUp /\ web = "idle"
    /\ Shown \notin Running /\ available # "no"
    /\ web' = "free"
    /\ UNCHANGED <<version, files, code, updating, installs, abandoned>>

WriteStarting ==
    /\ web = "free"
    /\ \/ status' = "starting" /\ aged' = FALSE /\ web' = "written"
       \/ UNCHANGED <<status, aged>> /\ web' = "idle"
    /\ UNCHANGED <<version, request, code, updating, installs, abandoned>>

UnlinkStale ==
    /\ web = "written" /\ web' = "unlinked"
    /\ request' = FALSE
    /\ UNCHANGED <<version, status, aged, code, updating, installs, abandoned>>

MakeRequest ==
    /\ web = "unlinked" /\ web' = "idle"
    /\ request' = TRUE
    /\ UNCHANGED <<version, status, aged, code, updating, installs, abandoned>>

\* No permission or no space: the failure is written, if that is possible.
RequestFails ==
    /\ web \in {"written", "unlinked"} /\ web' = "idle"
    /\ \/ status' = "failed" /\ UNCHANGED abandoned
       \/ UNCHANGED status /\ abandoned' = TRUE
    /\ UNCHANGED <<version, aged, request, code, updating, installs>>

Requesting == WriteStarting \/ UnlinkStale \/ MakeRequest \/ RequestFails

Age ==
    /\ status = "starting" /\ ~aged /\ aged' = TRUE
    /\ UNCHANGED <<version, status, request, code, web, updating, installs, abandoned>>

HalfRequested == web \in {"written", "unlinked"}

\* The server's process ends and is started again.  What it was writing
\* stays half written; others may be gone with it.
ServerStarts(gone) ==
    /\ running' = IF repo \in Broken THEN None ELSE repo
    /\ available' = "unknown" /\ check' = {}
    /\ web' = "idle"
    /\ abandoned' = (abandoned \/ HalfRequested \/ gone)

----------------------------------------------------------------------------
(* install.sh --update.                                                    *)

At(from, to) == install = from /\ install' = to

\* fetch_code: the commit to go back to is noted before the checkout.
SlipNotesNew == remote
Noted == repo

Note ==
    /\ At("begun", "noted")
    /\ rollback' = Noted
    /\ UNCHANGED <<version, files, code, web, updating, ended, abandoned>>

Fetch ==
    /\ At("noted", "fetched")
    /\ repo' = remote
    /\ UNCHANGED <<version, files, remote, running, web, updating, rollback, ended, abandoned>>

RestartService ==
    /\ At("fetched", "restarted")
    /\ ServerStarts(FALSE)
    /\ UNCHANGED <<files, remote, repo, updating, rollback, ended>>

\* wait_for_health and verify_http_endpoints: the server answers, with the
\* commit that is checked out.
SlipUnverified == TRUE
Verified == running = repo

Verify ==
    /\ At("restarted", "done") /\ Verified
    /\ ended' = "ok"
    /\ UNCHANGED <<version, files, code, web, updating, rollback, abandoned>>

\* on_error, the ERR trap: with ROLLBACK_COMMIT set it goes back to it,
\* which may fail too.
MayGoBack == rollback # None

OnError ==
    /\ install \in {"begun", "noted", "fetched", "restarted"}
    /\ \/ MayGoBack /\ repo' = rollback /\ install' = "back" /\ UNCHANGED ended
       \/ MayGoBack /\ ended' = "stopped" /\ install' = "done" /\ UNCHANGED repo
       \/ ~MayGoBack /\ ended' = "failed" /\ install' = "done" /\ UNCHANGED repo
    /\ UNCHANGED <<version, files, remote, running, web, updating, rollback, abandoned>>

RestartOld ==
    /\ At("back", "done")
    /\ ended' = "rolled"
    /\ ServerStarts(FALSE)
    /\ UNCHANGED <<files, remote, repo, updating, rollback>>

\* die exits, which is no error to the trap: nothing is rolled back.
Die ==
    /\ \/ At("begun", "done") /\ ended' = "failed"
       \/ At("fetched", "done") /\ ended' = "stopped"
    /\ UNCHANGED <<version, files, code, web, updating, rollback, abandoned>>

InstallStep == Note \/ Fetch \/ RestartService \/ Verify \/ OnError \/ RestartOld \/ Die

----------------------------------------------------------------------------
(* The path unit and the helper.                                           *)

Trigger ==
    /\ helper = "off" /\ request
    /\ helper' = "locked"
    /\ UNCHANGED <<version, files, code, web, current, installs, abandoned>>

Collect ==
    /\ helper = "locked" /\ helper' = "taken"
    /\ request' = FALSE
    /\ current' = repo
    /\ UNCHANGED <<version, status, aged, code, web, installs, abandoned>>

WriteChecking ==
    /\ helper = "taken" /\ helper' = "checked"
    /\ status' = "working"
    /\ UNCHANGED <<version, aged, request, code, web, current, installs, abandoned>>

\* No installer: the request is not unlinked again.
Preflight ==
    /\ helper = "checked" /\ helper' = "off"
    /\ status' = "failed"
    /\ UNCHANGED <<version, aged, request, code, web, current, installs, abandoned>>

RunInstaller ==
    /\ helper = "checked" /\ helper' = "install"
    /\ At("off", "begun") /\ rollback' = None
    /\ UNCHANGED <<version, files, code, web, current, ended, abandoned>>

\* A line of the installer's output names its next phase.
Progress ==
    /\ helper = "install" /\ install # "done"
    /\ status' = "working"
    /\ UNCHANGED <<version, aged, request, code, web, updating, installs, abandoned>>

InstallerEnds ==
    /\ helper = "install" /\ helper' = "result"
    /\ At("done", "off")
    /\ UNCHANGED <<version, files, code, web, current, rollback, ended, abandoned>>

Report ==
    /\ helper = "result" /\ helper' = "written"
    /\ status' = IF ended = "ok" THEN "succeeded" ELSE "failed"
    /\ UNCHANGED <<version, aged, request, code, web, current, installs, abandoned>>

\* The last unlink, which may meet a request made since the result.
Clear ==
    /\ helper = "written" /\ helper' = "off"
    /\ request' = FALSE
    /\ abandoned' = (abandoned \/ (request /\ status \in Running))
    /\ UNCHANGED <<version, status, aged, code, web, current, installs>>

\* An exception: systemd kills what is left of the installer; the failure is
\* written, if that is possible.
HelperFails ==
    /\ helper \in {"locked", "taken", "checked", "install", "result"}
    /\ install' = "off"
    /\ \/ helper' = "written" /\ status' = "failed" /\ UNCHANGED abandoned
       \/ helper' = "off" /\ UNCHANGED status /\ abandoned' = (abandoned \/ helper # "locked")
    /\ UNCHANGED <<version, aged, request, code, web, current, rollback, ended>>

HelperStep ==
    \/ Collect \/ WriteChecking \/ Preflight \/ RunInstaller \/ InstallerEnds \/ Report \/ Clear
    \/ HelperFails \/ InstallStep

----------------------------------------------------------------------------
(* The world around them.                                                  *)

Push ==
    /\ remote < MaxCommit /\ remote' = remote + 1
    /\ UNCHANGED <<version, files, repo, running, web, updating, installs, abandoned>>

\* The server crashes; systemd starts it again.
ServerCrash ==
    /\ WebUp
    /\ ServerStarts(FALSE)
    /\ UNCHANGED <<files, remote, repo, updating, installs>>

Reboot ==
    /\ ServerStarts(helper \in {"taken", "checked", "install", "result"})
    /\ helper' = "off" /\ install' = "off"
    /\ UNCHANGED <<files, remote, repo, current, rollback, ended>>

Next ==
    \/ CheckBegins \/ CheckEnds
    \/ StartUpdate \/ Requesting \/ Age
    \/ Trigger \/ HelperStep \/ Progress
    \/ Push \/ ServerCrash \/ Reboot

\* Processes that are started go on, installation steps end, and time passes.
\* Whether the path unit works at all is not assumed.
Fairness == WF_vars(Requesting) /\ WF_vars(HelperStep) /\ WF_vars(Age)

Spec == Init /\ [][Next]_vars /\ Fairness

----------------------------------------------------------------------------
(* Properties.                                                             *)

\* An update shown as running is at some time shown as ended, collected by
\* the path unit or not, whatever fails - unless a crash, a full disk or the
\* helper's last unlink took away what would have ended it.
UpdateEnds == Shown \in Running ~> (Shown \notin Running \/ abandoned)

\* "Update completed and all server endpoints passed verification": when it
\* is reported, the server is up and runs the commit checked out.
SuccessRuns ==
    [][ (helper = "result" /\ helper' = "written" /\ status' = "succeeded")
            => running = repo ]_vars

\* An update that failed by a failing command leaves the checkout where the
\* update found it.
FailureRestores ==
    [][ (helper = "result" /\ helper' = "written" /\ ended \in {"failed", "rolled"})
            => repo = current ]_vars

\* The readme says that a failed update rolls the code back to the previous
\* commit, and names no exception.
FailureRollsBack ==
    [][ (helper = "result" /\ helper' = "written" /\ ended # "ok")
            => repo = current ]_vars

\* start_update means to replace a stale marker from an interrupted run: it
\* is not refused for ever by an update that nobody is running.
NeverAbandoned == ~abandoned

\* "The installed server is already up to date": it runs what is checked out.
UpToDateRuns ==
    available = "no" /\ install = "off" => running = repo
=============================================================================
