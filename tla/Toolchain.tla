------------------------------- MODULE Toolchain -------------------------------
(***************************************************************************)
(* The guided setup of the device tools, in the app's main process: the system  *)
(* packages, and the libraries built one after another into the tools folder, *)
(* each against the ones before it.  A build that is interrupted is resumed    *)
(* from the record of what it finished; toolchain.json, written last, says that *)
(* the folder holds the libraries this version of the app pins.               *)
(***************************************************************************)
EXTENDS Integers, Sequences

CONSTANTS
  Pins \* per version of the app: the release of each library, in dependency order

ASSUME ToolchainAssumption ==
  /\ Pins \in Seq(Seq(Nat)) /\ Pins # <<>>
  /\ \A v, w \in DOMAIN Pins : Len(Pins[v]) = Len(Pins[w]) /\ Pins[v] # <<>>

VARIABLES
  version,  \* the app's
  ready,    \* the system packages are installed
  entries,  \* libraries with a pkg-config entry in the tools folder
  made,     \* per library, the releases it was built of: those before it, and its own
  manifest, \* toolchain.json: the releases, or <<>>
  progress, \* progress.json in the build directory, the same; <<>> also if unreadable
  builder   \* the run under way, and whether the page that asked for it is there

folder == <<entries, made, manifest>>
setupVars == <<version, ready, folder, progress, builder>>

Pinned == Pins[version]
Libs == DOMAIN Pinned
Top == Len(Pinned) \* the library that brings idevicebackup2
Gone == <<>>       \* a library not built, or with files missing or replaced
NoBuild == [pc |-> "off", done |-> <<>>, asked |-> FALSE]
BuildPlaces == {"off", "packages", "check", "library", "install", "record", "verify"}

SetupTypeOK ==
  /\ version \in DOMAIN Pins /\ ready \in BOOLEAN
  /\ entries \subseteq Libs /\ DOMAIN made = Libs
  /\ \A s \in {manifest, progress, builder.done} : Len(s) <= Top /\ \A i \in DOMAIN s : s[i] \in Nat
  /\ builder.pc \in BuildPlaces /\ builder.asked \in BOOLEAN

\* The app starts for the first time.
SetupInit ==
  /\ version = 1 /\ ready \in BOOLEAN
  /\ entries = {} /\ made = [c \in Libs |-> Gone] /\ manifest = <<>>
  /\ progress = <<>> /\ builder = NoBuild

Installed == manifest = Pinned
\* The tool counts only with the manifest.  Bound: there is none on the PATH.
ToolFound == Installed /\ made[Top] # Gone
Whole == \A c \in Libs : made[c] = SubSeq(Pinned, 1, c)

-------------------------------------------------------------------------------
(* runGuided: one run at a time. *)

\* Every requirement of the system and of the device service is met.
SystemReady == ready

Busy == builder.pc # "off"
SetupStarts(place) ==
  /\ ~Busy /\ builder' = [NoBuild EXCEPT !.pc = place, !.asked = TRUE]
  /\ UNCHANGED <<version, ready, folder, progress>>
BuildGoes(a, b) == builder.pc = a /\ builder' = [builder EXCEPT !.pc = b]
Ends == builder' = NoBuild
ToolsStay == UNCHANGED <<version, ready, folder>>
FolderStays == ToolsStay /\ UNCHANGED progress

\* installSystemRequirements: through the administrator's prompt.  It fails where
\* this system's packages are to be installed by hand, the prompt is refused or
\* the installer fails.
InstallPackages ==
  /\ builder.pc = "packages" /\ Ends
  /\ ready' = TRUE /\ UNCHANGED <<version, folder, progress>>
PackagesFail == builder.pc = "packages" /\ Ends /\ FolderStays

-------------------------------------------------------------------------------
(* buildToolchain. *)

\* What an interrupted build finished: as far as the record has the releases
\* pinned now.
RecordedByName == SubSeq(Pinned, 1, Len(progress)) \* slip: the releases are not compared
Recorded ==
  LET agrees == {n \in 0 .. Len(progress) : SubSeq(progress, 1, n) = SubSeq(Pinned, 1, n)}
  IN SubSeq(progress, 1, CHOOSE n \in agrees : \A m \in agrees : m <= n)
\* One of them missing from the folder makes all of it worthless.
FoundUnchecked(done) == TRUE \* slip: the folder is not looked at
Found(done) == DOMAIN done \subseteq entries
Resumable == IF Found(Recorded) THEN Recorded ELSE <<>>
NextPlace(done) == IF Len(done) = Top THEN "verify" ELSE "library"

Check ==
  /\ builder.pc = "check"
  /\ \/ ~SystemReady /\ Ends /\ FolderStays
     \/ /\ SystemReady
        /\ builder' = [builder EXCEPT !.done = Resumable, !.pc = NextPlace(Resumable)]
        /\ IF Resumable # <<>>
           THEN UNCHANGED <<folder, progress>>
           ELSE /\ entries' = {} /\ made' = [c \in Libs |-> Gone] /\ manifest' = <<>>
                /\ progress' = <<>>
        /\ UNCHANGED <<version, ready>>
\* The removal is cut short with the app: any file of the folder may be left.
CutShort ==
  /\ builder.pc = "check" /\ SystemReady /\ Resumable = <<>>
  /\ entries' \in SUBSET entries /\ manifest' \in {manifest, <<>>}
  /\ \E lost \in SUBSET Libs : made' = [c \in Libs |-> IF c \in lost THEN Gone ELSE made[c]]

This == Len(builder.done) + 1
Before == 1 .. This - 1
\* Downloaded, verified, unpacked, configured and compiled: which needs the
\* libraries before it.
Buildable == Before \subseteq entries /\ \A c \in Before : made[c] # Gone
Compile ==
  /\ Buildable /\ BuildGoes("library", "install")
  /\ entries' \in {entries, entries \cup {This}} \* make install is under way
  /\ made' = [made EXCEPT ![This] = Gone]
  /\ UNCHANGED <<version, ready, manifest, progress>>
\* The release with what is there of those before it.
Install ==
  /\ BuildGoes("install", "record")
  /\ entries' = entries \cup {This}
  /\ made' = [made EXCEPT ![This] = [c \in 1 .. This |-> IF c = This THEN Pinned[c] ELSE made[c][c]]]
  /\ UNCHANGED <<version, ready, manifest, progress>>
RecordBuilt ==
  /\ builder.pc = "record"
  /\ LET done == Append(builder.done, Pinned[This]) IN
       /\ progress' = done
       /\ builder' = [builder EXCEPT !.done = done, !.pc = NextPlace(done)]
  /\ ToolsStay

\* idevicebackup2 --version must run, and name the last release.
Runs == (\A c \in Libs : made[c] # Gone) /\ made[Top][Top] = Pinned[Top]
ManifestWritten == manifest' = builder.done /\ UNCHANGED <<entries, made>>
VerifyRuns ==
  /\ builder.pc = "verify" /\ Runs /\ Ends
  /\ ManifestWritten /\ progress' = <<>> /\ UNCHANGED <<version, ready>>

\* A download or a command fails, or the record cannot be written.
BuildFails ==
  \/ builder.pc \in {"library", "install", "verify"} /\ Ends /\ FolderStays
  \/ builder.pc = "record" /\ Ends /\ progress' = <<>> /\ ToolsStay

-------------------------------------------------------------------------------
\* The app ends under a run, in the middle of what it was writing.
Interrupted ==
  /\ Ends /\ UNCHANGED <<version, ready>>
  /\ \/ CutShort /\ UNCHANGED progress
     \/ builder.pc = "verify" /\ Runs /\ ManifestWritten /\ UNCHANGED progress
     \/ UNCHANGED folder /\ progress' \in {progress} \cup (IF builder.pc = "record" THEN {<<>>} ELSE {})

\* What happens to the folders while nothing runs: an update of the app, the
\* tools folder deleted, the temporary files cleaned.
Update ==
  /\ ~Busy /\ version < Len(Pins) /\ version' = version + 1
  /\ UNCHANGED <<ready, folder, progress, builder>>
FolderDeleted ==
  /\ ~Busy /\ entries' = {} /\ made' = [c \in Libs |-> Gone] /\ manifest' = <<>>
  /\ UNCHANGED <<version, ready, progress, builder>>
TempCleaned == ~Busy /\ progress' = <<>> /\ UNCHANGED <<version, ready, folder, builder>>

SetupSteps ==
  \/ InstallPackages \/ Check \/ Compile \/ Install \/ RecordBuilt \/ VerifyRuns
SetupFailures == PackagesFail \/ BuildFails

-------------------------------------------------------------------------------
(* Properties. *)

\* A build never goes on in a folder in which it cannot succeed: what is to be
\* compiled next finds the libraries it needs, and what is verified at the end
\* runs, whatever an interrupted build, an update or a deletion left behind.
CanSucceed ==
  /\ builder.pc = "library" => Buildable
  /\ builder.pc = "verify" => Runs

\* The tools folder comes to read as installed only when every library in it is
\* there, of its pinned release and built with the pinned releases of the others
\* ("so a half-finished install never reads as installed", manifest.ts), whatever
\* was interrupted, deleted or updated before; and nothing but the removal at the
\* start of a build takes a library from a folder that reads so.
WholeWhenInstalled ==
  /\ ~Installed /\ Installed' => Whole'
  /\ Installed /\ Whole /\ Installed' => Whole' \/ builder.pc = "check"
================================================================================
