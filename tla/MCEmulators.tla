---------------------------- MODULE MCEmulators ----------------------------
(***************************************************************************)
(* Emulators that boot and are taken down, and what they and the other     *)
(* tools of this computer are made of: the files of an AVD, the system     *)
(* images, the SDK that is found, the trees and stages that are unpacked.  *)
(* One of them runs in each behaviour, the others stay in an initial       *)
(* state.                                                                  *)
(***************************************************************************)
EXTENDS Emulators, FiniteSets

CONSTANTS
  Jobs, MaxCalls, MaxCrashes,                          \* AvdFiles and HostCaches
  Edits, Specs,                                        \* AvdFiles
  Images, HostABIs, Listers, MaxImageCalls,            \* SdkImages
  Callers, Roots, Layouts, MaxToolCalls, MaxMoves,     \* HostTools
  MaxBuilds                                            \* HostCaches

One == {1}
Two == {1, 2}

\* The edits of an AVD's form, one per group of settings; two of a screen, whose width
\* and height are one setting.
Blank    == [ram |-> 0, cores |-> 0, gpu |-> "", width |-> 0, height |-> 0, density |-> 0, keyboard |-> ""]
TheEdits == {[Blank EXCEPT !.ram = 4096], [Blank EXCEPT !.ram = 256], [Blank EXCEPT !.gpu = "host"],
             [Blank EXCEPT !.gpu = "off", !.keyboard = "no"], [Blank EXCEPT !.width = 1080],
             [Blank EXCEPT !.width = 1080, !.height = 1920]}
TheSpecs == {[Blank EXCEPT !.ram = 2048, !.gpu = "off", !.keyboard = "yes"]}
TheImages == {<<34, "google_apis", "arm64-v8a">>, <<35, "google_apis", "arm64-v8a">>,
              <<36, "google_apis_playstore", "x86_64">>}
TwoLayouts == {{"emulator", "latest"}, {"versioned", "tools"}}
ArmABIs == <<"arm64-v8a", "armeabi-v7a">>
Folders == {"a", "b"}

\* What a form can ask for: numbers, a mode of the GPU, a keyboard or none.
Settings == [ram : Nat, cores : Nat, gpu : STRING, width : Nat, height : Nat, density : Nat,
             keyboard : {"", "no", "yes"}]
ASSUME SettingsAssumption == Edits \subseteq Settings /\ Specs \subseteq Settings
\* The repository offers images, finitely many, of numbered levels.
ASSUME ImagesAssumption == Images # {} /\ IsFiniteSet(Images) /\ \A i \in Images : i[1] \in Nat
\* "none" stands for no folder.
ASSUME RootsAssumption == "none" \notin Roots
\* The first build is one of those that are counted.
ASSUME BuildsAssumption == MaxBuilds \in Nat \ {0}

VARIABLES
  part,     \* the component that runs
  ini, config, temp, snaps, live, job, calls, crashes, crossed, edited,
  disk, cache, list, tool, shown, sdkCalls, gone,
  toolDisk, env, onPath, host, toolCache, call, given, toolCalls, moves, raced, moved,
  tree, archive, app, stage, keptJob, opened, keptCalls, keptCrashes, cut

\* Calls on one AVD, some of them at once, over crashes.
Avd == INSTANCE AvdFiles
AvdVars == <<ini, config, temp, snaps, live, job, calls, crashes, crossed, edited>>

\* Listings beside installs and removals.
Sdk == INSTANCE SdkImages WITH MaxCalls <- MaxImageCalls, calls <- sdkCalls
SdkVars == <<disk, cache, list, tool, shown, sdkCalls, gone>>

\* Folders that may hold an SDK, and may move.
Tool == INSTANCE HostTools WITH MaxCalls <- MaxToolCalls, disk <- toolDisk, cache <- toolCache,
                                calls <- toolCalls
ToolVars == <<toolDisk, env, onPath, host, toolCache, call, given, toolCalls, moves, raced, moved>>

\* Calls, some of them at once, over crashes and updates of the application.
Kept == INSTANCE HostCaches WITH job <- keptJob, calls <- keptCalls, crashes <- keptCrashes
KeptVars == <<tree, archive, app, stage, keptJob, opened, keptCalls, keptCrashes, cut>>

all == <<part, vars, AvdVars, SdkVars, ToolVars, KeptVars>>

AllInit ==
  /\ part \in {"boot", "avd", "images", "tools", "caches"}
  /\ Init /\ Avd!Init /\ Sdk!Init /\ Tool!Init /\ Kept!Init
  /\ (part # "avd" => ini = "none")
  /\ (part # "images" => disk = {})
  /\ (part # "tools" => toolDisk = [r \in Roots |-> {"emulator", "latest"}] /\ onPath /\ env = <<>>)

AllNext ==
  \/ part = "boot" /\ Next /\ UNCHANGED <<part, AvdVars, SdkVars, ToolVars, KeptVars>>
  \/ part = "avd" /\ Avd!Next /\ UNCHANGED <<part, vars, SdkVars, ToolVars, KeptVars>>
  \/ part = "images" /\ Sdk!Next /\ UNCHANGED <<part, vars, AvdVars, ToolVars, KeptVars>>
  \/ part = "tools" /\ Tool!Next /\ UNCHANGED <<part, vars, AvdVars, SdkVars, KeptVars>>
  \/ part = "caches" /\ Kept!Next /\ UNCHANGED <<part, vars, AvdVars, SdkVars, ToolVars>>

AllSpec == AllInit /\ [][AllNext]_all
-----------------------------------------------------------------------------
\* The file of an AVD is whole and an edit changes what it names.
AvdKeeps == Avd!ConfigIsWhole /\ Avd!EditIsShown

\* What is listed, chosen, installed or opened is what is there.
ToolsAreTrue == /\ Sdk!ListingIsTrue /\ Tool!ChoiceIsServed /\ Tool!ToldWhatIsThere
                /\ Kept!InstalledIsWhole /\ Kept!OpenedIsOneApp
=============================================================================
