------------------------------ MODULE SdkImages ------------------------------
(***************************************************************************)
(* The system images of the SDK (sdk_packages.go): the tree on disk, the   *)
(* catalogue sdkmanager fetches and adbq keeps for 15 minutes, and the     *)
(* calls that list, install and remove.  The catalogue marks what was      *)
(* installed when it was fetched.                                          *)
(*                                                                         *)
(* An image is <<level, tag, abi>>, a level its number.                    *)
(***************************************************************************)
EXTENDS Naturals, FiniteSets, Sequences

CONSTANTS Images,    \* what the repository offers
          HostABIs,  \* the ABIs this computer runs, best first; empty: unknown
          Listers, MaxCalls   \* the listings under way, and a bound

VARIABLES
  disk,    \* the images in the tree
  cache,   \* the catalogue kept
  list,    \* the listings under way
  tool,    \* the install or removal under way
  shown,   \* the rows of the listing that ended last
  calls,
  gone     \* history: images adbq removed, with no catalogue being fetched

vars == <<disk, cache, list, tool, shown, calls, gone>>

Idle == [pc |-> "idle"]
None == [is |-> "none"]
Init == /\ disk \in {{}, {CHOOSE i \in Images : TRUE}}
        /\ cache = None /\ list = [l \in Listers |-> Idle] /\ tool = Idle
        /\ shown = None /\ calls = 0 /\ gone = {}

-----------------------------------------------------------------------------
\* The pure functions.
abiRank(abi) == LET at == {n \in DOMAIN HostABIs : HostABIs[n] = abi} IN IF at = {} THEN 0 ELSE CHOOSE n \in at : TRUE
\* applyHostCompat claims nothing of a computer it does not know.
Compatible(i) == HostABIs = <<>> \/ abiRank(i[3]) # 0
PlayStore(i) == i[2] = "google_apis_playstore"
newSystemImage(i, installed) ==
  [pkg |-> i, api |-> i[1], playStore |-> PlayStore(i), rootable |-> ~PlayStore(i),
   compatible |-> Compatible(i), installed |-> installed]

NewestFirst(x, y) == x.api > y.api
\* Images this computer runs first, then the newest; the order of the rest is left open.
Before(x, y) == IF x.compatible # y.compatible THEN x.compatible ELSE NewestFirst(x, y)
Sorts(q, rows) == /\ \A x \in rows : \E n \in DOMAIN q : q[n] = x
                  /\ \A m, n \in DOMAIN q : m < n => ~Before(q[n], q[m])
sortSystemImages(rows) == CHOOSE q \in [1 .. Cardinality(rows) -> rows] : Sorts(q, rows)

\* parseSDKManagerList: the rows of both sections of the table.
parseSDKManagerList(installed) == {newSystemImage(i, TRUE) : i \in installed}
                                  \union {newSystemImage(i, FALSE) : i \in Images}
\* A slip: the catalogue's row replaces the tree's.
RemoteWins(installed, remote) ==
  {newSystemImage(i, \E r \in remote : r.pkg = i /\ r.installed) : i \in installed \union {r.pkg : r \in remote}}
\* mergeSystemImages: a row is installed when the tree or the catalogue says so.
mergeSystemImages(installed, remote) ==
  {newSystemImage(i, i \in installed \/ \E r \in remote : r.pkg = i /\ r.installed) :
     i \in installed \union {r.pkg : r \in remote}}

-----------------------------------------------------------------------------
Fetching == \E l \in Listers : list[l].pc = "fetch"
Shows(installed, remote, since) == shown' = [is |-> "rows", rows |-> sortSystemImages(mergeSystemImages(installed, remote)),
                                             disk |-> installed, gone |-> since]

\* ListInstalledImages reads the tree; a directory without source.properties is none.
ListInstalledImages == disk
\* ListSystemImages: the tree first, then the catalogue, kept or fetched.
ListSystemImages(l) ==
  /\ list[l] = Idle /\ calls < MaxCalls /\ calls' = calls + 1
  /\ list' = [list EXCEPT ![l] = [pc |-> "look", installed |-> ListInstalledImages, gone |-> gone, rows |-> {}]]
  /\ UNCHANGED <<disk, cache, tool, shown, gone>>
ListKept(l) ==
  /\ list[l].pc = "look" /\ cache # None
  /\ Shows(list[l].installed, cache.rows, list[l].gone \cap gone)
  /\ list' = [list EXCEPT ![l] = Idle] /\ UNCHANGED <<disk, cache, tool, calls, gone>>
\* refresh asks for a new one although one is kept.
fetchRemoteImages(l) ==
  /\ list[l].pc = "look"
  /\ list' = [list EXCEPT ![l].pc = "fetch", ![l].rows = parseSDKManagerList(disk)]
  /\ UNCHANGED <<disk, cache, tool, shown, calls, gone>>
ListFetched(l) ==
  /\ list[l].pc = "fetch" /\ cache' = [is |-> "kept", rows |-> list[l].rows]
  /\ Shows(list[l].installed, list[l].rows, list[l].gone \cap gone)
  /\ list' = [list EXCEPT ![l] = Idle] /\ UNCHANGED <<disk, tool, calls, gone>>
\* Without the tools or the network the installed half is still returned.
ListOffline(l) ==
  /\ list[l].pc \in {"look", "fetch"}
  /\ Shows(list[l].installed, {}, list[l].gone \cap gone)
  /\ list' = [list EXCEPT ![l] = Idle] /\ UNCHANGED <<disk, cache, tool, calls, gone>>

InstallSystemImage == /\ tool = Idle /\ calls < MaxCalls /\ calls' = calls + 1
                      /\ \E i \in Images \ disk : tool' = [pc |-> "install", image |-> i]
                      /\ UNCHANGED <<disk, cache, list, shown, gone>>
UninstallSystemImage == /\ tool = Idle /\ calls < MaxCalls /\ calls' = calls + 1
                        /\ \E i \in disk : tool' = [pc |-> "remove", image |-> i]
                        /\ UNCHANGED <<disk, cache, list, shown, gone>>
ToolDone == /\ tool.pc \in {"install", "remove"}
            /\ disk' = IF tool.pc = "install" THEN disk \union {tool.image} ELSE disk \ {tool.image}
            /\ tool' = [tool EXCEPT !.pc = IF @ = "install" THEN "installed" ELSE "removed"]
            /\ gone' = gone \ {tool.image}
            /\ UNCHANGED <<cache, list, shown, calls>>
ToolFails == tool.pc \in {"install", "remove"} /\ tool' = Idle /\ UNCHANGED <<disk, cache, list, shown, calls, gone>>
Kept == cache' = cache
Invalidate == cache' = None
ToolEnds == /\ tool.pc \in {"installed", "removed"} /\ Invalidate /\ tool' = Idle
            /\ gone' = IF tool.pc = "removed" /\ ~Fetching THEN gone \union {tool.image} ELSE gone
            /\ UNCHANGED <<disk, list, shown, calls>>
Expires == cache # None /\ cache' = None /\ UNCHANGED <<disk, list, tool, shown, calls, gone>>

Next == \/ \E l \in Listers : ListSystemImages(l) \/ ListKept(l) \/ fetchRemoteImages(l) \/ ListFetched(l) \/ ListOffline(l)
        \/ InstallSystemImage \/ UninstallSystemImage \/ ToolDone \/ ToolFails \/ ToolEnds \/ Expires
Spec == Init /\ [][Next]_vars

-----------------------------------------------------------------------------
\* What is on disk is listed as installed whatever the catalogue says or does not say;
\* an image adbq removed is not, unless a catalogue was being fetched across the
\* removal (which is then kept for 15 minutes although it was invalidated); and no
\* image this computer runs stands behind one it does not, or behind an older one.
ListingIsTrue ==
  shown # None =>
    /\ \A i \in shown.disk : \E n \in DOMAIN shown.rows : shown.rows[n].pkg = i /\ shown.rows[n].installed
    /\ \A n \in DOMAIN shown.rows : shown.rows[n].pkg \in shown.gone \ shown.disk => ~shown.rows[n].installed
    /\ \A m, n \in DOMAIN shown.rows :
         m < n /\ shown.rows[n].compatible => shown.rows[m].compatible /\ shown.rows[m].api >= shown.rows[n].api
=============================================================================
