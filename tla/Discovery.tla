----------------------------- MODULE Discovery -----------------------------
(***************************************************************************)
(* DiscoveryService and DiscoveryTable (core/s07_discovery): announcing    *)
(* over mDNS, UDP broadcast or a manual configuration, listening, and the  *)
(* table of the nodes heard of.  All calls come from one thread.           *)
(*                                                                         *)
(* A record is its epoch, protocol version and topology name, and the      *)
(* details the table does not compare: capabilities and addresses.  The    *)
(* service fills in no addresses on any of its paths.  lastUpdated is      *)
(* kept as an age, which stops one above maxAge.  The statistics           *)
(* counters of the table are left out.  MdnsAnnouncer is what it publishes *)
(* here (its own life cycle is in module Announcer), the listener whether  *)
(* it browses and with which callback.                                     *)
(***************************************************************************)
EXTENDS Integers

CONSTANTS
    DiscNodes,        \* other nodes
    Digests,          \* what this node may announce
    NoDigest,         \* currentDigest_ is empty, the announcer is not running
    NoEntry,          \* the node is not in the table
    MaxRecordEpoch,   \* bound: epochs in records
    TopologyNames,    \* topology names
    Versions,         \* the protocol versions peers announce
    JunkVersion,      \* what an uninitialised version may happen to hold
    EmptyName,        \* the empty topology name
    Details,          \* what peers announce beside
    NoDetails,        \* a record without
    MaxAge            \* the age above which pruneStale removes an entry

ASSUME DiscoveryAssumption ==
    /\ NoDigest \notin Digests
    /\ MaxRecordEpoch \in Nat /\ MaxAge \in Nat
    /\ EmptyName \notin TopologyNames

VARIABLES
    table,       \* DiscoveryTable::entries_: record and age, or NoEntry
    announcing, listening,  \* announcing_, listening_
    transport,   \* transport_
    digest,      \* currentDigest_
    mdnsTxt,     \* the digest the running mDNS announcer publishes, or NoDigest
    udpOpen,     \* LanBroadcastFallback::running_
    manualOn,    \* ManualConfigFallback::running_
    endpoints,   \* the nodes of the manual configuration
    browse,      \* MdnsListener: "off", "deaf" (no callback copied) or "hearing"
    callbackSet, \* MdnsListener::callback_ is set
    newest,      \* history: the key of the newest session's last record since insertion
    told,        \* history: the details of that session's records since then
    silent       \* history: time since such a record, capped like the ages

annVarsOf == <<announcing, transport, digest, mdnsTxt, udpOpen>>
tableVars == <<table, newest, told, silent>>
discVars == <<annVarsOf, tableVars, listening, manualOn, endpoints, browse, callbackSet>>

(* toTxtRecord writes a node id as two decimal numbers; the browse         *)
(* callback reads two hexadecimal ones: an id that nobody has.             *)
Mangled(n) == <<n>>
DiscIds == DiscNodes \cup {Mangled(n) : n \in DiscNodes}

Names == TopologyNames \cup {EmptyName}
Keys == [epoch : 0 .. MaxRecordEpoch, version : Versions \cup {JunkVersion}, topology : Names]
AllDetails == Details \cup {NoDetails}
Records == [key : Keys, details : AllDetails]
Entry(r, a) == [record |-> r, age |-> a]

ASSUME EntryAssumption ==
    NoEntry \notin Keys /\ NoEntry \notin [record : Records, age : 0 .. MaxAge + 1]

DiscInit ==
    /\ table = [n \in DiscIds |-> NoEntry] /\ newest = [n \in DiscIds |-> NoEntry]
    /\ told = [n \in DiscIds |-> {}] /\ silent = [n \in DiscIds |-> 0]
    /\ announcing = FALSE /\ listening = FALSE /\ transport = "None" /\ digest = NoDigest
    /\ mdnsTxt = NoDigest /\ udpOpen = FALSE /\ manualOn = FALSE /\ endpoints = {}
    /\ browse = "off" /\ callbackSet = FALSE

-----------------------------------------------------------------------------
(* The table.                                                              *)

(* Mutant: a repeated record does not renew the entry. *)
UpsertedNotRenewed(e, r) ==
    CASE e = NoEntry -> Entry(r, 0)
      [] e # NoEntry /\ e.record.key.epoch > r.key.epoch -> e
      [] e # NoEntry /\ e.record.key.epoch <= r.key.epoch /\ e.record.key = r.key -> e
      [] OTHER -> Entry(r, 0)

(* upsertWithResult: a stale record is ignored; one whose key is that of   *)
(* the entry renews it but is not stored, whatever its details; any other  *)
(* one replaces it, in conflict or not.                                    *)
Upserted(e, r) ==
    CASE e = NoEntry -> Entry(r, 0)
      [] e # NoEntry /\ e.record.key.epoch > r.key.epoch -> e
      [] e # NoEntry /\ e.record.key.epoch <= r.key.epoch /\ e.record.key = r.key -> Entry(e.record, 0)
      [] OTHER -> Entry(r, 0)

(* The nodes S are heard with the records rec[n]. *)
Hear(S, rec) ==
    LET fresh(n) == n \in S /\ (table[n] = NoEntry \/ newest[n].epoch <= rec[n].key.epoch)
        again(n) == table[n] # NoEntry /\ newest[n].epoch = rec[n].key.epoch
    IN  /\ table' = [n \in DiscIds |-> IF n \in S THEN Upserted(table[n], rec[n]) ELSE table[n]]
        /\ newest' = [n \in DiscIds |-> IF fresh(n) THEN rec[n].key ELSE newest[n]]
        /\ told' = [n \in DiscIds |-> IF fresh(n) THEN (IF again(n) THEN told[n] ELSE {}) \cup {rec[n].details}
                                       ELSE told[n]]
        /\ silent' = [n \in DiscIds |-> IF fresh(n) THEN 0 ELSE silent[n]]

Forget(S) ==
    /\ table' = [n \in DiscIds |-> IF n \in S THEN NoEntry ELSE table[n]]
    /\ newest' = [n \in DiscIds |-> IF n \in S THEN NoEntry ELSE newest[n]]
    /\ told' = [n \in DiscIds |-> IF n \in S THEN {} ELSE told[n]]
    /\ silent' = [n \in DiscIds |-> IF n \in S THEN 0 ELSE silent[n]]

ClearDiscovered ==
    /\ Forget(DiscIds)
    /\ UNCHANGED <<annVarsOf, listening, manualOn, endpoints, browse, callbackSet>>

PruneStale ==
    /\ Forget({n \in DiscIds : table[n] # NoEntry /\ table[n].age > MaxAge})
    /\ UNCHANGED <<annVarsOf, listening, manualOn, endpoints, browse, callbackSet>>

Older(a) == IF a > MaxAge THEN a ELSE a + 1

Tick ==
    /\ table' = [n \in DiscIds |-> IF table[n] = NoEntry THEN NoEntry
                                     ELSE [table[n] EXCEPT !.age = Older(@)]]
    /\ silent' = [n \in DiscIds |-> IF table[n] = NoEntry THEN 0 ELSE Older(silent[n])]
    /\ UNCHANGED <<annVarsOf, newest, told, listening, manualOn, endpoints, browse, callbackSet>>

(* handleDiscoveryAnnouncement. *)
HandleDiscoveryAnnouncement(n, r) ==
    /\ listening
    /\ Hear({n}, [m \in {n} |-> r])
    /\ UNCHANGED <<annVarsOf, listening, manualOn, endpoints, browse, callbackSet>>

(* What the callback gets out of the TXT entries: it looks for the         *)
(* topology under another name than it was written with, and for no        *)
(* capabilities.                                                           *)
FromTxt(r) == [key |-> [r.key EXCEPT !.topology = EmptyName], details |-> NoDetails]

(* The browse callback rebuilds the record from the TXT entries. *)
MdnsFound(n, r) ==
    /\ browse = "hearing"
    /\ Hear({Mangled(n)}, [m \in {Mangled(n)} |-> FromTxt(r)])
    /\ UNCHANGED <<annVarsOf, listening, manualOn, endpoints, browse, callbackSet>>

-----------------------------------------------------------------------------
(* Listening.                                                              *)

(* The listener copies its callback when it starts, and the service sets   *)
(* the callback afterwards: only a second start hears anything.            *)
StartListening ==
    /\ browse' = CASE browse # "off" -> browse
                   [] browse = "off" /\ callbackSet -> "hearing"
                   [] OTHER -> "deaf"
    /\ callbackSet' = TRUE /\ listening' = TRUE
    /\ UNCHANGED <<annVarsOf, tableVars, manualOn, endpoints>>

(* The record of a configured node. *)
Configured(v) == [key |-> [epoch |-> 0, version |-> v, topology |-> EmptyName], details |-> NoDetails]

(* Browsing fails: the configured nodes enter the table, with an epoch 0   *)
(* and a protocol version that is not initialised, and the transport is    *)
(* the manual one whatever it was.                                         *)
StartListeningManually ==
    /\ browse = "off"
    /\ listening' = TRUE
    /\ IF endpoints = {} THEN UNCHANGED <<tableVars, manualOn, transport>>
       ELSE /\ manualOn' = TRUE /\ transport' = "ManualConfig"
            /\ \E v \in [endpoints -> Versions \cup {JunkVersion}] :
                  Hear(endpoints, [n \in endpoints |-> Configured(v[n])])
    /\ UNCHANGED <<announcing, digest, mdnsTxt, udpOpen, endpoints, browse, callbackSet>>

StopListening ==
    /\ browse' = "off" /\ listening' = FALSE
    /\ manualOn' = (manualOn /\ transport # "ManualConfig")
    /\ UNCHANGED <<annVarsOf, tableVars, endpoints, callbackSet>>

(* setManualConfigEndpoints, or a configuration file. *)
SetManualConfigEndpoints(S) ==
    /\ endpoints' = S
    /\ UNCHANGED <<annVarsOf, tableVars, listening, manualOn, browse, callbackSet>>

-----------------------------------------------------------------------------
(* Announcing.                                                             *)

(* mDNS: an announcer that already runs goes on with what it publishes. *)
AnnounceMdns(d) ==
    /\ mdnsTxt' = IF mdnsTxt = NoDigest THEN d ELSE mdnsTxt
    /\ transport' = "Mdns" /\ announcing' = TRUE /\ digest' = d
    /\ UNCHANGED <<tableVars, udpOpen, listening, manualOn, endpoints, browse, callbackSet>>

(* UdpBroadcast::open succeeds. *)
UdpOpens == udpOpen' = TRUE

(* mDNS fails and the broadcast works. *)
AnnounceUdp(d) ==
    /\ mdnsTxt = NoDigest
    /\ UdpOpens /\ transport' = "UdpBroadcast" /\ announcing' = TRUE /\ digest' = d
    /\ UNCHANGED <<tableVars, mdnsTxt, listening, manualOn, endpoints, browse, callbackSet>>

(* Neither works, and a socket whose first broadcast fails stays open; the *)
(* last resort is the manual configuration, if there is one.               *)
AnnounceManually(d) ==
    /\ mdnsTxt = NoDigest
    /\ UdpOpens \/ UNCHANGED udpOpen
    /\ digest' = d
    /\ IF endpoints = {} THEN UNCHANGED <<manualOn, transport, announcing>>
       ELSE manualOn' = TRUE /\ transport' = "ManualConfig" /\ announcing' = TRUE
    /\ UNCHANGED <<tableVars, mdnsTxt, listening, endpoints, browse, callbackSet>>

(* What transport_ names is stopped, and only that. *)
StopAnnouncing ==
    /\ mdnsTxt' = IF transport = "Mdns" THEN NoDigest ELSE mdnsTxt
    /\ udpOpen' = (udpOpen /\ transport # "UdpBroadcast")
    /\ manualOn' = (manualOn /\ transport # "ManualConfig")
    /\ announcing' = FALSE /\ digest' = NoDigest /\ transport' = "None"
    /\ UNCHANGED <<tableVars, listening, endpoints, browse, callbackSet>>

(* updateTxt stops and starts the announcer; when the start fails the node *)
(* is silent although announcing_ holds.                                   *)
UpdateDigest(d) ==
    /\ announcing
    /\ digest' = d
    /\ IF transport = "Mdns" /\ mdnsTxt # NoDigest
       THEN mdnsTxt' \in {d, NoDigest}
       ELSE UNCHANGED mdnsTxt
    /\ UNCHANGED <<tableVars, announcing, transport, udpOpen, listening, manualOn, endpoints,
                   browse, callbackSet>>

DiscNext ==
    \/ ClearDiscovered \/ PruneStale \/ Tick
    \/ \E n \in DiscNodes, r \in {q \in Records : q.key.version \in Versions} :
          HandleDiscoveryAnnouncement(n, r) \/ MdnsFound(n, r)
    \/ StartListening \/ StartListeningManually \/ StopListening
    \/ \E S \in SUBSET DiscNodes : SetManualConfigEndpoints(S)
    \/ \E d \in Digests : AnnounceMdns(d) \/ AnnounceUdp(d) \/ AnnounceManually(d) \/ UpdateDigest(d)
    \/ StopAnnouncing

DiscSpec == DiscInit /\ [][DiscNext]_discVars

-----------------------------------------------------------------------------
(* Properties.                                                             *)

(* Every variable has its type. *)
DiscTypeOK ==
    /\ table \in [DiscIds -> [record : Records, age : 0 .. MaxAge + 1] \cup {NoEntry}]
    /\ newest \in [DiscIds -> Keys \cup {NoEntry}] /\ told \in [DiscIds -> SUBSET AllDetails]
    /\ silent \in [DiscIds -> 0 .. MaxAge + 1]
    /\ {announcing, listening, udpOpen, manualOn, callbackSet} \subseteq BOOLEAN
    /\ transport \in {"None", "Mdns", "UdpBroadcast", "ManualConfig"}
    /\ digest \in Digests \cup {NoDigest} /\ mdnsTxt \in Digests \cup {NoDigest}
    /\ endpoints \subseteq DiscNodes /\ browse \in {"off", "deaf", "hearing"}

(* However records of several sessions, over several transports, arrive    *)
(* late or repeated: the entry of a node has the key of the last record of *)
(* the newest session heard of since the node was entered; its details are *)
(* some that this very session announced (the last ones they need not be:  *)
(* a record that repeats the key is not stored), never those of an earlier *)
(* session; and its age, by which pruneStale judges it, counts from the    *)
(* last time that session was heard, though it only repeated itself.       *)
TableHonest ==
    \A n \in DiscIds :
        IF table[n] = NoEntry THEN newest[n] = NoEntry
        ELSE /\ table[n].record.key = newest[n] /\ table[n].record.details \in told[n]
             /\ table[n].age = silent[n]

=============================================================================
