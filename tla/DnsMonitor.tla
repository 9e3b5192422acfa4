----------------------------- MODULE DnsMonitor -----------------------------
(***************************************************************************)
(* The Windows DNS monitor that writes the tunnel's resolvers into the     *)
(* TCP/IP registry keys of an interface (talpid-core dns/windows/tcpip.rs).*)
(*                                                                         *)
(* An interface has a Tcpip (IPv4) and a Tcpip6 key; set_dns writes the    *)
(* servers of each family into NameServer of its key inside one registry  *)
(* transaction, or deletes NameServer when the family has none.  A         *)
(* server list is abstracted to the families it holds, and the value a    *)
(* write leaves to the configuration it came from, so that a key can be   *)
(* told apart from its sibling.  The caller (the tunnel state machine,    *)
(* through the DNS port of spec.md section 6) may call set and reset in   *)
(* any order.  OS calls that can fail are nondeterministic when           *)
(* OsCallsMayFail holds.                                                  *)
(***************************************************************************)
CONSTANTS
    Ifaces,          \* interface GUIDs the alias lookup can return
    NoGuid,          \* Option<GUID>::None
    Unset,           \* a key with no NameServer value
    OsCallsMayFail   \* whether lookups, transactions and flushes can fail

ASSUME DnsConstantsAssumption ==
    /\ Ifaces # {}
    /\ NoGuid \notin Ifaces
    /\ OsCallsMayFail \in BOOLEAN

Services == {"Tcpip", "Tcpip6"}

(* The address family of the servers a service's key lists.                *)
Family == [s \in Services |-> IF s = "Tcpip" THEN "v4" ELSE "v6"]

(* The families of the tunnel_config() servers of a ResolvedDnsConfig.    *)
Configs == SUBSET {"v4", "v6"}

(* Whether an OS call succeeded.                                           *)
OsOutcomes == IF OsCallsMayFail THEN BOOLEAN ELSE {TRUE}

VARIABLES
    guid,         \* current_guid
    shouldFlush,  \* should_flush
    keys,         \* which interface keys exist in the registry
    reg,          \* the NameServer value of each interface key
    stale,        \* the resolver cache may predate the registry
    res,          \* the Result of the last call: "None", "Ok" or "Err"
    lastOp        \* the interface and servers the last call wrote

vars == <<guid, shouldFlush, keys, reg, stale, res, lastOp>>

Values == Configs \cup {Unset}

TypeOK ==
    /\ guid \in Ifaces \cup {NoGuid}
    /\ shouldFlush \in BOOLEAN
    /\ keys \in [Ifaces -> [Services -> BOOLEAN]]
    /\ reg \in [Ifaces -> [Services -> Values]]
    /\ stale \in BOOLEAN
    /\ res \in {"None", "Ok", "Err"}
    /\ lastOp \in [iface: Ifaces \cup {NoGuid}, cfg: Configs]
-----------------------------------------------------------------------------
(* The NameServer value config_interface leaves for servers c: their       *)
(* addresses of the key's family, joined, or no value when there are none.*)
Derived(c, s) == IF Family[s] \in c THEN c ELSE Unset

(* config_interface cannot succeed when the key is missing and there are  *)
(* servers to write; a missing key with nothing to write is Ok.            *)
ConfigInterfaceCanSucceed(i, s, c) == keys[i][s] \/ Family[s] \notin c

(* The keys of interface i after a committed set_dns of servers c.         *)
Written(i, c) == [s \in Services |-> IF keys[i][s] THEN Derived(c, s) ELSE reg[i][s]]

(* config_interface can succeed for both keys of i.                        *)
CanWriteAll(i, c) == \A s \in Services : ConfigInterfaceCanSucceed(i, s, c)

(* Mutant: a failed transaction keeps the Tcpip write made before the      *)
(* Tcpip6 write failed.                                                    *)
SetDnsNoRollback(i, c) ==
    (IF OsCallsMayFail \/ ~CanWriteAll(i, c)
       THEN {[ok |-> FALSE,
              val |-> IF ConfigInterfaceCanSucceed(i, "Tcpip", c)
                        THEN [reg[i] EXCEPT !["Tcpip"] = Written(i, c)["Tcpip"]]
                        ELSE reg[i]]}
       ELSE {})
    \cup (IF CanWriteAll(i, c) THEN {[ok |-> TRUE, val |-> Written(i, c)]} ELSE {})

(* set_dns with set_dns_inner and config_interface: the possible outcomes *)
(* of the transaction, and the keys of i it leaves.  Any OS call may fail *)
(* and roll the transaction back; a missing key that must be written       *)
(* always does.  Failures of the LLMNR write are only logged.              *)
SetDns(i, c) ==
    (IF OsCallsMayFail \/ ~CanWriteAll(i, c) THEN {[ok |-> FALSE, val |-> reg[i]]} ELSE {})
    \cup (IF CanWriteAll(i, c) THEN {[ok |-> TRUE, val |-> Written(i, c)]} ELSE {})

Init ==
    /\ guid = NoGuid
    /\ shouldFlush = TRUE
    /\ keys \in [Ifaces -> [Services -> BOOLEAN]]
    /\ reg = [i \in Ifaces |-> [s \in Services |-> Unset]]
    /\ stale = FALSE
    /\ res = "None"
    /\ lastOp = [iface |-> NoGuid, cfg |-> {}]

(* DnsMonitor::set: look up the interface (which may fail), run the        *)
(* transaction, record the GUID once it committed, then flush if asked.    *)
Set(i, c) ==
    /\ lastOp' = [iface |-> i, cfg |-> c]
    /\ UNCHANGED <<shouldFlush, keys>>
    /\ \E lookupOk \in OsOutcomes, r \in SetDns(i, c), flushOk \in OsOutcomes :
         \/ /\ ~lookupOk
            /\ res' = "Err"
            /\ UNCHANGED <<guid, reg, stale>>
         \/ /\ lookupOk /\ ~r.ok
            /\ res' = "Err"
            /\ reg' = [reg EXCEPT ![i] = r.val]
            /\ UNCHANGED <<guid, stale>>
         \/ /\ lookupOk /\ r.ok
            /\ reg' = [reg EXCEPT ![i] = r.val]
            /\ guid' = i
            /\ stale' = ~(shouldFlush /\ flushOk)
            /\ res' = IF shouldFlush /\ ~flushOk THEN "Err" ELSE "Ok"

(* Mutant: reset returns the result of set_dns and ignores the flush.     *)
ResetIgnoresFlush ==
    /\ UNCHANGED <<shouldFlush, keys>>
    /\ \/ /\ guid = NoGuid
          /\ res' = "Ok"
          /\ lastOp' = [iface |-> NoGuid, cfg |-> {}]
          /\ UNCHANGED <<guid, reg, stale>>
       \/ /\ guid # NoGuid
          /\ guid' = NoGuid
          /\ lastOp' = [iface |-> guid, cfg |-> {}]
          /\ \E r \in SetDns(guid, {}), flushOk \in OsOutcomes :
               /\ reg' = [reg EXCEPT ![guid] = r.val]
               /\ stale' = IF shouldFlush /\ flushOk THEN FALSE ELSE stale \/ r.ok
               /\ res' = IF r.ok THEN "Ok" ELSE "Err"

(* DnsMonitor::reset: take current_guid, clear its servers, and flush;     *)
(* the flush runs even when clearing failed, and either error is returned.*)
Reset ==
    /\ UNCHANGED <<shouldFlush, keys>>
    /\ \/ /\ guid = NoGuid
          /\ res' = "Ok"
          /\ lastOp' = [iface |-> NoGuid, cfg |-> {}]
          /\ UNCHANGED <<guid, reg, stale>>
       \/ /\ guid # NoGuid
          /\ guid' = NoGuid
          /\ lastOp' = [iface |-> guid, cfg |-> {}]
          /\ \E r \in SetDns(guid, {}), flushOk \in OsOutcomes :
               /\ reg' = [reg EXCEPT ![guid] = r.val]
               /\ stale' = IF shouldFlush /\ flushOk THEN FALSE ELSE stale \/ r.ok
               /\ res' = IF r.ok /\ (~shouldFlush \/ flushOk) THEN "Ok" ELSE "Err"

(* DnsMonitor::disable_flushing                                            *)
DisableFlushing ==
    /\ shouldFlush' = FALSE
    /\ UNCHANGED <<guid, keys, reg, stale, res, lastOp>>

Next ==
    \/ \E i \in Ifaces, c \in Configs : Set(i, c)
    \/ Reset
    \/ DisableFlushing

Spec == Init /\ [][Next]_vars
-----------------------------------------------------------------------------
(* The IPv4 and IPv6 keys of every interface always hold the servers of   *)
(* one and the same configuration: set_dns writes both inside one         *)
(* registry transaction and rolls back when either write fails, so no     *)
(* failure between the two writes leaves them disagreeing.                *)
RegistryConsistent ==
    \A i \in Ifaces : \E c \in Configs : \A s \in Services :
        keys[i][s] => reg[i][s] = Derived(c, s)

(* A call that returned Ok has done what the DNS port promises: the        *)
(* interface it wrote holds exactly the requested servers and, unless     *)
(* flushing was disabled, the resolver cache has been flushed since.      *)
AppliedWhenOk ==
    res = "Ok" /\ lastOp.iface # NoGuid =>
        /\ \A s \in Services : keys[lastOp.iface][s] =>
                                  reg[lastOp.iface][s] = Derived(lastOp.cfg, s)
        /\ shouldFlush => ~stale

(* Our servers are only ever left on the interface current_guid names, so *)
(* that reset() can remove them: no other interface holds a NameServer    *)
(* value written by the monitor.                                          *)
OurServersTracked ==
    \A i \in Ifaces \ {guid} : \A s \in Services : reg[i][s] = Unset
=============================================================================
