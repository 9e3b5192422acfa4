--------------------------- MODULE DnsMonitorProofs ---------------------------
(***************************************************************************)
(* Proofs that the registry writes of the Windows DNS monitor never leave  *)
(* an interface's two keys disagreeing, and that an Ok result means the   *)
(* requested servers are in place and the cache flushed, for any set of    *)
(* interfaces and whether or not OS calls fail.                            *)
(*                                                                         *)
(* Both properties are inductive once the variables are typed: every      *)
(* outcome of set_dns either leaves an interface's keys as they were or   *)
(* writes Written(i, c), which agrees with configuration c on both keys.   *)
(***************************************************************************)
EXTENDS DnsMonitor, TLAPS

USE DnsConstantsAssumption

(* The outcomes set_dns can have: a committed transaction that wrote       *)
(* Written(i, c), or a rolled-back one that left the keys alone.           *)
LEMMA SetDnsOutcomes ==
    ASSUME NEW i \in Ifaces, NEW c \in Configs, NEW r \in SetDns(i, c)
    PROVE \/ r.ok = TRUE /\ r.val = Written(i, c)
          \/ r.ok = FALSE /\ r.val = reg[i]
<1>1. CASE r \in (IF OsCallsMayFail \/ ~CanWriteAll(i, c)
                    THEN {[ok |-> FALSE, val |-> reg[i]]} ELSE {})
  <2>1. r = [ok |-> FALSE, val |-> reg[i]]
    BY <1>1
  <2>2. QED
    BY <2>1
<1>2. CASE r \in (IF CanWriteAll(i, c) THEN {[ok |-> TRUE, val |-> Written(i, c)]} ELSE {})
  <2>1. r = [ok |-> TRUE, val |-> Written(i, c)]
    BY <1>2
  <2>2. QED
    BY <2>1
<1>3. QED
  BY <1>1, <1>2 DEF SetDns

(* Written(i, c) agrees with configuration c on every existing key.        *)
LEMMA WrittenConsistent ==
    ASSUME NEW i \in Ifaces, NEW c \in Configs
    PROVE \A s \in Services : keys[i][s] => Written(i, c)[s] = Derived(c, s)
  BY DEF Written

(* Under a typed state, every outcome of set_dns is a typed result.        *)
LEMMA SetDnsType ==
    ASSUME TypeOK, NEW i \in Ifaces, NEW c \in Configs, NEW r \in SetDns(i, c)
    PROVE r.ok \in BOOLEAN /\ r.val \in [Services -> Values]
<1>1. Written(i, c) \in [Services -> Values]
  BY DEF Written, Derived, Values, TypeOK
<1>2. QED
  BY <1>1, SetDnsOutcomes DEF TypeOK

(* DnsMonitor::new leaves every key without a NameServer value.            *)
THEOREM DnsTypeInit == Init => TypeOK
<1> SUFFICES ASSUME Init PROVE TypeOK
  OBVIOUS
<1>1. {} \in Configs /\ Unset \in Values
  BY DEF Configs, Values
<1>2. reg \in [Ifaces -> [Services -> Values]]
  BY <1>1 DEF Init
<1>3. lastOp \in [iface: Ifaces \cup {NoGuid}, cfg: Configs]
  BY <1>1 DEF Init
<1>4. QED
  BY <1>2, <1>3 DEF Init, TypeOK

(* Every call keeps the state well typed.                                  *)
THEOREM DnsTypeNext == TypeOK /\ [Next]_vars => TypeOK'
<1> SUFFICES ASSUME TypeOK, [Next]_vars PROVE TypeOK'
  OBVIOUS
<1>0. OsOutcomes \subseteq BOOLEAN
  BY DEF OsOutcomes
<1>1. ASSUME NEW i \in Ifaces, NEW c \in Configs, Set(i, c) PROVE TypeOK'
  <2>1. PICK lookupOk \in OsOutcomes, r \in SetDns(i, c), flushOk \in OsOutcomes :
          \/ /\ ~lookupOk
             /\ res' = "Err"
             /\ UNCHANGED <<guid, reg, stale>>
          \/ /\ lookupOk /\ ~r.ok
             /\ res' = "Err"
             /\ reg' = [reg EXCEPT ![i] = r.val]
             /\ UNCHANGED <<guid, stale>>
          \/ /\ lookupOk /\ r.ok
             /\ reg' = [reg EXCEPT ![i] = r.val]
             /\ guid' = i
             /\ stale' = ~(shouldFlush /\ flushOk)
             /\ res' = IF shouldFlush /\ ~flushOk THEN "Err" ELSE "Ok"
    BY <1>1 DEF Set
  <2>2. r.val \in [Services -> Values]
    BY SetDnsType
  <2>3. QED
    BY <1>0, <1>1, <2>1, <2>2 DEF Set, TypeOK
<1>2. CASE Reset
  <2>1. CASE guid = NoGuid
    <3>1. {} \in Configs
      BY DEF Configs
    <3>2. /\ res' = "Ok"
          /\ lastOp' = [iface |-> NoGuid, cfg |-> {}]
          /\ UNCHANGED <<guid, reg, stale, shouldFlush, keys>>
      BY <1>2, <2>1 DEF Reset
    <3>3. QED
      BY <3>1, <3>2 DEF TypeOK
  <2>2. CASE guid # NoGuid
    <3>1. PICK r \in SetDns(guid, {}), flushOk \in OsOutcomes :
            /\ reg' = [reg EXCEPT ![guid] = r.val]
            /\ stale' = IF shouldFlush /\ flushOk THEN FALSE ELSE stale \/ r.ok
            /\ res' = IF r.ok /\ (~shouldFlush \/ flushOk) THEN "Ok" ELSE "Err"
      BY <1>2, <2>2 DEF Reset
    <3>2. r.val \in [Services -> Values] /\ r.ok \in BOOLEAN
      <4>1. guid \in Ifaces /\ {} \in Configs
        BY <2>2 DEF TypeOK, Configs
      <4>2. QED
        BY <4>1, SetDnsType
    <3>3. lastOp' \in [iface: Ifaces \cup {NoGuid}, cfg: Configs]
      <4>1. {} \in Configs
        BY DEF Configs
      <4>2. lastOp' = [iface |-> guid, cfg |-> {}]
        BY <1>2, <2>2 DEF Reset
      <4>3. guid \in Ifaces \cup {NoGuid}
        BY DEF TypeOK
      <4>4. QED
        BY <4>1, <4>2, <4>3
    <3>4. guid' = NoGuid /\ UNCHANGED <<shouldFlush, keys>>
      BY <1>2, <2>2 DEF Reset
    <3>5. stale' \in BOOLEAN /\ res' \in {"None", "Ok", "Err"}
      BY <1>0, <3>1, <3>2 DEF TypeOK
    <3>6. reg' \in [Ifaces -> [Services -> Values]]
      BY <2>2, <3>1, <3>2 DEF TypeOK
    <3>7. QED
      BY <3>3, <3>4, <3>5, <3>6 DEF TypeOK
  <2>3. QED
    BY <2>1, <2>2
<1>3. CASE DisableFlushing
  BY <1>3 DEF DisableFlushing, TypeOK
<1>4. CASE UNCHANGED vars
  BY <1>4 DEF vars, TypeOK
<1>5. QED
  BY <1>1, <1>2, <1>3, <1>4 DEF Next
-----------------------------------------------------------------------------
(* The inductive invariant: the two properties hold together with typing. *)
DnsInv == TypeOK /\ RegistryConsistent /\ AppliedWhenOk

(* Overwriting the keys of one interface with its old value or with the   *)
(* value a committed set_dns leaves keeps every interface consistent.     *)
LEMMA RegistryAfterWrite ==
    ASSUME TypeOK, RegistryConsistent,
           NEW i \in Ifaces, NEW v,
           v = reg[i] \/ \E c \in Configs : v = Written(i, c),
           reg' = [reg EXCEPT ![i] = v], keys' = keys
    PROVE RegistryConsistent'
<1> SUFFICES ASSUME NEW j \in Ifaces
             PROVE \E c \in Configs : \A s \in Services :
                       keys'[j][s] => reg'[j][s] = Derived(c, s)
  BY DEF RegistryConsistent
<1>1. CASE j # i
  BY <1>1 DEF RegistryConsistent, TypeOK
<1>2. CASE j = i /\ v = reg[i]
  BY <1>2 DEF RegistryConsistent, TypeOK
<1>3. CASE j = i /\ \E c \in Configs : v = Written(i, c)
  <2>1. PICK c \in Configs : v = Written(i, c)
    BY <1>3
  <2>2. \A s \in Services : keys'[j][s] => reg'[j][s] = Derived(c, s)
    BY <1>3, <2>1, WrittenConsistent DEF TypeOK
  <2>3. QED
    BY <2>2
<1>4. QED
  BY <1>1, <1>2, <1>3

(* DnsMonitor::new starts with no servers written and no call returned.    *)
THEOREM DnsInvInit == Init => DnsInv
<1> SUFFICES ASSUME Init PROVE DnsInv
  OBVIOUS
<1>1. {} \in Configs
  BY DEF Configs
<1>2. RegistryConsistent
  <2> SUFFICES ASSUME NEW i \in Ifaces
               PROVE \A s \in Services : keys[i][s] => reg[i][s] = Derived({}, s)
    BY <1>1 DEF RegistryConsistent
  <2> QED
    BY DEF Init, Derived
<1>3. QED
  BY <1>2, DnsTypeInit DEF DnsInv, AppliedWhenOk, Init

(* Every set, reset and disable_flushing keeps the registry consistent,   *)
(* and an Ok result describes the registry and the cache it leaves.       *)
THEOREM DnsInvNext == DnsInv /\ [Next]_vars => DnsInv'
<1> SUFFICES ASSUME DnsInv, [Next]_vars PROVE DnsInv'
  OBVIOUS
<1>0. /\ TypeOK /\ TypeOK' /\ RegistryConsistent /\ AppliedWhenOk
      /\ OsOutcomes \subseteq BOOLEAN
  BY DnsTypeNext DEF DnsInv, OsOutcomes
<1>1. ASSUME NEW i \in Ifaces, NEW c \in Configs, Set(i, c) PROVE DnsInv'
  <2>1. PICK lookupOk \in OsOutcomes, r \in SetDns(i, c), flushOk \in OsOutcomes :
          \/ /\ ~lookupOk
             /\ res' = "Err"
             /\ UNCHANGED <<guid, reg, stale>>
          \/ /\ lookupOk /\ ~r.ok
             /\ res' = "Err"
             /\ reg' = [reg EXCEPT ![i] = r.val]
             /\ UNCHANGED <<guid, stale>>
          \/ /\ lookupOk /\ r.ok
             /\ reg' = [reg EXCEPT ![i] = r.val]
             /\ guid' = i
             /\ stale' = ~(shouldFlush /\ flushOk)
             /\ res' = IF shouldFlush /\ ~flushOk THEN "Err" ELSE "Ok"
    BY <1>1 DEF Set
  <2>2. lastOp' = [iface |-> i, cfg |-> c] /\ UNCHANGED <<shouldFlush, keys>>
    BY <1>1 DEF Set
  <2>3. CASE ~lookupOk
    <3>1. RegistryConsistent'
      BY <1>0, <2>1, <2>2, <2>3 DEF RegistryConsistent
    <3>2. QED
      BY <1>0, <2>1, <2>3, <3>1 DEF DnsInv, AppliedWhenOk
  <2>4. CASE lookupOk /\ ~r.ok
    <3>1. r.val = reg[i] /\ reg' = [reg EXCEPT ![i] = r.val] /\ res' = "Err"
      BY <2>1, <2>4, SetDnsOutcomes
    <3>2. RegistryConsistent'
      BY <1>0, <2>2, <3>1, RegistryAfterWrite
    <3>3. QED
      BY <1>0, <3>1, <3>2 DEF DnsInv, AppliedWhenOk
  <2>5. CASE lookupOk /\ r.ok
    <3>1. /\ r.val = Written(i, c)
          /\ reg' = [reg EXCEPT ![i] = r.val]
          /\ stale' = ~(shouldFlush /\ flushOk)
          /\ res' = IF shouldFlush /\ ~flushOk THEN "Err" ELSE "Ok"
      BY <2>1, <2>5, SetDnsOutcomes
    <3>2. RegistryConsistent'
      BY <1>0, <2>2, <3>1, RegistryAfterWrite
    <3>3. \A s \in Services : keys'[i][s] => reg'[i][s] = Derived(c, s)
      BY <1>0, <2>2, <3>1, WrittenConsistent DEF TypeOK
    <3>4. res' = "Ok" /\ shouldFlush' => ~stale'
      BY <1>0, <2>2, <3>1, flushOk \in BOOLEAN DEF TypeOK
    <3>5. QED
      BY <1>0, <2>2, <3>2, <3>3, <3>4 DEF DnsInv, AppliedWhenOk
  <2>6. QED
    BY <2>3, <2>4, <2>5
<1>2. CASE Reset
  <2>1. CASE guid = NoGuid
    <3>1. /\ lastOp' = [iface |-> NoGuid, cfg |-> {}]
          /\ UNCHANGED <<reg, keys>>
      BY <1>2, <2>1 DEF Reset
    <3>2. RegistryConsistent'
      BY <1>0, <3>1 DEF RegistryConsistent
    <3>3. QED
      BY <1>0, <3>1, <3>2 DEF DnsInv, AppliedWhenOk
  <2>2. CASE guid # NoGuid
    <3>1. PICK r \in SetDns(guid, {}), flushOk \in OsOutcomes :
            /\ reg' = [reg EXCEPT ![guid] = r.val]
            /\ stale' = IF shouldFlush /\ flushOk THEN FALSE ELSE stale \/ r.ok
            /\ res' = IF r.ok /\ (~shouldFlush \/ flushOk) THEN "Ok" ELSE "Err"
      BY <1>2, <2>2 DEF Reset
    <3>2. /\ lastOp' = [iface |-> guid, cfg |-> {}]
          /\ UNCHANGED <<shouldFlush, keys>>
      BY <1>2, <2>2 DEF Reset
    <3>3. guid \in Ifaces /\ {} \in Configs
      BY <2>2, <1>0 DEF TypeOK, Configs
    <3>4. \/ r.ok = TRUE /\ r.val = Written(guid, {})
          \/ r.ok = FALSE /\ r.val = reg[guid]
      BY <3>3, SetDnsOutcomes
    <3>5. RegistryConsistent'
      BY <1>0, <3>1, <3>2, <3>3, <3>4, RegistryAfterWrite
    <3>6. ASSUME res' = "Ok"
          PROVE /\ \A s \in Services : keys'[guid][s] => reg'[guid][s] = Derived({}, s)
                /\ shouldFlush' => ~stale'
      <4>1. r.ok = TRUE /\ r.val = Written(guid, {})
        BY <3>1, <3>4, <3>6
      <4>2. \A s \in Services : keys'[guid][s] => reg'[guid][s] = Derived({}, s)
        BY <1>0, <3>1, <3>2, <3>3, <4>1, WrittenConsistent DEF TypeOK
      <4>3. shouldFlush' => ~stale'
        BY <1>0, <3>1, <3>2, <3>6, flushOk \in BOOLEAN DEF TypeOK
      <4>4. QED
        BY <4>2, <4>3
    <3>7. QED
      BY <1>0, <3>2, <3>5, <3>6 DEF DnsInv, AppliedWhenOk
  <2>3. QED
    BY <2>1, <2>2
<1>3. CASE DisableFlushing
  <2>1. RegistryConsistent'
    BY <1>0, <1>3 DEF DisableFlushing, RegistryConsistent
  <2>2. QED
    BY <1>0, <1>3, <2>1 DEF DisableFlushing, DnsInv, AppliedWhenOk
<1>4. CASE UNCHANGED vars
  BY <1>0, <1>4 DEF vars, DnsInv, RegistryConsistent, AppliedWhenOk
<1>5. QED
  BY <1>1, <1>2, <1>3, <1>4 DEF Next

(* The IPv4 and IPv6 NameServer values of every interface always come     *)
(* from one configuration, whatever OS calls fail, for any interfaces.    *)
THEOREM RegistryAlwaysConsistent == Spec => []RegistryConsistent
<1>1. Init => DnsInv
  BY DnsInvInit
<1>2. DnsInv /\ [Next]_vars => DnsInv'
  BY DnsInvNext
<1>3. DnsInv => RegistryConsistent
  BY DEF DnsInv
<1>4. QED
  BY <1>1, <1>2, <1>3, PTL DEF Spec

(* Every Ok returned by set or reset means the requested servers are in   *)
(* the registry and, unless flushing is disabled, the cache was flushed.  *)
THEOREM OkMeansApplied == Spec => []AppliedWhenOk
<1>1. Init => DnsInv
  BY DnsInvInit
<1>2. DnsInv /\ [Next]_vars => DnsInv'
  BY DnsInvNext
<1>3. DnsInv => AppliedWhenOk
  BY DEF DnsInv
<1>4. QED
  BY <1>1, <1>2, <1>3, PTL DEF Spec
=============================================================================
