--------------------------- MODULE NsisPluginProofs ---------------------------
(***************************************************************************)
(* Proofs about the installer plugin's C ABI, for every MAX_PATH_SIZE,     *)
(* string length and call bound.                                           *)
(*                                                                         *)
(* The length loop of create_privileged_directory is proved to stop at the *)
(* first nul or at MAX_PATH_SIZE and to read nothing past the first nul.   *)
(* Its inductive invariant ScanInv says what the loop has seen: every      *)
(* element before i is not nul, the loop has read nothing beyond i, and a  *)
(* result was returned at a nul (Ok, OsError) or, with i at the bound, at  *)
(* an element that is not nul (InvalidArguments).  The reference FirstNul  *)
(* is a CHOOSE of the least nul position; FirstNulExists shows that it is *)
(* one, from the well-foundedness of < on the naturals.                    *)
(*                                                                         *)
(* The buffer protocol of the getters rests on CopyInv: while a call is    *)
(* pending with a buffer, the buffer holds as many u16 as *buffer_size     *)
(* says, because the caller allocates exactly the size it was told.        *)
(***************************************************************************)
EXTENDS NsisPlugin, WellFoundedInduction, TLAPS

USE NsisConstantsAssumption

ScanInv ==
    /\ maxRead <= i
    /\ \A j \in 0..i - 1 : path[j + 1] # 0
    /\ scan \in {"Ok", "OsError"} => path[i + 1] = 0 /\ len = i
    /\ scan = "InvalidArguments" => i = MaxPathSize /\ path[i + 1] # 0

CopyInv ==
    /\ status = "Pending" /\ ~bufNull => cap = size
    /\ CopyWithinBuffer

(* What the scan has established about the string, in the terms of the     *)
(* reference: a string accepted was measured as FirstNul measures it, one  *)
(* rejected is longer than MAX_PATH_SIZE, and the elements read before the *)
(* last one read are none of them nul.                                     *)
ScanResultMatchesReference ==
    /\ \A j \in 0..maxRead - 1 : path[j + 1] # 0
    /\ scan \in {"Ok", "OsError"} =>
         len = FirstNul(path) /\ len <= MaxPathSize /\ maxRead <= FirstNul(path)
    /\ scan = "InvalidArguments" =>
         FirstNul(path) > MaxPathSize /\ maxRead <= FirstNul(path)

-----------------------------------------------------------------------------
(* The type invariant: every handler keeps each variable in its range.     *)
THEOREM NsisTypeOK == Spec => []TypeOK
<1>1. Init => TypeOK
  BY DEF Init, TypeOK, Capacities
<1>2. TypeOK /\ [Next]_vars => TypeOK'
  <2> SUFFICES ASSUME TypeOK, [Next]_vars PROVE TypeOK'
    OBVIOUS
  <2>1. CASE ScanStep
    <3>1. maxRead' \in 0..MaxPathSize /\ UNCHANGED <<path, callVars>>
      BY <2>1 DEF ScanStep, TypeOK
    <3>2. i' \in 0..MaxPathSize /\ len' \in 0..MaxPathSize
          /\ scan' \in {"Running"} \cup Statuses
      BY <2>1 DEF ScanStep, TypeOK, Statuses
    <3>3. QED
      BY <3>1, <3>2 DEF TypeOK, callVars
  <2>2. CASE Call
    <3>1. PICK osErr \in BOOLEAN :
            LET r == IF BufferFn = "appdata"
                       THEN GetSystemLocalAppdata(sizeNull, osErr, bufNull, size, need)
                       ELSE GetSystemVersion(sizeNull, bufNull, size, need)
            IN  status' = r.st /\ size' = r.sz
      BY <2>2 DEF Call
    <3>2. size' \in {size, need} /\ status' \in Statuses
      BY <3>1 DEF GetSystemLocalAppdata, GetSystemVersion, Statuses
    <3>3. QED
      BY <2>2, <3>2 DEF Call, TypeOK, Capacities, scanVars
  <2>3. CASE Allocate
    BY <2>3 DEF Allocate, TypeOK, scanVars, Statuses
  <2>4. CASE UNCHANGED vars
    BY <2>4 DEF vars, scanVars, callVars, TypeOK
  <2>5. QED
    BY <2>1, <2>2, <2>3, <2>4 DEF Next
<1>3. QED
  BY <1>1, <1>2, PTL DEF Spec

-----------------------------------------------------------------------------
(* FirstNul, the reference, is the position of a nul before which no       *)
(* element is nul.                                                         *)
LEMMA FirstNulIs ==
    ASSUME NEW p \in [1..PathLen -> {0, 1}], NEW k \in 0..PathLen - 1,
           p[k + 1] = 0, \A j \in 0..k - 1 : p[j + 1] # 0
    PROVE  FirstNul(p) = k
<1> DEFINE c == FirstNul(p)
<1>1. c \in 0..PathLen - 1 /\ p[c + 1] = 0 /\ \A j \in 0..c - 1 : p[j + 1] # 0
  BY DEF FirstNul
<1>2. ~(c < k) /\ ~(k < c)
  BY <1>1 DEF PathLen
<1>3. QED
  BY <1>1, <1>2 DEF PathLen

(* Every buffer the caller may pass has a first nul, so FirstNul is that   *)
(* nul: the set of nul positions is a non-empty set of naturals, and < is  *)
(* well founded on the naturals, so the set has a least element.           *)
LEMMA FirstNulExists ==
    ASSUME NEW p \in PathBuffers
    PROVE  /\ FirstNul(p) \in 0..PathLen - 1
           /\ p[FirstNul(p) + 1] = 0
           /\ \A j \in 0..FirstNul(p) - 1 : p[j + 1] # 0
<1> DEFINE T == {k \in 0..PathLen - 1 : p[k + 1] = 0}
           R == OpToRel(<, Nat)
<1>1. T \subseteq Nat /\ T # {}
  <2>1. PICK k \in 1..PathLen : p[k] = 0
    BY DEF PathBuffers
  <2>2. k - 1 \in T
    BY <2>1 DEF PathLen
  <2>3. T \subseteq Nat
    BY DEF PathLen
  <2>4. QED
    BY <2>2, <2>3
<1>2. PICK x \in T : \A y \in T : ~(<<y, x>> \in R)
  BY <1>1, NatLessThanWellFounded, WFMin
<1>3. ASSUME NEW j \in 0..x - 1, p[j + 1] = 0 PROVE FALSE
  <2>1. j \in T /\ x \in Nat /\ j < x
    BY <1>3 DEF PathLen
  <2>2. <<j, x>> \in R
    BY <2>1 DEF OpToRel
  <2>3. QED
    BY <1>2, <2>1, <2>2
<1>4. p \in [1..PathLen -> {0, 1}]
  BY DEF PathBuffers
<1>5. FirstNul(p) = x
  BY <1>2, <1>3, <1>4, FirstNulIs
<1>6. QED
  BY <1>2, <1>3, <1>5

(* A buffer that holds no nul among its first MAX_PATH_SIZE + 1 elements   *)
(* has its terminator in the last one.                                     *)
LEMMA LastIsNul ==
    ASSUME NEW p \in PathBuffers, \A j \in 0..MaxPathSize : p[j + 1] # 0
    PROVE  p[PathLen] = 0
BY DEF PathBuffers, PathLen

LEMMA ScanInit == Init => ScanInv
BY DEF Init, ScanInv

LEMMA ScanNext == TypeOK /\ ScanInv /\ [Next]_vars => ScanInv'
<1> SUFFICES ASSUME TypeOK, ScanInv, [Next]_vars PROVE ScanInv'
  OBVIOUS
<1>1. CASE ScanStep
  <2>1. maxRead' = i
    BY <1>1 DEF ScanStep, ScanInv, TypeOK
  <2>2. CASE path[i + 1] = 0
    BY <1>1, <2>1, <2>2 DEF ScanStep, ScanInv, TypeOK
  <2>3. CASE path[i + 1] # 0 /\ i >= MaxPathSize
    BY <1>1, <2>1, <2>3 DEF ScanStep, ScanInv, TypeOK
  <2>4. CASE path[i + 1] # 0 /\ i < MaxPathSize
    BY <1>1, <2>1, <2>4 DEF ScanStep, ScanInv, TypeOK
  <2>5. QED
    BY <2>2, <2>3, <2>4 DEF TypeOK
<1>2. CASE Call \/ Allocate \/ UNCHANGED vars
  BY <1>2 DEF Call, Allocate, vars, scanVars, ScanInv
<1>3. QED
  BY <1>1, <1>2 DEF Next

LEMMA ScanInvResult == TypeOK /\ ScanInv => ScanResultMatchesReference
<1> SUFFICES ASSUME TypeOK, ScanInv PROVE ScanResultMatchesReference
  OBVIOUS
<1>0. path \in [1..PathLen -> {0, 1}] /\ i \in 0..MaxPathSize /\ maxRead \in 0..i
  BY DEF TypeOK, ScanInv, PathBuffers
<1>1. \A j \in 0..maxRead - 1 : path[j + 1] # 0
  BY <1>0 DEF ScanInv
<1>2. ASSUME scan \in {"Ok", "OsError"}
      PROVE  len = FirstNul(path) /\ len <= MaxPathSize /\ maxRead <= FirstNul(path)
  <2>1. FirstNul(path) = i
    BY <1>0, <1>2, FirstNulIs DEF ScanInv, PathLen
  <2>2. QED
    BY <1>0, <1>2, <2>1 DEF ScanInv
<1>3. ASSUME scan = "InvalidArguments"
      PROVE  FirstNul(path) > MaxPathSize /\ maxRead <= FirstNul(path)
  <2>1. \A j \in 0..MaxPathSize : path[j + 1] # 0
    BY <1>0, <1>3 DEF ScanInv
  <2>2. path[PathLen] = 0
    BY <2>1, LastIsNul DEF TypeOK
  <2>3. FirstNul(path) = MaxPathSize + 1
    BY <1>0, <2>1, <2>2, FirstNulIs DEF PathLen
  <2>4. QED
    BY <1>0, <2>3
<1>4. QED
  BY <1>1, <1>2, <1>3 DEF ScanResultMatchesReference

(* The full reference check of the nsis_appdata run: while the loop runs   *)
(* it has read nothing past the first nul, because every element before i *)
(* is not nul and FirstNul is the first that is.                           *)
LEMMA ScanInvReference == TypeOK /\ ScanInv => PathScanMatchesReference
<1> SUFFICES ASSUME TypeOK, ScanInv PROVE PathScanMatchesReference
  OBVIOUS
<1>1. ScanResultMatchesReference
  BY ScanInvResult
<1>2. maxRead <= FirstNul(path)
  <2>1. path \in PathBuffers /\ i \in 0..MaxPathSize /\ maxRead \in 0..i
    BY DEF TypeOK, ScanInv
  <2>2. FirstNul(path) \in 0..PathLen - 1 /\ path[FirstNul(path) + 1] = 0
    BY <2>1, FirstNulExists
  <2>3. ~(FirstNul(path) < i)
    BY <2>1, <2>2 DEF ScanInv, PathLen
  <2>4. QED
    BY <2>1, <2>2, <2>3 DEF PathLen
<1>3. QED
  BY <1>1, <1>2 DEF ScanResultMatchesReference, PathScanMatchesReference

(* create_privileged_directory never reads past the terminator, accepts    *)
(* exactly the strings of at most MAX_PATH_SIZE elements and measures them *)
(* as the reference does, for every MAX_PATH_SIZE: the invariant the       *)
(* nsis_appdata run checks.                                                *)
THEOREM PathScanAlwaysMatches == Spec => []PathScanMatchesReference
<1>1. Init => TypeOK /\ ScanInv
  BY ScanInit DEF Init, TypeOK, Capacities
<1>2. TypeOK /\ ScanInv /\ [Next]_vars => ScanInv'
  BY ScanNext
<1>3. TypeOK /\ ScanInv => PathScanMatchesReference
  BY ScanInvReference
<1>4. QED
  BY <1>1, <1>2, <1>3, NsisTypeOK, PTL DEF Spec

-----------------------------------------------------------------------------
(* What one call of either getter returns: Ok only with a non-null buffer  *)
(* at least as large as the string, and then *buffer_size is the string's *)
(* size; InsufficientBufferSize from get_system_local_appdata reports the  *)
(* string's size.                                                          *)
LEMMA GetterResult ==
    ASSUME NEW szNull \in BOOLEAN, NEW osErr \in BOOLEAN, NEW bNull \in BOOLEAN,
           NEW sz \in Nat, NEW n \in Nat
    PROVE  /\ GetSystemLocalAppdata(szNull, osErr, bNull, sz, n).st = "Ok"
                => ~bNull /\ sz >= n /\ GetSystemLocalAppdata(szNull, osErr, bNull, sz, n).sz = n
           /\ GetSystemLocalAppdata(szNull, osErr, bNull, sz, n).st = "InsufficientBufferSize"
                => GetSystemLocalAppdata(szNull, osErr, bNull, sz, n).sz = n
           /\ GetSystemVersion(szNull, bNull, sz, n).st = "Ok"
                => ~bNull /\ sz >= n /\ GetSystemVersion(szNull, bNull, sz, n).sz = n
<1>1. CASE szNull
  BY <1>1 DEF GetSystemLocalAppdata, GetSystemVersion
<1>2. CASE ~szNull /\ osErr
  BY <1>2 DEF GetSystemLocalAppdata, GetSystemVersion
<1>3. CASE ~szNull /\ ~osErr
  BY <1>3 DEF GetSystemLocalAppdata, GetSystemVersion
<1>4. QED
  BY <1>1, <1>2, <1>3

LEMMA CopyNext == TypeOK /\ CopyInv /\ [Next]_vars => CopyInv'
<1> SUFFICES ASSUME TypeOK, CopyInv, [Next]_vars PROVE CopyInv'
  OBVIOUS
<1>1. CASE Call
  <2>1. PICK osErr \in BOOLEAN :
          LET r == IF BufferFn = "appdata"
                     THEN GetSystemLocalAppdata(sizeNull, osErr, bufNull, size, need)
                     ELSE GetSystemVersion(sizeNull, bufNull, size, need)
          IN  status' = r.st /\ size' = r.sz
    BY <1>1 DEF Call
  <2>2. status = "Pending" /\ UNCHANGED <<need, bufNull, cap>>
    BY <1>1 DEF Call
  <2>3. ~bufNull => cap = size
    BY <2>2 DEF CopyInv
  <2>4. sizeNull \in BOOLEAN /\ bufNull \in BOOLEAN /\ size \in Nat /\ need \in Nat
    BY DEF TypeOK, Capacities
  <2>5. status' = "Ok" => ~bufNull /\ size >= need /\ size' = need
    BY <2>1, <2>4, GetterResult
  <2>6. status' # "Pending"
    BY <2>1 DEF GetSystemLocalAppdata, GetSystemVersion
  <2>7. QED
    BY <2>2, <2>3, <2>5, <2>6 DEF CopyInv, CopyWithinBuffer
<1>2. CASE Allocate
  BY <1>2 DEF Allocate, CopyInv, CopyWithinBuffer
<1>3. CASE ScanStep \/ UNCHANGED vars
  BY <1>3 DEF ScanStep, vars, callVars, CopyInv, CopyWithinBuffer
<1>4. QED
  BY <1>1, <1>2, <1>3 DEF Next

(* The getters copy their string only into a buffer that holds it: for    *)
(* either getter and every caller that follows the two-call protocol, an  *)
(* Ok answer means the caller's buffer is non-null and at least as large  *)
(* as the string, and *buffer_size holds the string's size.               *)
THEOREM CopyAlwaysWithinBuffer == Spec => []CopyWithinBuffer
<1>1. Init => CopyInv
  BY DEF Init, CopyInv, CopyWithinBuffer
<1>2. TypeOK /\ CopyInv /\ [Next]_vars => CopyInv'
  BY CopyNext
<1>3. CopyInv => CopyWithinBuffer
  BY DEF CopyInv
<1>4. QED
  BY <1>1, <1>2, <1>3, NsisTypeOK, PTL DEF Spec

(* For get_system_local_appdata, whose doc comment promises it, every      *)
(* InsufficientBufferSize answer leaves the required size in               *)
(* *buffer_size.  (get_system_version breaks the promise; its run shows    *)
(* the violation.)                                                         *)
THEOREM AppdataReportsRequiredSize ==
    BufferFn = "appdata" => (Spec => []InsufficientReportsRequiredSize)
<1> SUFFICES ASSUME BufferFn = "appdata" PROVE Spec => []InsufficientReportsRequiredSize
  OBVIOUS
<1>1. Init => InsufficientReportsRequiredSize
  BY DEF Init, InsufficientReportsRequiredSize
<1>2. TypeOK /\ InsufficientReportsRequiredSize /\ [Next]_vars
        => InsufficientReportsRequiredSize'
  <2> SUFFICES ASSUME TypeOK, InsufficientReportsRequiredSize, [Next]_vars
               PROVE  InsufficientReportsRequiredSize'
    OBVIOUS
  <2>1. CASE Call
    <3>1. PICK osErr \in BOOLEAN :
            LET r == GetSystemLocalAppdata(sizeNull, osErr, bufNull, size, need)
            IN  status' = r.st /\ size' = r.sz
      BY <2>1 DEF Call
    <3>2. sizeNull \in BOOLEAN /\ bufNull \in BOOLEAN /\ size \in Nat /\ need \in Nat
      BY DEF TypeOK, Capacities
    <3>3. QED
      BY <2>1, <3>1, <3>2, GetterResult DEF Call, InsufficientReportsRequiredSize
  <2>2. CASE Allocate
    BY <2>2 DEF Allocate, InsufficientReportsRequiredSize
  <2>3. CASE ScanStep \/ UNCHANGED vars
    BY <2>3 DEF ScanStep, vars, callVars, InsufficientReportsRequiredSize
  <2>4. QED
    BY <2>1, <2>2, <2>3 DEF Next
<1>3. QED
  BY <1>1, <1>2, NsisTypeOK, PTL DEF Spec
=============================================================================
