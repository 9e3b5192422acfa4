----------------------------- MODULE NsisPlugin -----------------------------
(***************************************************************************)
(* The C ABI the Windows installer calls (mullvad-nsis/src/lib.rs).        *)
(*                                                                         *)
(* create_privileged_directory scans a caller-supplied nul-terminated u16 *)
(* string for its terminator, one element per loop iteration, and rejects *)
(* strings longer than MAX_PATH_SIZE.  The string is abstracted to which  *)
(* elements are nul.                                                       *)
(*                                                                         *)
(* get_system_local_appdata and get_system_version follow the two-call   *)
(* buffer protocol their doc comments describe: a call with a null or     *)
(* too small buffer returns InsufficientBufferSize and the required size  *)
(* in *buffer_size; the caller allocates that many u16 and calls again.   *)
(* The caller is the installer script, which is not in this repository;   *)
(* its steps follow those doc comments.  A string is abstracted to its    *)
(* length.                                                                 *)
(***************************************************************************)
EXTENDS Naturals

CONSTANTS
    MaxPathSize,   \* MAX_PATH_SIZE
    MaxLen,        \* bound on the length of the string a getter returns
    MaxCalls,      \* bound on the calls the caller makes
    BufferFn       \* the getter the caller uses: "appdata" or "version"

ASSUME NsisConstantsAssumption ==
    /\ MaxPathSize \in Nat
    /\ MaxLen \in Nat
    /\ MaxCalls \in Nat \ {0}
    /\ BufferFn \in {"appdata", "version"}

(* The enum Status.                                                        *)
Statuses == {"Ok", "InvalidArguments", "InsufficientBufferSize", "OsError", "Panic"}

(* Caller-supplied path buffers: MaxPathSize + 2 elements, nul (0) or not  *)
(* (1), holding a terminator somewhere, as the safety contract requires.   *)
PathLen == MaxPathSize + 2
PathBuffers == {p \in [1..PathLen -> {0, 1}] : \E k \in 1..PathLen : p[k] = 0}

(* Reference: the number of elements before the first nul.                 *)
FirstNul(p) == CHOOSE k \in 0..PathLen - 1 : p[k + 1] = 0 /\ \A j \in 0..k - 1 : p[j + 1] # 0

VARIABLES
    path,      \* the buffer create_privileged_directory was given
    i,         \* the loop index
    maxRead,   \* the highest index the loop has read
    scan,      \* "Running" or the Status returned
    len,       \* the length the loop found
    need,      \* the length of the getter's string, terminator included
    sizeNull,  \* whether the caller passed a null buffer_size
    size,      \* the caller's usize that buffer_size points to
    bufNull,   \* whether the caller's buffer is null
    cap,       \* the capacity of the caller's buffer, in u16
    status,    \* "Pending", or the Status of the last call
    calls      \* the number of calls made

scanVars == <<path, i, maxRead, scan, len>>
callVars == <<need, sizeNull, size, bufNull, cap, status, calls>>
vars == <<scanVars, callVars>>

Capacities == 0..MaxLen + 1

TypeOK ==
    /\ path \in PathBuffers
    /\ i \in 0..MaxPathSize
    /\ maxRead \in 0..MaxPathSize
    /\ scan \in {"Running"} \cup Statuses
    /\ len \in 0..MaxPathSize
    /\ need \in 1..MaxLen + 1
    /\ sizeNull \in BOOLEAN
    /\ size \in Capacities
    /\ bufNull \in BOOLEAN
    /\ cap \in Capacities
    /\ status \in {"Pending"} \cup Statuses
    /\ calls \in 0..MaxCalls
-----------------------------------------------------------------------------
(* Mutant: the bound test lets one element more through.                   *)
ScanStepOffByOne ==
    /\ scan = "Running"
    /\ maxRead' = IF i > maxRead THEN i ELSE maxRead
    /\ \/ /\ path[i + 1] = 0
          /\ len' = i
          /\ scan' \in {"Ok", "OsError"}
          /\ UNCHANGED i
       \/ /\ path[i + 1] # 0
          /\ i > MaxPathSize
          /\ scan' = "InvalidArguments"
          /\ UNCHANGED <<i, len>>
       \/ /\ path[i + 1] # 0
          /\ i <= MaxPathSize
          /\ i' = i + 1
          /\ UNCHANGED <<scan, len>>
    /\ UNCHANGED <<path, callVars>>

(* One iteration of the length loop of create_privileged_directory: read   *)
(* path[i]; at a nul the length is i and the directory is created (which  *)
(* may fail with an OS error); past MAX_PATH_SIZE the string is rejected. *)
ScanStep ==
    /\ scan = "Running"
    /\ maxRead' = IF i > maxRead THEN i ELSE maxRead
    /\ \/ /\ path[i + 1] = 0
          /\ len' = i
          /\ scan' \in {"Ok", "OsError"}
          /\ UNCHANGED i
       \/ /\ path[i + 1] # 0
          /\ i >= MaxPathSize
          /\ scan' = "InvalidArguments"
          /\ UNCHANGED <<i, len>>
       \/ /\ path[i + 1] # 0
          /\ i < MaxPathSize
          /\ i' = i + 1
          /\ UNCHANGED <<scan, len>>
    /\ UNCHANGED <<path, callVars>>

(* Mutant: the required size is written only on success.                  *)
GetSystemLocalAppdataNoSize(szNull, osErr, bNull, sz, n) ==
    CASE szNull -> [st |-> "InvalidArguments", sz |-> sz]
      [] osErr  -> [st |-> "OsError", sz |-> sz]
      [] sz < n \/ bNull -> [st |-> "InsufficientBufferSize", sz |-> sz]
      [] OTHER  -> [st |-> "Ok", sz |-> n]

(* Mutant: a null buffer is not rejected.                                  *)
GetSystemLocalAppdataNoNullCheck(szNull, osErr, bNull, sz, n) ==
    CASE szNull -> [st |-> "InvalidArguments", sz |-> sz]
      [] osErr  -> [st |-> "OsError", sz |-> sz]
      [] OTHER  -> [st |-> IF sz < n THEN "InsufficientBufferSize" ELSE "Ok", sz |-> n]

(* get_system_local_appdata: the result Status and the value left in       *)
(* *buffer_size, for a null buffer_size, a failed path lookup, and a       *)
(* null buffer (bNull), when the path needs n u16.                         *)
GetSystemLocalAppdata(szNull, osErr, bNull, sz, n) ==
    CASE szNull -> [st |-> "InvalidArguments", sz |-> sz]
      [] osErr  -> [st |-> "OsError", sz |-> sz]
      [] OTHER  -> [st |-> IF sz < n \/ bNull THEN "InsufficientBufferSize" ELSE "Ok",
                    sz |-> n]

(* get_system_version: as above, without the lookup that can fail; the    *)
(* size is written only once the buffer is known to be large enough.      *)
GetSystemVersion(szNull, bNull, sz, n) ==
    CASE szNull                   -> [st |-> "InvalidArguments", sz |-> sz]
      [] sz < n \/ bNull         -> [st |-> "InsufficientBufferSize", sz |-> sz]
      [] OTHER                    -> [st |-> "Ok", sz |-> n]

(* The caller calls the getter with its buffer and its size.              *)
Call ==
    /\ status = "Pending"
    /\ calls < MaxCalls
    /\ \E osErr \in BOOLEAN :
         LET r == IF BufferFn = "appdata"
                    THEN GetSystemLocalAppdata(sizeNull, osErr, bufNull, size, need)
                    ELSE GetSystemVersion(sizeNull, bufNull, size, need)
         IN  /\ status' = r.st
             /\ size' = r.sz
    /\ calls' = calls + 1
    /\ UNCHANGED <<need, sizeNull, bufNull, cap, scanVars>>

(* On InsufficientBufferSize the caller allocates the size it was given    *)
(* and calls again.                                                        *)
Allocate ==
    /\ status = "InsufficientBufferSize"
    /\ bufNull' = FALSE
    /\ cap' = size
    /\ status' = "Pending"
    /\ UNCHANGED <<need, sizeNull, size, calls, scanVars>>

Init ==
    /\ path \in PathBuffers
    /\ i = 0
    /\ maxRead = 0
    /\ scan = "Running"
    /\ len = 0
    /\ need \in 1..MaxLen + 1
    /\ sizeNull \in BOOLEAN
    /\ size \in Capacities
    /\ bufNull \in BOOLEAN
    /\ cap = IF bufNull THEN 0 ELSE size
    /\ status = "Pending"
    /\ calls = 0

Next == ScanStep \/ Call \/ Allocate

Spec == Init /\ [][Next]_vars
-----------------------------------------------------------------------------
(* create_privileged_directory accepts exactly the strings of at most      *)
(* MAX_PATH_SIZE elements, measures them as the reference does, and never *)
(* reads past the terminator: its loop checks the element before the      *)
(* bound, so the bound decides only strings that are too long.             *)
PathScanMatchesReference ==
    /\ maxRead <= FirstNul(path)
    /\ scan \in {"Ok", "OsError"} => len = FirstNul(path) /\ len <= MaxPathSize
    /\ scan = "InvalidArguments" => FirstNul(path) > MaxPathSize

(* The getters copy the string only into a buffer that holds it, its       *)
(* terminator included: an Ok answer means a non-null buffer of at least   *)
(* the required capacity, and the size written back is the string's.       *)
CopyWithinBuffer ==
    status = "Ok" => /\ ~bufNull
                     /\ cap >= need
                     /\ size = need

(* The doc comments: InsufficientBufferSize returns the required buffer    *)
(* size in *buffer_size, so that a caller who allocates it succeeds on its *)
(* next call.                                                              *)
InsufficientReportsRequiredSize ==
    status = "InsufficientBufferSize" => size = need
=============================================================================
