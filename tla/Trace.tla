-------------------------------- MODULE Trace --------------------------------
(***************************************************************************)
(* The trace directory's vocabulary, shared by the recorder, the replayer   *)
(* and the verifier: syscalls, their payloads, the lines of events.jsonl,    *)
(* and the hash chain those lines carry.                                     *)
(*                                                                          *)
(* Abstractions.  A syscall is its name (the number is a bijection of it).   *)
(* SHA-256 is injective: the digest of a payload is the payload itself, and  *)
(* an event_hash is the sequence of the bodies hashed into it, so "00" is    *)
(* << >>.  errno is a function of ret and pid, time_ns are left out.         *)
(***************************************************************************)
EXTENDS Integers, Sequences

CONSTANTS
  Byte,        \* the bytes a payload is made of
  OtherCalls,  \* the syscalls that carry no payload (write, openat, ...)
  TimeLen,     \* bytes of a timespec or a timeval: 16 in the code
  MaxReadLen   \* longest read the replayer loads: 256 in the code

TimeCalls == {"clock_gettime", "gettimeofday"}

\* is_payload_syscall of the recorder and is_replayable_syscall of the
\* replayer are the same four names.
PayloadCalls == {"read", "getrandom"} \cup TimeCalls

\* exit_group has a syscall-entry stop and never an exit stop.
Calls == PayloadCalls \cup OtherCalls \cup {"exit_group"}

ASSUME TraceAssumption ==
  /\ TimeLen \in Nat \ {0}
  /\ MaxReadLen \in Nat \ {0}
  /\ OtherCalls \cap (PayloadCalls \cup {"exit_group", "pthread_mutex_lock"}) = {}

\* payload_len: how many bytes of the caller's buffer a result fills.
PayloadLen(call, ret) ==
  IF ret < 0 THEN 0
  ELSE IF call \in {"read", "getrandom"} THEN ret
  ELSE IF call \in TimeCalls /\ ret = 0 THEN TimeLen
  ELSE 0

\* A payload_ref; length 0 stands for a line without one, which is exact: the
\* recorder and the replayer emit a payload_ref only when length > 0.
Ref(offset, data) == [offset |-> offset, length |-> Len(data), sha256 |-> data]
NoRef == Ref(0, << >>)
RefType == [offset : Nat, length : Nat, sha256 : Seq(Byte)]

(***************************************************************************)
(* Lines of events.jsonl.                                                   *)
(***************************************************************************)
Body(etype, name, seq, ret, ref) ==
  [etype |-> etype, name |-> name, seq |-> seq, ret |-> ret, payload_ref |-> ref]

ProcessBody(name, seq) == Body("PROCESS", name, seq, 0, NoRef)
SyscallBody(call, seq, ret, ref) == Body("SYSCALL", call, seq, ret, ref)

ProcessNames == {"program_start", "program_exit", "program_signal"}

BodyType ==
  [etype : {"PROCESS", "SYSCALL", "SYNC"},
   name : Calls \cup ProcessNames \cup {"pthread_mutex_lock"},
   seq : Nat, ret : Int, payload_ref : RefType]

HashType == Seq(BodyType)
LineType == [body : BodyType, prev_hash : HashType, event_hash : HashType]

\* emit_line: the line written for a body when the writer's chain is at prev.
Line(prev, body) ==
  [body |-> body, prev_hash |-> prev, event_hash |-> Append(prev, body)]

(***************************************************************************)
(* Lines of the preloaded pthread hook.  It numbers its lines from          *)
(* sync_seq and hashes the body alone; its prev_hash is the word "hook",     *)
(* which here is a one-element chain no recorder line ever has.  One of its  *)
(* operations stands for all.                                               *)
(***************************************************************************)
\* Seeded fault: numbers like the recorder's.
SyncSeqFromZero == 0
SyncSeqBase == 1000000000
SyncBody(n) == Body("SYNC", "pthread_mutex_lock", SyncSeqBase + n, 0, NoRef)
SyncLine(n) ==
  [body |-> SyncBody(n), prev_hash |-> << SyncBody(0) >>,
   event_hash |-> << SyncBody(n) >>]

(***************************************************************************)
(* payload.bin                                                              *)
(***************************************************************************)
\* The bytes at [offset, offset + length) of a file.
Slice(file, offset, length) == SubSeq(file, offset + 1, offset + length)

\* A reference addresses its bytes: they are in the file and hash to sha256.
Addresses(file, ref) ==
  /\ ref.offset + ref.length <= Len(file)
  /\ Slice(file, ref.offset, ref.length) = ref.sha256

=============================================================================
