------------------------------ MODULE Compress ------------------------------
(***************************************************************************)
(* compress.Compress and Decompress share a pool of buffers.  A call       *)
(* writes its output into a buffer, in two parts, returns a copy, and      *)
(* gives the buffer back, also when it fails.  Output is taken for the     *)
(* call it is of and its part.  Data that is too short is returned as it   *)
(* is.  Init sets the thresholds, once.                                    *)
(***************************************************************************)
EXTENDS Integers, Sequences

CONSTANTS
    Callers,    \* goroutines with one call of Compress or Decompress each
    Buffers,
    Lengths,    \* of the data
    DefaultThresholds,
    Settings    \* the arguments Init may be called with: <<weak, strong>>

NoBuffer == "no buffer"

CodecAssumption ==
    /\ Lengths \subseteq Nat
    /\ DefaultThresholds \in Nat \X Nat /\ Settings \subseteq Int \X Int
    /\ NoBuffer \notin Buffers

VARIABLES
    thresholds, \* <<defaultWeakThreshold, defaultStrongThreshold>>
    once,       \* whether once.Do has begun, and what it has left to store
    bufferPool,
    content,    \* of each buffer
    job         \* what each caller calls, and where it is

vars == <<thresholds, once, bufferPool, content, job>>

\* What a call may return: nothing yet, its data, a copy, or, which no call
\* should, the bytes of a buffer.
Nothing == [kind |-> "nothing", bytes |-> <<>>, of |-> NoBuffer]
Input == [kind |-> "input", bytes |-> <<>>, of |-> NoBuffer]
CopyOf(bytes) == [kind |-> "copy", bytes |-> bytes, of |-> NoBuffer]
BytesOf(b) == [kind |-> "buffer", bytes |-> <<>>, of |-> b]

Init ==
    /\ thresholds = DefaultThresholds
    /\ once = [begun |-> FALSE, toStore |-> <<>>]
    /\ bufferPool = {}
    /\ content = [b \in Buffers |-> <<>>]
    /\ job = [c \in Callers |-> [op |-> "none", len |-> 0, weak |-> 0, level |-> "none",
                                 buffer |-> NoBuffer, ret |-> Nothing, at |-> "start"]]

InHand == {job[c].buffer : c \in Callers}

Returns(c, ret, at) == job' = [job EXCEPT ![c].ret = ret, ![c].at = at]

-----------------------------------------------------------------------------
(* Faults. *)

\* The bytes of the buffer are returned, not a copy: ResultsStay.
CloneForgotten(c) ==
    /\ job[c].at = "clone"
    /\ Returns(c, BytesOf(job[c].buffer), "reset")
    /\ UNCHANGED <<thresholds, once, bufferPool, content>>

-----------------------------------------------------------------------------
\* The first call of Init, which settles it also when its arguments are refused.
CallInit(weak, strong) ==
    /\ ~once.begun
    /\ once' = [begun |-> TRUE,
                toStore |-> IF weak > 0 /\ strong > 0 /\ weak < strong
                            THEN <<weak, strong>> ELSE <<>>]
    /\ UNCHANGED <<thresholds, bufferPool, content, job>>

\* The weak threshold is stored, then the strong one.
StoreThreshold ==
    /\ once.toStore # <<>>
    /\ thresholds' = [thresholds EXCEPT ![3 - Len(once.toStore)] = Head(once.toStore)]
    /\ once' = [once EXCEPT !.toStore = Tail(@)]
    /\ UNCHANGED <<bufferPool, content, job>>

\* An empty slice for empty data; the header of data to decompress may be wrong.
Call(c, op, len) ==
    /\ job[c].at = "start"
    /\ \E at \in IF len = 0 THEN {"returned"}
                 ELSE IF op = "Compress" THEN {"loadWeak"}
                 ELSE {"get", "failed"} :
          job' = [job EXCEPT ![c].op = op, ![c].len = len, ![c].at = at,
                             ![c].ret = IF len = 0 THEN CopyOf(<<>>) ELSE Nothing]
    /\ UNCHANGED <<thresholds, once, bufferPool, content>>

LoadWeak(c) ==
    /\ job[c].at = "loadWeak"
    /\ job' = [job EXCEPT ![c].weak = thresholds[1], ![c].at = "loadStrong"]
    /\ UNCHANGED <<thresholds, once, bufferPool, content>>

LoadStrong(c) ==
    /\ job[c].at = "loadStrong"
    /\ IF job[c].len < job[c].weak
       THEN Returns(c, Input, "returned")
       ELSE job' = [job EXCEPT ![c].at = "get", ![c].level =
                       IF job[c].len >= thresholds[2] THEN "default" ELSE "fast"]
    /\ UNCHANGED <<thresholds, once, bufferPool, content>>

\* A buffer of the pool, or a new one.
GetBuffer(c) ==
    /\ job[c].at = "get"
    /\ \E b \in Buffers \ InHand :
          /\ b \in bufferPool \/ content[b] = <<>>
          /\ job' = [job EXCEPT ![c].buffer = b, ![c].at = "write"]
          /\ bufferPool' = bufferPool \ {b}
    /\ UNCHANGED <<thresholds, once, content>>

\* Write or ReadFrom puts out some of its output, and may fail then.
Write(c) ==
    /\ job[c].at = "write"
    /\ content' = [content EXCEPT ![job[c].buffer] = Append(@, <<c, "first">>)]
    /\ \E at \in {"close", "reset"} : job' = [job EXCEPT ![c].at = at]
    /\ UNCHANGED <<thresholds, once, bufferPool>>

\* Close writes the rest and may fail, or finds that the data was wrong.
Close(c) ==
    /\ job[c].at = "close"
    /\ content' = [content EXCEPT ![job[c].buffer] = Append(@, <<c, "rest">>)]
    /\ \E at \in {"clone", "reset"} : job' = [job EXCEPT ![c].at = at]
    /\ UNCHANGED <<thresholds, once, bufferPool>>

Clone(c) ==
    /\ job[c].at = "clone"
    /\ Returns(c, CopyOf(content[job[c].buffer]), "reset")
    /\ UNCHANGED <<thresholds, once, bufferPool, content>>

\* The deferred function, whatever happened before.
ResetBuffer(c) ==
    /\ job[c].at = "reset"
    /\ content' = [content EXCEPT ![job[c].buffer] = <<>>]
    /\ job' = [job EXCEPT ![c].at = "put"]
    /\ UNCHANGED <<thresholds, once, bufferPool>>

PutBuffer(c) ==
    /\ job[c].at = "put"
    /\ bufferPool' = bufferPool \union {job[c].buffer}
    /\ job' = [job EXCEPT ![c].buffer = NoBuffer,
                  ![c].at = IF job[c].ret = Nothing THEN "failed" ELSE "returned"]
    /\ UNCHANGED <<thresholds, once, content>>

Next ==
    \/ \E s \in Settings : CallInit(s[1], s[2])
    \/ StoreThreshold
    \/ \E c \in Callers :
          \/ \E op \in {"Compress", "Decompress"}, len \in Lengths : Call(c, op, len)
          \/ LoadWeak(c) \/ LoadStrong(c) \/ GetBuffer(c) \/ Write(c) \/ Close(c)
          \/ Clone(c) \/ ResetBuffer(c) \/ PutBuffer(c)

Spec == Init /\ [][Next]_vars
-----------------------------------------------------------------------------
\* The types of the variables.
TypeOK ==
    /\ thresholds \in Nat \X Nat
    /\ once \in [begun : BOOLEAN, toStore : Seq(Nat)]
    /\ bufferPool \in SUBSET Buffers
    /\ content \in [Buffers -> Seq(Callers \X {"first", "rest"})]
    /\ \A c \in Callers :
          /\ job[c].op \in {"none", "Compress", "Decompress"}
          /\ job[c].len \in {0} \union Lengths /\ job[c].weak \in Nat
          /\ job[c].level \in {"none", "default", "fast"}
          /\ job[c].buffer \in Buffers \union {NoBuffer}

\* What a call returned is its own whole output, and stays so whatever later
\* calls do with the buffer it was written in, and whatever failed calls left in
\* that buffer before.
ResultsStay ==
    \A c \in Callers :
        LET ret == job[c].ret
            bytes == IF ret.kind = "buffer" THEN content[ret.of] ELSE ret.bytes
        IN  /\ job[c].at = "returned" /\ ret.kind # "input" /\ job[c].len > 0
                  => bytes = <<<<c, "first">>, <<c, "rest">>>>
            /\ job[c].at = "returned" => ret.kind # "nothing"
=============================================================================
