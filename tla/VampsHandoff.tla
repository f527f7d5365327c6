----------------------------- MODULE VampsHandoff -----------------------------
(***************************************************************************)
(* The hand-over of GOPs between vamps' main thread (requant(), vamps.c)   *)
(* and the requantization thread (the LOCK macro of requant.h, called from *)
(* the recoding loop of requant.c).                                        *)
(*                                                                         *)
(* The threads share rqt_rcnt, rqt_wcnt and the request fields.  mutr and  *)
(* condr carry requests, mutw and condw carry replies: two different       *)
(* mutexes, although rqt_wcnt is reset by the main thread under mutr and   *)
(* set by the requantiser under mutw.  A thread that waits on a condition  *)
(* variable is at "waitr" / "waitw"; it may also wake up spuriously, as    *)
(* POSIX allows.  Bytes are counted, their values are not kept.            *)
(***************************************************************************)
EXTENDS Integers

CONSTANTS Lens,      \* lengths the video ES of a GOP (vilen) can have
          Peek,      \* bytes of LOCK(8), the look-ahead for a start code
          Sentinel,  \* bytes 00 00 01 appended after the GOP
          Headers,   \* bytes the handlers of start codes LOCK and COPY
          MaxGops    \* bound: GOPs requantized before the end of the stream

ASSUME HandoffAssumption ==
    /\ Lens \subseteq Nat
    /\ Headers \subseteq Nat
    /\ Peek \in Nat
    /\ Sentinel \in Nat
    /\ MaxGops \in Nat
    /\ 4 < Peek                                  \* a start code fits in a peek
    /\ Sentinel < Peek                           \* and a GOP is never empty
    /\ \A h \in Headers : 0 < h /\ h <= Peek
    /\ \A n \in Lens : Peek <= n + Sentinel      \* a first peek succeeds

VARIABLES
    mpc, rpc,       \* where the main and the requantization thread are
    mutr, mutw,     \* owner of each mutex: "main", "rqt" or "none"
    rcnt, wcnt,     \* rqt_rcnt and rqt_wcnt
    vilen, volen,   \* main: length of the current GOP before and after
    cur,            \* rqt: length of the GOP it took over (rbuf - cbuf at first)
    left,           \* rqt: rbuf - cbuf, the sentinel included
    done,           \* rqt: wbuf - owbuf
    wbuf,           \* rqt: the pointer wbuf, null until the first GOP sets it
    need,           \* rqt: bytes the header handler COPYs after its LOCK
    gops            \* requests sent so far

mainvars    == <<mpc, vilen, volen, gops>>
rqtvars     == <<rpc, cur, left, done, wbuf, need>>
sync        == <<mutr, mutw, rcnt, wcnt>>
handoffvars == <<mainvars, rqtvars, sync>>

TypeOK ==
    /\ mpc \in {"own", "lockr", "set", "signalr", "lockw", "testw", "waitw",
                "exit"}
    /\ rpc \in {"lockr", "testr", "waitr", "scan", "header", "lockw", "postw"}
    /\ mutr \in {"none", "main", "rqt"} /\ mutw \in {"none", "main", "rqt"}
    /\ rcnt \in Nat /\ wcnt \in Nat /\ vilen \in Nat /\ volen \in Nat
    /\ cur \in Nat /\ left \in Nat /\ done \in Nat /\ need \in Nat
    /\ wbuf \in {"null", "set"} /\ gops \in 0 .. MaxGops

\* The threads have just been started; wbuf is a static pointer, hence NULL.
HandoffInit ==
    /\ mpc = "own" /\ rpc = "lockr"
    /\ mutr = "none" /\ mutw = "none"
    /\ rcnt = 0 /\ wcnt = 0 /\ vilen = 0 /\ volen = 0
    /\ cur = 0 /\ left = 0 /\ done = 0 /\ need = 0
    /\ wbuf = "null" /\ gops = 0

(***************************************************************************)
(* The main thread                                                         *)
(***************************************************************************)
\* Phases 1 and 2 of vaporize() are done with the buffers: a GOP of n bytes is
\* in vibuf, the sentinel is appended behind it and requant() is entered.
Enter(n) == /\ mpc = "own" /\ gops < MaxGops
            /\ mpc' = "lockr" /\ vilen' = n /\ gops' = gops + 1
            /\ UNCHANGED <<volen, rqtvars, sync>>

\* With a factor of at most 1 the GOP is copied, the thread is not involved.
Bypass(n) == /\ mpc = "own"
             /\ vilen' = n /\ volen' = n
             /\ UNCHANGED <<mpc, gops, rqtvars, sync>>

\* End of the stream: main() returns, the other thread is never joined.
Exit == /\ mpc = "own" /\ mpc' = "exit"
        /\ UNCHANGED <<vilen, volen, gops, rqtvars, sync>>

LockRequest == /\ mpc = "lockr" /\ mutr = "none"
               /\ mpc' = "set" /\ mutr' = "main"
               /\ UNCHANGED <<vilen, volen, gops, rqtvars, mutw, rcnt, wcnt>>

\* Mutant: rqt_wcnt keeps the length of the GOP before.
SetRequestStale == /\ mpc = "set" /\ mpc' = "signalr"
                   /\ rcnt' = vilen
                   /\ UNCHANGED <<vilen, volen, gops, rqtvars, mutr, mutw, wcnt>>

SetRequest == /\ mpc = "set" /\ mpc' = "signalr"
              /\ rcnt' = vilen /\ wcnt' = 0
              /\ UNCHANGED <<vilen, volen, gops, rqtvars, mutr, mutw>>

\* pthread_cond_signal(&condr) wakes the requantiser if it waits; unlock.
SignalRequest == /\ mpc = "signalr" /\ mpc' = "lockw"
                 /\ mutr' = "none"
                 /\ rpc' = IF rpc = "waitr" THEN "lockr" ELSE rpc
                 /\ UNCHANGED <<vilen, volen, gops, cur, left, done, wbuf,
                                need, mutw, rcnt, wcnt>>

LockReply == /\ mpc = "lockw" /\ mutw = "none"
             /\ mpc' = "testw" /\ mutw' = "main"
             /\ UNCHANGED <<vilen, volen, gops, rqtvars, mutr, rcnt, wcnt>>

\* Mutant: rqt_wcnt is not tested again after the wait.
TestReplyOnce == /\ mpc = "testw" /\ mutw' = "none"
                 /\ mpc' = "own" /\ volen' = wcnt
                 /\ UNCHANGED <<vilen, gops, rqtvars, mutr, rcnt, wcnt>>

\* while (!rqt_wcnt) pthread_cond_wait (&condw, &mutw): the wait unlocks.
TestReply == /\ mpc = "testw" /\ mutw' = "none"
             /\ \/ wcnt = 0 /\ mpc' = "waitw" /\ UNCHANGED volen
                \/ wcnt # 0 /\ mpc' = "own"   /\ volen' = wcnt
             /\ UNCHANGED <<vilen, gops, rqtvars, mutr, rcnt, wcnt>>

MainNext == \/ \E n \in Lens : Enter(n) \/ Bypass(n)
            \/ Exit \/ LockRequest \/ SetRequest \/ SignalRequest
            \/ LockReply \/ TestReply

(***************************************************************************)
(* The requantization thread                                               *)
(***************************************************************************)
\* LOCK(x) with too few bytes left: reply if there was a GOP, else ask at once.
Refill == rpc' = IF wbuf = "set" THEN "lockw" ELSE "lockr"

LockPost == /\ rpc = "lockw" /\ mutw = "none"
            /\ rpc' = "postw" /\ mutw' = "rqt"
            /\ UNCHANGED <<mainvars, cur, left, done, wbuf, need,
                           mutr, rcnt, wcnt>>

\* rqt_wcnt = wbuf - owbuf, signal condw, unlock mutw.
Post == /\ rpc = "postw" /\ rpc' = "lockr"
        /\ wcnt' = done /\ mutw' = "none"
        /\ mpc' = IF mpc = "waitw" THEN "lockw" ELSE mpc
        /\ UNCHANGED <<vilen, volen, gops, cur, left, done, wbuf, need,
                       mutr, rcnt>>

LockTake == /\ rpc = "lockr" /\ mutr = "none"
            /\ rpc' = "testr" /\ mutr' = "rqt"
            /\ UNCHANGED <<mainvars, cur, left, done, wbuf, need,
                           mutw, rcnt, wcnt>>

\* Mutant: owbuf is not moved to the new output.
TakeOnTop == /\ rpc = "testr" /\ mutr' = "none"
             /\ \/ /\ rcnt = 0 /\ rpc' = "waitr"
                   /\ UNCHANGED <<cur, left, done, wbuf, rcnt>>
                \/ /\ rcnt # 0
                   /\ rpc' = IF need = 0 THEN "scan" ELSE "header"
                   /\ cur' = rcnt /\ left' = rcnt + Sentinel
                   /\ rcnt' = 0 /\ wbuf' = "set" /\ UNCHANGED done
             /\ UNCHANGED <<mainvars, need, mutw, wcnt>>

\* while (!rqt_rcnt) pthread_cond_wait (&condr, &mutr); then take the request.
\* LOCK is an `if': what was about to be copied is not checked again.
Take == /\ rpc = "testr" /\ mutr' = "none"
        /\ \/ /\ rcnt = 0 /\ rpc' = "waitr"
              /\ UNCHANGED <<cur, left, done, wbuf, rcnt>>
           \/ /\ rcnt # 0
              /\ rpc' = IF need = 0 THEN "scan" ELSE "header"
              /\ cur' = rcnt /\ left' = rcnt + Sentinel
              /\ rcnt' = 0 /\ done' = 0 /\ wbuf' = "set"
        /\ UNCHANGED <<mainvars, need, mutw, wcnt>>

\* The search for a start code needs Peek bytes.
OutOfBytes == /\ rpc = "scan" /\ left < Peek
              /\ Refill
              /\ UNCHANGED <<mainvars, cur, left, done, wbuf, need, sync>>

\* Not at a start code: one byte is copied, or dropped as one of a row of zero
\* bytes (REMOVE_BYTE_STUFFING).  A GOP begins with a sequence header's start
\* code, so there is none of this at its first byte.
CopyByte == /\ rpc = "scan" /\ left >= Peek /\ left < cur + Sentinel
            /\ left' = left - 1
            /\ done' = done \/ done' = done + 1
            /\ UNCHANGED <<mainvars, rpc, cur, wbuf, need, sync>>

\* A start code: its four bytes are copied.  Then a header's handler LOCKs and
\* COPYs h bytes, or there is no handler for this code.
StartCode == /\ rpc = "scan" /\ left >= Peek
             /\ left' = left - 4 /\ done' = done + 4
             /\ \/ rpc' = rpc /\ need' = need
                \/ rpc' = "header" /\ need' \in Headers
             /\ UNCHANGED <<mainvars, cur, wbuf, sync>>

\* A slice is recoded up to the next start code, which may be the sentinel;
\* its recoded form is used unless it is longer than the original.  A slice that is
\* not damaged ends there: the bits of a slice are read without LOCK.
Slice == /\ rpc = "scan" /\ left >= Peek
         /\ \E c \in 1 .. (left - 4 - Sentinel) : \E w \in 1 .. c :
               left' = left - 4 - c /\ done' = done + 4 + w
         /\ UNCHANGED <<mainvars, rpc, cur, wbuf, need, sync>>

CopyHeader == /\ rpc = "header" /\ left >= need
              /\ left' = left - need /\ done' = done + need
              /\ need' = 0 /\ rpc' = "scan"
              /\ UNCHANGED <<mainvars, cur, wbuf, sync>>

HeaderOutOfBytes == /\ rpc = "header" /\ left < need
                    /\ Refill
                    /\ UNCHANGED <<mainvars, cur, left, done, wbuf, need, sync>>

Recode == \/ OutOfBytes \/ CopyByte \/ StartCode \/ Slice
          \/ CopyHeader \/ HeaderOutOfBytes

RqtNext == LockPost \/ Post \/ LockTake \/ Take \/ Recode

(***************************************************************************)
(* Either thread may return from pthread_cond_wait without a signal.       *)
(***************************************************************************)
SpuriousMain == /\ mpc = "waitw" /\ mpc' = "lockw"
                /\ UNCHANGED <<vilen, volen, gops, rqtvars, sync>>
SpuriousRqt == /\ rpc = "waitr" /\ rpc' = "lockr"
               /\ UNCHANGED <<mainvars, cur, left, done, wbuf, need, sync>>

\* After exit() nothing runs any more.
HandoffTerminated == mpc = "exit" /\ UNCHANGED handoffvars

HandoffNext ==
    \/ mpc # "exit" /\ (MainNext \/ RqtNext \/ SpuriousMain \/ SpuriousRqt)
    \/ HandoffTerminated

\* The scheduler runs every thread that can take a step, and a thread that tries
\* to lock a mutex gets it although the other one, woken up spuriously, may take
\* and release it any number of times.  A spurious wake-up is never owed.
Fairness == /\ WF_handoffvars(mpc # "exit" /\ RqtNext)
            /\ SF_handoffvars(mpc # "exit" /\ (LockPost \/ LockTake))
            /\ WF_handoffvars(SetRequest \/ SignalRequest \/ TestReply)
            /\ SF_handoffvars(LockRequest \/ LockReply)

HandoffSpec == HandoffInit /\ [][HandoffNext]_handoffvars /\ Fairness

-------------------------------------------------------------------------------
(***************************************************************************)
(* Properties                                                              *)
(***************************************************************************)
Idle    == {"lockr", "testr", "waitr"}             \* rqt owns no buffer
Working == {"scan", "header", "lockw", "postw"}    \* rqt owns vibuf, vobuf
Waiting == {"lockw", "testw", "waitw"}             \* main is past its signal

\* Mutual exclusion: each mutex is held exactly in its critical sections.
MutexInv ==
    /\ (mutr = "main") <=> mpc \in {"set", "signalr"}
    /\ (mutr = "rqt")  <=> rpc = "testr"
    /\ (mutw = "main") <=> mpc = "testw"
    /\ (mutw = "rqt")  <=> rpc = "postw"

\* The two threads never work on the video buffers at the same time, "this and
\* the requant thread never run concurrently" (vamps.c, 578-579): while the
\* requantiser reads vibuf and writes vobuf, main is inside requant().
BuffersExclusive == rpc \in Working => mpc \in Waiting

\* What has become of the request main waits for: it is pending, being worked
\* on, or answered and the answer not read; in no case does everybody wait.
RequestInv ==
    /\ mpc \in {"own", "lockr", "set", "exit"} => rpc \in Idle /\ rcnt = 0
    /\ mpc = "signalr" => /\ rpc \in {"lockr", "waitr"}
                          /\ rcnt = vilen /\ wcnt = 0
    /\ mpc \in Waiting =>
          \/ rpc \in {"lockr", "testr"} /\ rcnt = vilen /\ wcnt = 0
          \/ rpc \in Working /\ rcnt = 0 /\ wcnt = 0 /\ cur = vilen
          \/ /\ rpc \in Idle /\ rcnt = 0 /\ wcnt = done /\ done > 0
             /\ cur = vilen /\ mpc # "waitw"

\* What the requantiser has written never exceeds what it has consumed, and a
\* GOP it has begun has some output: main waits for rqt_wcnt to be nonzero.
OutputInv ==
    /\ mpc \notin {"own", "exit"} => vilen \in Lens
    /\ need \in Headers \cup {0}
    /\ rpc = "scan" => need = 0
    /\ rpc = "header" => need \in Headers
    /\ cur \in Lens \cup {0}
    /\ done + left <= cur + Sentinel
    /\ rpc \in Working => /\ wbuf = "set"
                          /\ cur \in Lens
                          /\ left < cur + Sentinel => done > 0
    /\ rpc \in {"lockw", "postw"} => done > 0

IInv == TypeOK /\ MutexInv /\ RequestInv /\ OutputInv

\* The length requant() returns is that of this GOP's recoded form, not of an
\* earlier one: rqt_wcnt is reset by one thread under mutr and set by the other
\* under mutw, and read only after both.
ReplyIsOurs == [][mpc = "testw" /\ mpc' = "own" => /\ volen' = done
                                                   /\ cur = vilen]_handoffvars

\* The two threads implement the subroutine that vaporize() takes requant() for.
Call == INSTANCE VampsCall
          WITH turn <- IF mpc \in {"own", "exit"} THEN "caller" ELSE "callee",
               len <- vilen, Slack <- Sentinel
ImplementsCall == Call!AbsSpec

===============================================================================
