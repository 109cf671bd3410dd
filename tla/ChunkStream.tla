----------------------------- MODULE ChunkStream -----------------------------
(***************************************************************************)
(* The stream of packages of one chunk after the other, from the device to *)
(* the receiver of ChunkOps, over a link that may lose packages and let    *)
(* them overtake each other, the check at the end of a chunk, and the      *)
(* missing packages requested one by one, whose replies may be repeated.   *)
(* The commands that carry the requests are left to Download.              *)
(*                                                                         *)
(* The payload of package t is t itself, so that a slot tells which        *)
(* package it holds.  The module shares no name with Download: ChunkProofs *)
(* extends both.                                                           *)
(***************************************************************************)
EXTENDS ChunkOps

CONSTANTS
    Sizes,          \* the package counts chunks may have
    MaxChunks,      \* bound: chunks streamed
    LongestGap,     \* how many packages in a row the link may lose
    Disorder,       \* by how many places links overtake a package
    Stale           \* what last_idx may hold before the first chunk

ASSUME StreamAssumption ==
    /\ Sizes \subseteq Nat \ {0}
    /\ MaxChunks \in Nat
    /\ LongestGap \in Nat
    /\ Disorder \subseteq Nat
    /\ Stale \subseteq Nat
    /\ None \notin Nat

VARIABLES
    recv,     \* the receiver (ChunkOps)
    phase,    \* "idle", "stream", "repair" or, when the chunk is complete for the
              \* central, "done"
    next,     \* the package the device sends next
    gap,      \* packages lost since the last one that arrived
    reach,    \* by how many places this link may overtake a package
    late,     \* packages that have been overtaken and are still on their way
    asked,    \* packages of this chunk that have been requested again
    chunks,   \* chunks started so far
    beheaded, \* ghost: the first package of this chunk was lost or overtaken
    left,     \* ghost: what this chunk found in last_idx
    answered, \* ghost: packages requested again that have been answered
    repeated  \* ghost: one of them has been answered more than once

link == <<next, gap, reach, late>>
ghosts == <<beheaded, left, answered, repeated>>
streamVars == <<recv, phase, link, asked, chunks, ghosts>>

StreamTypeOK ==
    /\ IsReceiver(recv, Nat)
    /\ phase \in {"idle", "stream", "repair", "done"}
    /\ next \in Nat
    /\ gap \in Nat
    /\ reach \in Disorder
    /\ late \subseteq Nat
    /\ asked \subseteq Nat
    /\ chunks \in Nat
    /\ beheaded \in BOOLEAN
    /\ repeated \in BOOLEAN
    /\ left \in Nat
    /\ answered \subseteq asked

StreamInit ==
    /\ \E stale \in Stale, flag \in BOOLEAN : recv = NewReceiver(stale, flag)
    /\ phase = "idle"
    /\ next = 0
    /\ gap = 0
    /\ reach \in Disorder
    /\ late = {}
    /\ asked = {}
    /\ chunks = 0
    /\ beheaded = FALSE
    /\ left = 0
    /\ answered = {}
    /\ repeated = FALSE

-----------------------------------------------------------------------------

\* REPLY_START_HUGE_CHUNK announces a chunk of n packages.
Start(n) ==
    /\ phase # "stream"
    /\ chunks < MaxChunks
    /\ chunks' = chunks + 1
    /\ recv' = StartChunk(recv, n)
    /\ phase' = "stream"
    /\ next' = 0
    /\ gap' = 0
    /\ asked' = {}
    /\ beheaded' = FALSE
    /\ left' = recv.last_idx
    /\ answered' = {}
    /\ repeated' = FALSE
    /\ UNCHANGED <<reach, late>>

\* The device may send on as long as no package is overtaken too far.
MaySend ==
    /\ phase = "stream"
    /\ next < recv.count
    /\ \A t \in late : next - t <= reach

Arrives ==
    /\ MaySend
    /\ recv' = ReceivePackage(recv, next % Wrap, next)
    /\ next' = next + 1
    /\ gap' = 0
    /\ UNCHANGED <<phase, reach, late, asked, chunks, ghosts>>

IsLost ==
    /\ MaySend
    /\ gap < LongestGap
    /\ next' = next + 1
    /\ gap' = gap + 1
    /\ beheaded' = (beheaded \/ next = 0)
    /\ UNCHANGED <<recv, phase, reach, late, asked, chunks, left, answered, repeated>>

IsOvertaken ==
    /\ MaySend
    /\ reach > 0
    /\ late' = late \cup {next}
    /\ next' = next + 1
    /\ beheaded' = (beheaded \/ next = 0)
    /\ UNCHANGED <<recv, phase, gap, reach, asked, chunks, left, answered, repeated>>

ArrivesLate(t) ==
    /\ recv' = ReceivePackage(recv, t % Wrap, t)
    /\ late' = late \ {t}
    /\ UNCHANGED <<phase, next, gap, reach, asked, chunks, ghosts>>

\* CMD_START_HUGE_CHUNK_ACK_PROC follows the last package: the chunk is complete,
\* or the first missing package is requested.
Check ==
    /\ phase = "stream"
    /\ next = recv.count
    /\ late = {}
    /\ LET r == CheckChunk(recv) IN
       \/ /\ r.missed_cnt = 0
          /\ recv' = r
          /\ phase' = "done"
          /\ UNCHANGED asked
       \/ /\ r.missed_cnt # 0
          /\ recv' = NextMissing(r)
          /\ phase' = "repair"
          /\ asked' = {Least(r.missed)}
    /\ UNCHANGED <<link, chunks, ghosts>>

\* REPLY_MISSED_PACKAGE to a request for package i, which the device may have
\* heard more than once: the reply does not name the package.
Reply(i) ==
    /\ phase \in {"repair", "done"}
    /\ i \in asked
    /\ answered' = answered \cup {i}
    /\ repeated' = (repeated \/ i \in answered)
    /\ LET r == StoreMissing(recv, i) IN
       \/ /\ r.missed # {}
          /\ recv' = NextMissing(r)
          /\ asked' = asked \cup {Least(r.missed)}
          /\ UNCHANGED phase
       \/ /\ r.missed = {}
          /\ recv' = r
          /\ phase' = "done"
          /\ UNCHANGED asked
    /\ UNCHANGED <<link, chunks, beheaded, left>>

StreamNext ==
    \/ \E n \in Sizes : Start(n)
    \/ Arrives
    \/ IsLost
    \/ IsOvertaken
    \/ \E t \in late : ArrivesLate(t)
    \/ Check
    \/ \E i \in asked : Reply(i)

StreamSpec == StreamInit /\ [][StreamNext]_streamVars

-----------------------------------------------------------------------------

\* A link the index computation can cope with: no gap is as long as the part of
\* the index byte's range that lies ahead of the window.
LinkIsKind == LongestGap + 2 + Window <= Wrap

\* While packages keep their order, the first one arrives and no reply is repeated,
\* a slot never holds the payload of another package: the index rebuilt from a byte
\* (bleUartRx) is the one the device had, and so is the slot of a reply.
StreamSlotsAreOwn ==
    reach = 0 /\ ~beheaded /\ ~repeated =>
        \A i \in DOMAIN recv.vec : recv.vec[i] \in {None, i}

\* A chunk is never taken for complete with empty slots, by the shortcut of
\* onStartHugeChunkAckProcArrived (nothing skipped and the last one received: do
\* not look through the slots) or after the replies, in whatever order packages
\* came and whatever skipped and last_idx held before.  The exception is a
\* chunk without its first package: of the packages before the one last_idx pointed
\* to when it started any may be missing unnoticed.
HolesAreFound ==
    phase = "done" => \/ Holes(recv) = {}
                      \/ beheaded /\ Holes(recv) \subseteq 0..(left - 1)

\* Replies are stored where the last request pointed (missed_in_request).  One that
\* is repeated goes to a slot that is not its own; what a requested slot holds is
\* then a package requested before, never a later one, and without a repetition
\* it is the slot's own.
RepairIsOwn ==
    \A t \in asked \cap DOMAIN recv.vec :
        \/ recv.vec[t] \in {None, t}
        \/ repeated /\ recv.vec[t] \in asked /\ recv.vec[t] < t
=============================================================================
