------------------------------ MODULE FetchRun ------------------------------
(***************************************************************************)
(* A run of fetch(1): the loop over the URLs and fetch() of fetch/fetch.c, *)
(* composed with the broker its connections come from.  Every step is one  *)
(* of FetchBroker's or leaves all of FetchBroker's state as it is.         *)
(*                                                                         *)
(* fetch() decides from the local file, the remote one and what a transfer *)
(* delivered whether to resume, start over, retry or give up.  Contents    *)
(* are sequences: the remote file is <<1, ..., n>>, so a byte out of place *)
(* shows.  Nobody else touches the files, so opening and copying are one   *)
(* step each; SIGINT is FetchBroker's Interrupt.                           *)
(*                                                                         *)
(* Left out: -o -, -s, -l, -m, -i, -S, -F and -R, a local file that is not *)
(* regular, and failures of local system calls.                            *)
(***************************************************************************)
EXTENDS FetchBroker

CONSTANTS
    Flags,     \* the sets of flags among "a" and "r" the run may have
    Files,     \* what there may be at the path of a URL
    Remotes,   \* what there may be at the other end
    MaxUrls,   \* bound: calls of fetch() in a run
    MaxTries   \* bound: passes of a fetch() through "again"

ASSUME RunAssumption == MaxUrls \in Nat \ {0} /\ MaxTries \in Nat \ {0}

\* What fetch -r relies on: a local file with the time of the remote one has
\* its bytes, as far as both go.
Agrees(data, rem) == \A i \in 1 .. Len(data) : i <= Len(rem) => data[i] = rem[i]

ASSUME FilesAssumption ==
    /\ Remotes \subseteq Seq(Nat)
    /\ Files \subseteq [exists : BOOLEAN, data : Seq(Nat), same : BOOLEAN]
    /\ \A f \in Files, rem \in Remotes : f.same => Agrees(f.data, rem)

VARIABLES
    flags, phase, urls, sigalrm,
    armed,     \* alarm(timeout) is running
    conn,      \* fetchXGet() has a connection
    us,        \* struct url_stat: is the size known, is the time
    remote,    \* the file at the other end
    file,      \* the file at path: exists, data, same (mtime as remote's)
    job,       \* fetch()'s variables
    result     \* what fetch() returned last: none, ok, failed

fvars == <<flags, phase, urls, sigalrm, armed, conn, us, remote, file, job, result>>
allvars == <<vars, fvars>>

\* of and tmppath: which file is open, all that was written to it (out),
\* where the next byte goes and how much has left the stdio buffer.
\* stale: fetchXGet() succeeded with sigalrm set.  dirty: a retry goes on in a
\* file that does not end where the stream begins, or -r took the local file
\* for a part of the remote one without a time to tell.
NewJob == [tries |-> 1, offset |-> 0, count |-> 0, prev |-> -1, of |-> "null",
           tmp |-> FALSE, tmpdata |-> <<>>, out |-> <<>>, pos |-> 0, flushed |-> 0,
           stale |-> FALSE, dirty |-> FALSE]

\* The file at path as stat() and a new open() see it.
PathExists == file.exists \/ job.of = "path"
OnDisk == IF job.of = "path" THEN SubSeq(job.out, 1, job.flushed) ELSE file.data

Overlay(old, at, new) ==
    [i \in 1 .. (IF at + Len(new) > Len(old) THEN at + Len(new) ELSE Len(old)) |->
        IF i \in at + 1 .. at + Len(new) THEN new[i - at] ELSE old[i]]

FInit ==
    /\ Init
    /\ flags \in Flags /\ phase = "again" /\ urls = 1 /\ sigalrm = FALSE
    /\ armed = FALSE /\ conn = FALSE /\ us = [size |-> FALSE, mtime |-> FALSE]
    /\ remote \in Remotes /\ file \in Files /\ job = NewJob /\ result = "none"

-----------------------------------------------------------------------------
(* The ends of fetch() and what main() does next.                          *)

\* fclose(of).  utimes() has given the file the remote time, if known.
CloseOf(j) ==
    IF j.of = "path" THEN [exists |-> TRUE, data |-> j.out, same |-> us.mtime] ELSE file

\* success: the temporary file takes the place of path.
Success(j) ==
    /\ phase' = "done" /\ result' = "ok"
    /\ file' = IF ~j.tmp THEN CloseOf(j)
               ELSE [exists |-> TRUE, same |-> us.mtime,
                     data |-> IF j.of = "tmp" THEN j.out ELSE j.tmpdata]
    /\ job' = j

failure_keep(j) ==
    /\ phase' = "done" /\ result' = "failed"
    /\ file' = CloseOf(j)
    /\ job' = j

\* Without -r, what was being written is removed.
failure(j) ==
    /\ phase' = "done" /\ result' = "failed"
    /\ file' = IF j.of = "path" /\ "r" \notin flags
               THEN [exists |-> FALSE, data |-> <<>>, same |-> FALSE]
               ELSE CloseOf(j)
    /\ job' = j

\* From "signal" on, with f open: timed out is sigalrm.
Again(j) ==
    /\ j.tries < MaxTries
    /\ phase' = "again"
    /\ job' = [j EXCEPT !.tries = @ + 1]
    /\ UNCHANGED <<file, result>>

\* Faulty: a short transfer is noticed only if it timed out.
VerdictTrusting(j, timedout) ==
    IF us.size /\ j.count < Len(remote) /\ timedout
    THEN IF "a" \in flags /\ j.count > j.prev THEN Again(j) ELSE failure_keep(j)
    ELSE IF timedout /\ ~us.size THEN failure_keep(j)
    ELSE Success(j)

Verdict(j, timedout) ==
    IF us.size /\ j.count < Len(remote)
    THEN IF "a" \in flags /\ j.count > j.prev THEN Again(j) ELSE failure_keep(j)
    ELSE IF timedout /\ ~us.size THEN failure_keep(j)
    ELSE Success(j)

-----------------------------------------------------------------------------
(* fetch().                                                                *)

\* "again": stat(path), and the transfer is asked for.
again ==
    /\ client = "idle" /\ phase = "again"
    /\ job' = [job EXCEPT
                 !.prev = IF PathExists THEN Len(OnDisk) ELSE -1,
                 !.offset = IF PathExists /\ ("r" \in flags \/ job.tries > 1)
                            THEN Len(OnDisk) ELSE @]
    /\ phase' = "get" /\ conn' = FALSE /\ armed' = Timeouts
    /\ UNCHANGED <<vars, flags, urls, sigalrm, us, remote, file, result>>

\* The alarm goes off in fetchXGet() while no answer is awaited.
AlarmInTransfer ==
    /\ armed /\ client = "idle" /\ phase = "get"
    /\ sigalrm' = TRUE /\ armed' = FALSE
    /\ UNCHANGED <<vars, flags, phase, urls, conn, us, remote, file, job, result>>

\* fetchXGet() returns a stream, from where it was asked or from earlier on: a
\* later start is refused, "too far?".  A Content-Range for a request without
\* an offset is left out.
GotStream ==
    /\ client = "idle" /\ phase \in {"get", "refetch"} /\ conn
    /\ us' \in [size : BOOLEAN, mtime : BOOLEAN]
    /\ \E off \in 0 .. job.offset :
         IF sigalrm /\ phase = "get"
         THEN phase' = "late" /\ job' = [job EXCEPT !.offset = off, !.stale = TRUE]
         ELSE /\ phase' = IF phase = "get" THEN "open" ELSE "create"
              /\ job' = [job EXCEPT !.offset = off]
    /\ armed' = FALSE
    /\ UNCHANGED <<vars, flags, urls, sigalrm, conn, remote, file, result>>

NoStream ==
    /\ client = "idle" /\ phase \in {"get", "refetch"}
    /\ failure(job) /\ armed' = FALSE
    /\ UNCHANGED <<vars, flags, urls, sigalrm, conn, us, remote>>

\* sigalrm is set although there is a stream.
TimedOutLate ==
    /\ client = "idle" /\ phase = "late"
    /\ Verdict([job EXCEPT !.flushed = IF us.mtime THEN Len(job.out) ELSE @], TRUE)
    /\ UNCHANGED <<vars, flags, urls, sigalrm, armed, conn, us, remote>>

\* In resume mode, a local file that is not a part of the remote one.
Mismatch == us.mtime /\ ~file.same /\ job.tries = 1

Untold == ~us.mtime /\ job.tries = 1

\* "open output file".
Open ==
    /\ client = "idle" /\ phase = "open"
    /\ LET resume == "r" \in flags /\ job.prev # -1
           fresh == phase' = (IF job.offset > 0 THEN "refetch" ELSE "create")
                    /\ job' = [job EXCEPT !.offset = 0]
       IN \/ /\ resume /\ Mismatch /\ job.offset > 0
             /\ fresh /\ UNCHANGED <<file, result>>
          \/ /\ resume /\ ~Mismatch /\ us.size /\ Len(remote) = job.prev
             /\ Success([job EXCEPT !.dirty = @ \/ Untold])
          \/ /\ resume /\ ~Mismatch /\ us.size /\ Len(remote) < job.prev
             /\ failure(job)
          \/ /\ resume /\ ~Mismatch /\ us.size /\ Len(remote) > job.prev
             /\ phase' = "copy"
             /\ job' = [job EXCEPT !.of = "path", !.out = OnDisk, !.pos = job.offset,
                                   !.flushed = Len(OnDisk),
                                   !.tmpdata = IF job.of = "tmp" THEN job.out ELSE @,
                                   !.dirty = @ \/ job.tmp \/ Untold]
             /\ UNCHANGED <<file, result>>
          \/ /\ ~resume \/ (~Mismatch /\ ~us.size)
             /\ IF job.of = "null" THEN fresh
                ELSE /\ phase' = "copy"
                     /\ job' = [job EXCEPT !.pos = IF resume THEN job.offset ELSE @,
                                           !.dirty = @ \/ job.pos # job.offset]
             /\ UNCHANGED <<file, result>>
    /\ UNCHANGED <<vars, flags, urls, sigalrm, armed, conn, us, remote>>

\* The process ends; of fetch's variables nothing is left.
Gone(how) ==
    /\ phase' = how /\ job' = NewJob /\ result' = "none"
    /\ sigalrm' = FALSE /\ armed' = FALSE /\ conn' = FALSE
    /\ us' = [size |-> FALSE, mtime |-> FALSE]
    /\ urls' = MaxUrls
    /\ UNCHANGED <<flags, remote, file>>

\* The stream has been closed and, the offset being 0, not opened again:
\* setvbuf(NULL).
Crash ==
    /\ client = "idle" /\ phase = "open"
    /\ "r" \in flags /\ job.prev # -1 /\ Mismatch /\ job.offset = 0
    /\ ClientExit /\ Gone("crashed")

\* A temporary file if there is a file at path, else path itself.
Create ==
    /\ client = "idle" /\ phase = "create"
    /\ job' = [job EXCEPT !.of = IF job.prev # -1 THEN "tmp" ELSE "path",
                          !.tmp = job.prev # -1, !.out = <<>>, !.pos = 0, !.flushed = 0]
    /\ phase' = "copy"
    /\ UNCHANGED <<vars, flags, urls, sigalrm, armed, conn, us, remote, file, result>>

\* k bytes arrive before the stream ends, fails or times out.  What is written
\* is flushed if the time is known, else as far as stdio did by itself.
Copy ==
    /\ client = "idle" /\ phase = "copy"
    /\ \E k \in 0 .. Len(remote) - job.offset, how \in {"end", "error", "timeout"} :
         LET out == Overlay(job.out, job.pos,
                            SubSeq(remote, job.offset + 1, job.offset + k))
         IN /\ sigalrm' = (how = "timeout")
            /\ \E n \in IF us.mtime THEN {Len(out)} ELSE job.flushed .. Len(out) :
                 LET j == [job EXCEPT !.out = out, !.pos = @ + k, !.flushed = n,
                                      !.count = job.offset + k]
                 IN IF how = "error" THEN failure(j) ELSE Verdict(j, how = "timeout")
    /\ UNCHANGED <<vars, flags, urls, armed, conn, us, remote>>

\* main(): with -a a soft failure is tried again, else the next URL.
NextUrl ==
    /\ client = "idle" /\ phase = "done" /\ urls < MaxUrls
    /\ urls' = urls + 1
    /\ phase' = "again" /\ result' = "none"
    /\ \/ /\ "a" \in flags /\ result = "failed"
          /\ job' = [NewJob EXCEPT !.dirty = job.dirty]
          /\ UNCHANGED <<file, remote>>
       \/ file' \in Files /\ remote' \in Remotes /\ job' = NewJob
    /\ UNCHANGED <<vars, flags, sigalrm, armed, conn, us>>

FetchStep ==
    \/ again \/ AlarmInTransfer \/ GotStream \/ NoStream \/ TimedOutLate
    \/ Open \/ Create \/ Copy \/ NextUrl

-----------------------------------------------------------------------------
Connecting == phase \in {"get", "refetch"}

FNext ==
    \/ FetchStep \/ Crash
    \/ (Fork \/ Confine) /\ UNCHANGED fvars
    \/ Connecting /\ (\E h \in Hosts, p \in Ports : Send(h, p)) /\ UNCHANGED fvars
    \/ /\ ClientStep
       /\ conn' = (Len(got') > Len(got))
       /\ UNCHANGED <<flags, phase, urls, sigalrm, armed, us, remote, file, job, result>>
    \/ /\ Alarm /\ armed
       /\ sigalrm' = TRUE /\ armed' = FALSE /\ conn' = FALSE
       /\ UNCHANGED <<flags, phase, urls, us, remote, file, job, result>>
    \/ BrokerStep /\ UNCHANGED fvars
    \/ BrokerKilled /\ UNCHANGED fvars
    \/ (ClientExit \/ Interrupt) /\ Gone("gone")

FSpec == FInit /\ [][FNext]_allvars

\* As FetchBroker's FairSpec.
FFairSpec == FSpec /\ WF_vars(BrokerStep) /\ WF_vars(ClientStep)

(* When fetch() reports success and knew the size, the file at path is the *)
(* remote file, byte for byte, whatever was there before and however the   *)
(* transfer was cut, resumed or retried.  Left out: a retry by -a that     *)
(* goes on in a temporary file, in an unflushed one, or with a stream that *)
(* begins elsewhere than the file ends (fetch.c:879); a success judged     *)
(* with a stale sigalrm (fetch.c:596); and a file that -r went on with, in *)
(* this pass or an earlier one, without a time to compare (fetch.c:651).   *)
FileWhole ==
    (result = "ok" /\ us.size /\ ~job.dirty /\ ~job.stale)
    => file.exists /\ file.data = remote
=============================================================================
