------------------------------- MODULE Ps2Host -------------------------------
(***************************************************************************)
(* The driver of host: (iop/ps2host).  Calls of several threads send one   *)
(* request each over the stream to a PC and wait for the reply, under a    *)
(* semaphore; a PC that connects replaces the stream.  What fsysRemove,    *)
(* fsysOpen and fsysIoctl remember for a later call is outside of the      *)
(* semaphore.                                                              *)
(*                                                                         *)
(* The PC (external) answers every request in order, reuses its lowest     *)
(* free descriptor, and closes a file that it renames.  ioman (external)   *)
(* follows every remove by a mkdir, which is what remove_flag is for.      *)
(***************************************************************************)
EXTENDS Integers, Sequences, FiniteSets

CONSTANTS Callers, Handles, MaxConnections,
    Ops,                \* per caller
    Segments            \* of a write

VARIABLES
    pko_fileio_sock,    \* the connection, or 0
    pc,                 \* per connection: up, files, and what is in transit
    calls,              \* per caller: the call it makes
    open_fds,           \* per caller and handle: own_fd and the connection
    fsys,               \* the semaphore and what is remembered
    mixed               \* ghost: a handle was used on another connection
hostVars == <<pko_fileio_sock, pc, calls, open_fds, fsys, mixed>>

(* Each call sends one packet and waits for one, but for the segments of a *)
(* write.                                                                  *)
FileCalls == {"open", "close", "lseek", "read", "write", "ioctl"}
PathCalls == {"remove", "mkdir", "rmdir"}
DirCalls == {"dopen", "dread", "dclose"}
OpenCalls == {"open", "dopen"}
Closes == {"close", "dclose"}
OnHandle == (FileCalls \cup DirCalls) \ OpenCalls
AllCalls == FileCalls \cup PathCalls \cup DirCalls
None == [op |-> "none", fd |-> 0, by |-> 0]
Closed == [fd |-> 0, on |-> 0, renamed |-> FALSE]
Idle == [op |-> "none", at |-> "idle", h |-> 0, fd |-> 0, left |-> 0, on |-> 0, how |-> "", ret |-> 0, bug |-> FALSE]
HostAssumption == Ops \in [Callers -> SUBSET AllCalls] /\ Segments \in Nat \ {0}

Of(c) == calls[c]
Handle(c) == open_fds[c][Of(c).h]
Moves(c, call) == calls' = [calls EXCEPT ![c] = call]
-----------------------------------------------------------------------------
(* What a call does before it waits for the semaphore.                     *)

(* A call that makes no request has its answer at once.                    *)
Skips(c, call, ret) == Moves(c, [call EXCEPT !.at = "after", !.how = "skipped", !.ret = ret])
Waits(c, call) == Moves(c, [call EXCEPT !.at = "wait"])

(* Variant: a mkdir that is skipped leaves the flag of the remove set.     *)
MkdirKeepsFlag(c, call) ==
    IF fsys.remove_flag THEN Skips(c, call, fsys.remove_result) /\ UNCHANGED fsys
    ELSE Waits(c, call) /\ UNCHANGED fsys
fsysMkdir(c, call) ==
    IF fsys.remove_flag
    THEN Skips(c, call, fsys.remove_result) /\ fsys' = [fsys EXCEPT !.remove_flag = FALSE]
    ELSE Waits(c, call) /\ UNCHANGED fsys

fsysClose(c, call) ==
    IF call.fd = fsys.renamed_fd THEN Skips(c, call, 0) ELSE Waits(c, call)

fsysIoctl(c, call) ==
    IF call.fd # fsys.lastopen_fd THEN Skips(c, call, -5) ELSE Waits(c, call)

Enter(c, op, h, bug) ==
    LET call == [Idle EXCEPT !.op = op, !.h = h, !.bug = bug, !.left = IF op = "write" THEN Segments ELSE 1,
                             !.fd = IF op \in OnHandle THEN open_fds[c][h].fd ELSE 0]
    IN /\ mixed' = (mixed \/ (op \in OnHandle /\ open_fds[c][h].on # pko_fileio_sock))
       /\ IF op = "mkdir" THEN fsysMkdir(c, call)
          ELSE /\ fsys' = [fsys EXCEPT !.remove_flag = op = "remove"]
               /\ IF op \in Closes THEN fsysClose(c, call)
                  ELSE IF op = "ioctl" THEN fsysIoctl(c, call) ELSE Waits(c, call)
       /\ UNCHANGED <<pko_fileio_sock, pc, open_fds>>

(* A caller renames a file that it has just opened, and closes it next.    *)
MayCall(c, op, h) ==
    /\ IF op \in OpenCalls THEN open_fds[c][h] = Closed
       ELSE IF op \in PathCalls THEN h = 1 ELSE open_fds[c][h] # Closed
    /\ \A k \in Handles : open_fds[c][k].renamed => op \in Closes /\ h = k
Call(c) ==
    /\ Of(c).at = "idle"
    /\ \E op \in Ops[c], h \in Handles : MayCall(c, op, h) /\ Enter(c, op, h, FALSE)
-----------------------------------------------------------------------------
(* The request and its reply.                                              *)

(* Variant: the callers do not wait for each other.                        *)
TakesAnyway(c) ==
    /\ Of(c).at = "wait"
    /\ fsys' = [fsys EXCEPT !.sema = FALSE]
    /\ Moves(c, [Of(c) EXCEPT !.at = "send"])
    /\ UNCHANGED <<pko_fileio_sock, pc, open_fds, mixed>>
Takes(c) ==
    /\ Of(c).at = "wait" /\ fsys.sema
    /\ fsys' = [fsys EXCEPT !.sema = FALSE]
    /\ Moves(c, [Of(c) EXCEPT !.at = "send"])
    /\ UNCHANGED <<pko_fileio_sock, pc, open_fds, mixed>>

(* The semaphore is given back with the result.                            *)
Done(c, how, ret) ==
    /\ Moves(c, [Of(c) EXCEPT !.at = "after", !.how = how, !.ret = ret])
    /\ fsys' = [fsys EXCEPT !.sema = TRUE]

pko_write_file(c, reply) ==
    /\ Moves(c, [Of(c) EXCEPT !.at = "send", !.left = @ - 1])
    /\ fsys' = [fsys EXCEPT !.recv_packet = reply.fd]

(* A send to a PC that is gone may fail; pko_read_file keeps the socket    *)
(* then, the others close it.                                              *)
pko_close_socket(c) == pko_fileio_sock' = IF Of(c).op = "read" THEN pko_fileio_sock ELSE 0
pko_lwip_send(c) ==
    /\ Of(c).at = "send"
    /\ mixed' = (mixed \/ (Of(c).op \in OnHandle /\ Handle(c).on # pko_fileio_sock))
    /\ UNCHANGED open_fds
    /\ \/ pko_fileio_sock = 0 /\ Done(c, "refused", -1) /\ UNCHANGED <<pko_fileio_sock, pc>>
       \/ /\ pko_fileio_sock # 0
          /\ pc' = IF pc[pko_fileio_sock].up
                   THEN [pc EXCEPT ![pko_fileio_sock].request = [op |-> Of(c).op, fd |-> Of(c).fd, by |-> <<c, Of(c).h>>]]
                   ELSE pc
          /\ Moves(c, [Of(c) EXCEPT !.at = "sent"])
          /\ UNCHANGED <<pko_fileio_sock, fsys>>
       \/ /\ pko_fileio_sock # 0 /\ ~pc[pko_fileio_sock].up
          /\ pko_close_socket(c)
          /\ Done(c, "refused", -1) /\ UNCHANGED pc

(* The socket is read once more for the reply, and may be another by now.  *)
pko_recv_bytes(c) ==
    /\ Of(c).at = "sent"
    /\ Moves(c, [Of(c) EXCEPT !.at = "receive", !.on = pko_fileio_sock])
    /\ UNCHANGED <<pko_fileio_sock, pc, open_fds, fsys, mixed>>

(* A reply to something else is refused.  When the stream ends instead,    *)
(* pko_accept_pkt returns -1, which its callers take for a reply: the      *)
(* result is the one that recv_packet had before.                          *)
pko_accept_pkt(c) ==
    LET k == Of(c).on
        reply == IF k = 0 THEN None ELSE pc[k].reply
    IN /\ Of(c).at = "receive"
       /\ \/ /\ reply # None
             /\ pc' = [pc EXCEPT ![k].reply = None]
             /\ IF reply.op # Of(c).op THEN Done(c, "foreign", -1)
                ELSE IF Of(c).left > 1 /\ reply.fd >= 0
                THEN pko_write_file(c, reply)
                ELSE /\ Moves(c, [Of(c) EXCEPT !.at = "after", !.ret = reply.fd,
                                               !.how = IF reply.by = <<c, Of(c).h>> THEN "reply" ELSE "foreign"])
                     /\ fsys' = [fsys EXCEPT !.sema = TRUE, !.recv_packet = reply.fd]
          \/ /\ reply = None /\ (IF k = 0 THEN TRUE ELSE ~pc[k].up)
             /\ Done(c, "stale", fsys.recv_packet) /\ UNCHANGED pc
       /\ UNCHANGED <<pko_fileio_sock, open_fds, mixed>>

(* What is remembered after the semaphore was given back.                  *)
(* Variant: a file that could not be renamed counts as closed, too.        *)
RemembersAny(c) ==
    LET call == Of(c)
        r == call.ret
    IN fsys' = IF call.op \in OpenCalls THEN [fsys EXCEPT !.renamed_fd = -1, !.lastopen_fd = r]
               ELSE IF call.op \in Closes THEN [fsys EXCEPT !.renamed_fd = -1]
               ELSE IF call.op = "ioctl" /\ call.how # "skipped" THEN [fsys EXCEPT !.renamed_fd = call.fd]
               ELSE IF call.op = "remove" THEN [fsys EXCEPT !.remove_result = r] ELSE fsys
Remembers(c) ==
    LET call == Of(c)
        r == call.ret
    IN fsys' = IF call.op \in OpenCalls THEN [fsys EXCEPT !.renamed_fd = -1, !.lastopen_fd = r]
               ELSE IF call.op \in Closes THEN [fsys EXCEPT !.renamed_fd = -1]
               ELSE IF call.op = "ioctl" /\ call.how # "skipped" /\ r \in {0, -6} THEN [fsys EXCEPT !.renamed_fd = call.fd]
               ELSE IF call.op = "remove" THEN [fsys EXCEPT !.remove_result = r] ELSE fsys
Return(c) ==
    LET call == Of(c) IN
    /\ call.at = "after"
    /\ Remembers(c)
    /\ open_fds' =
        [open_fds EXCEPT ![c][call.h] =
            IF call.op \in OpenCalls /\ call.ret >= 0 THEN [fd |-> call.ret, on |-> call.on, renamed |-> FALSE]
            ELSE IF call.op \in Closes THEN Closed
            ELSE IF call.op = "ioctl" /\ call.how # "skipped" THEN [@ EXCEPT !.renamed = call.ret \in {0, -6}]
            ELSE @]
    /\ Moves(c, IF call.op = "remove" THEN [Idle EXCEPT !.at = "ioman"] ELSE Idle)
    /\ UNCHANGED <<pko_fileio_sock, pc, mixed>>

ioman_mkdir(c) == Of(c).at = "ioman" /\ Enter(c, "mkdir", 1, TRUE)
-----------------------------------------------------------------------------
(* The PC, and the thread that waits for one.                              *)

Untaken(n, files) == \A f \in files : f.fd # n
Lowest(files) ==
    CHOOSE n \in 1..(Cardinality(files) + 1) : Untaken(n, files) /\ \A k \in 1..(n - 1) : ~Untaken(k, files)

Served(q, files) ==
    LET Has == {f \in files : f.fd = q.fd}
        With(ret) == [q EXCEPT !.fd = ret]
    IN IF q.op \in OpenCalls
       THEN {<<With(-1), files>>, <<With(Lowest(files)), files \cup {[fd |-> Lowest(files), by |-> q.by]}>>}
       ELSE IF q.op \in Closes THEN {<<With(IF Has = {} THEN -1 ELSE 0), files \ Has>>}
       ELSE IF q.op = "ioctl" THEN {<<With(-1), files>>} \cup {<<With(r), files \ Has>> : r \in {0, -6}}
       ELSE {<<With(-1), files>>, <<With(0), files>>}
Serves(k) ==
    /\ pc[k].up /\ pc[k].request # None
    /\ \E s \in Served(pc[k].request, pc[k].files) :
        pc' = [pc EXCEPT ![k].request = None, ![k].reply = s[1], ![k].files = s[2]]
    /\ UNCHANGED <<pko_fileio_sock, calls, open_fds, fsys, mixed>>

(* A reply that has arrived may be read after the end of the stream.       *)
Ends(conn, reply) == [conn EXCEPT !.up = FALSE, !.request = None, !.reply = reply, !.files = {}]
PcLeaves(k) ==
    /\ pc[k].up
    /\ \E reply \in {None, pc[k].reply} : pc' = [pc EXCEPT ![k] = Ends(@, reply)]
    /\ UNCHANGED <<pko_fileio_sock, calls, open_fds, fsys, mixed>>

pko_file_serv ==
    /\ Len(pc) < MaxConnections
    /\ pc' = Append(IF pko_fileio_sock > 0 THEN [pc EXCEPT ![pko_fileio_sock] = Ends(@, None)] ELSE pc,
                    [up |-> TRUE, files |-> {}, request |-> None, reply |-> None])
    /\ pko_fileio_sock' = Len(pc) + 1
    /\ UNCHANGED <<calls, open_fds, fsys, mixed>>
-----------------------------------------------------------------------------
HostInit ==
    /\ pko_fileio_sock = 0 /\ pc = <<>>
    /\ calls = [c \in Callers |-> Idle]
    /\ open_fds = [c \in Callers |-> [h \in Handles |-> Closed]]
    /\ fsys = [sema |-> TRUE, lastopen_fd |-> 0, renamed_fd |-> 0, remove_flag |-> FALSE, remove_result |-> 0,
               recv_packet |-> 0]
    /\ mixed = FALSE

HostNext ==
    \/ \E c \in Callers : \/ Call(c) \/ Takes(c) \/ pko_lwip_send(c) \/ pko_recv_bytes(c) \/ pko_accept_pkt(c)
                          \/ Return(c) \/ ioman_mkdir(c)
    \/ \E k \in 1..Len(pc) : Serves(k) \/ PcLeaves(k)
    \/ pko_file_serv
HostSpec == HostInit /\ [][HostNext]_hostVars
-----------------------------------------------------------------------------
(* The reply that a call gets is the one to its own request.               *)
OwnReply == \A c \in Callers : Of(c).how # "foreign"

(* As long as no handle was used on another connection than its own: an    *)
(* open handle has its file on the PC, and the PC has no other file open.  *)
Busy(c) == Of(c).at # "idle"
FilesOwned ==
    ~mixed /\ pko_fileio_sock > 0 =>
        LET conn == pc[pko_fileio_sock] IN
        conn.up =>
            /\ \A c \in Callers, h \in Handles :
                LET handle == open_fds[c][h] IN
                (handle.on = pko_fileio_sock /\ handle # Closed /\ ~(Busy(c) /\ Of(c).h = h)) =>
                    (handle.renamed <=> [fd |-> handle.fd, by |-> <<c, h>>] \notin conn.files)
            /\ \A f \in conn.files : \/ open_fds[f.by[1]][f.by[2]].fd = f.fd
                                     \/ Busy(f.by[1]) /\ Of(f.by[1]).h = f.by[2]

(* A mkdir is kept from the PC exactly when it is the one of ioman.        *)
MkdirMeant == \A c \in Callers : Of(c).op = "mkdir" /\ Of(c).at = "after" => (Of(c).how = "skipped" <=> Of(c).bug)

(* What is remembered outside of the semaphore serves one caller: a caller *)
(* that renames is the only one that opens and closes, and one that        *)
(* removes is the only one.                                                *)
RenamesAlone ==
    \A c, d \in Callers : c # d /\ "ioctl" \in Ops[c] => Ops[d] \cap (OpenCalls \cup Closes \cup {"ioctl"}) = {}
RemovesAlone == \A c, d \in Callers : c # d /\ "remove" \in Ops[c] => Ops[d] = {}

(* A reply answers the call that takes it, for any callers; the other two  *)
(* hold as long as what is remembered serves one caller.                   *)
HostSafe == OwnReply /\ (RenamesAlone => FilesOwned) /\ (RemovesAlone => MkdirMeant)
=============================================================================
