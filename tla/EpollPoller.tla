---------------------------- MODULE EpollPoller ----------------------------
(***************************************************************************)
(* The epoll wrapper (src/src/EpollPoller.cc) and the event mask of a      *)
(* Channel (src/include/Channel.h), as operators on a poller record:       *)
(*   channels  channels_: for each descriptor, the Channel listed under it *)
(*   index     Channel::index_ of each channel                             *)
(*   events    Channel::events_ of each channel                            *)
(*   epoll     the kernel's interest list: for each descriptor, the channel*)
(*             whose address was registered with it                        *)
(*   failed    the place of the first failed assert() or fatal epoll_ctl() *)
(* Every change of a mask is followed by updateChannel(), so the kernel's  *)
(* mask of a registered channel is its current events_.                    *)
(***************************************************************************)
CONSTANTS
    Chans,              \* the Channel objects
    Fds,                \* file descriptors
    NoChan              \* no channel

ASSUME PollerAssumption == NoChan \notin Chans

Events == {"IN", "OUT"}
Indexes == {"kNew", "kAdded", "kDeleted"}
Failures == {"none", "updateChannel", "removeChannel", "epoll_ctl"}

EmptyPoller ==
    [channels |-> [f \in Fds |-> NoChan],
     index    |-> [c \in Chans |-> "kNew"],
     events   |-> [c \in Chans |-> {}],
     epoll    |-> [f \in Fds |-> NoChan],
     failed   |-> "none"]

PollerType ==
    [channels : [Fds -> Chans \cup {NoChan}], index : [Chans -> Indexes],
     events : [Chans -> SUBSET Events], epoll : [Fds -> Chans \cup {NoChan}],
     failed : Failures]

Fail(p, where) == [p EXCEPT !.failed = where]

\* update(): epoll_ctl().  ADD of a registered descriptor and MOD of an
\* unregistered one fail, which is fatal; a failed DEL is only logged.
CtlAdd(p, c, fd) ==
    IF p.epoll[fd] # NoChan THEN Fail(p, "epoll_ctl") ELSE [p EXCEPT !.epoll[fd] = c]
CtlMod(p, c, fd) ==
    IF p.epoll[fd] = NoChan THEN Fail(p, "epoll_ctl") ELSE [p EXCEPT !.epoll[fd] = c]
CtlDel(p, fd) == [p EXCEPT !.epoll[fd] = NoChan]

\* updateChannel(): a channel that is not in epoll is added, whatever its mask;
\* one that is there is deleted when its mask is empty, modified otherwise.
UpdateChannel(p, c, fd) ==
    LET listed == IF p.index[c] = "kNew" THEN NoChan ELSE c IN
    IF p.channels[fd] # listed THEN Fail(p, "updateChannel")
    ELSE IF p.index[c] # "kAdded"
         THEN CtlAdd([p EXCEPT !.channels[fd] = c, !.index[c] = "kAdded"], c, fd)
    ELSE IF p.events[c] = {}
         THEN CtlDel([p EXCEPT !.index[c] = "kDeleted"], fd)
    ELSE CtlMod(p, c, fd)

\* Mutant: channels_ keeps the entry of a removed channel.
RemoveChannelKeepsEntry(p, c, fd) ==
    IF p.channels[fd] # c \/ p.events[c] # {} THEN Fail(p, "removeChannel")
    ELSE LET q == [p EXCEPT !.index[c] = "kNew"] IN
         IF p.index[c] = "kAdded" THEN CtlDel(q, fd) ELSE q

\* removeChannel(): only a listed channel with an empty mask may be removed.
RemoveChannel(p, c, fd) ==
    IF p.channels[fd] # c \/ p.events[c] # {} THEN Fail(p, "removeChannel")
    ELSE LET q == [p EXCEPT !.channels[fd] = NoChan, !.index[c] = "kNew"] IN
         IF p.index[c] = "kAdded" THEN CtlDel(q, fd) ELSE q

\* Channel::enableReading() and its siblings: change the mask, then update().
Enable(p, c, fd, e) == UpdateChannel([p EXCEPT !.events[c] = @ \cup {e}], c, fd)
Disable(p, c, fd, e) == UpdateChannel([p EXCEPT !.events[c] = @ \ {e}], c, fd)
DisableAll(p, c, fd) == UpdateChannel([p EXCEPT !.events[c] = {}], c, fd)

\* Closing a descriptor drops it from the kernel's interest list.
CloseFd(p, fd) == CtlDel(p, fd)
=============================================================================
