----------------------------- MODULE EpollPoller -----------------------------
(***************************************************************************)
(* The channels of the connections and the epoll instance that watches     *)
(* them: Channel::update() and remove(), EpollPoller::updateChannel() and  *)
(* removeChannel().  TcpServer.tla says who calls them and when.           *)
(*                                                                         *)
(* Of a channel's events_ only kReadEvent is kept (read, below): nothing   *)
(* in the code calls enableWriting(), so kWriteEvent is never set and      *)
(* isWriting() is never true.                                              *)
(***************************************************************************)

CONSTANT Conns      \* connections; each owns one channel

VARIABLES
    index,          \* index_
    channels,       \* m_channels
    registered,     \* kernel: the fds the epoll instance watches ...
    watched         \* ... and those among them it watches for input

pollerVars == <<index, channels, registered, watched>>

Indices == {"kNew", "kAdded", "kDelete"}

PollerInit ==
    /\ index = [c \in Conns |-> "kNew"]
    /\ channels = {}
    /\ registered = {}
    /\ watched = {}

\* Set c in s if the condition holds, clear it otherwise.
Put(s, c, condition) == IF condition THEN s \cup {c} ELSE s \ {c}

\* update(): epoll_ctl() with the events of the channel.
EpollCtl(op, c, read) ==
    /\ registered' = Put(registered, c, op # "DEL")
    /\ watched' = Put(watched, c, op # "DEL" /\ read)

\* A channel that is not watched keeps its index.
FaultUpdateChannel(c, read) ==
    /\ channels' = channels \cup {c}
    /\ index' = [index EXCEPT ![c] = "kAdded"]
    /\ EpollCtl(IF read THEN "MOD" ELSE "DEL", c, read)

\* updateChannel() of a channel whose events_ are kReadEvent or none: one that
\* epoll does not have is added whatever its events; one it has is deleted or
\* modified.
UpdateChannel(c, read) ==
    IF index[c] \in {"kNew", "kDelete"}
    THEN /\ channels' = IF index[c] = "kNew" THEN channels \cup {c} ELSE channels
         /\ index' = [index EXCEPT ![c] = "kAdded"]
         /\ EpollCtl("ADD", c, read)
    ELSE /\ channels' = channels
         /\ index' = [index EXCEPT ![c] = IF read THEN "kAdded" ELSE "kDelete"]
         /\ EpollCtl(IF read THEN "MOD" ELSE "DEL", c, read)

\* Channel::enableReading() and disableAll().
EnableChannel(c) == UpdateChannel(c, TRUE)
DisableAll(c) == UpdateChannel(c, FALSE)

\* The map forgets the channel, the kernel does not.
FaultRemoveChannel(c) ==
    /\ channels' = channels \ {c}
    /\ index' = [index EXCEPT ![c] = "kNew"]
    /\ UNCHANGED <<registered, watched>>

RemoveChannel(c) ==
    /\ channels' = channels \ {c}
    /\ IF index[c] = "kAdded"
       THEN EpollCtl("DEL", c, FALSE) ELSE UNCHANGED <<registered, watched>>
    /\ index' = [index EXCEPT ![c] = "kNew"]

\* index_ says whether the kernel watches the channel, m_channels has every
\* channel it watches, and a watched channel is watched for input, so that
\* epoll never reports EPOLLHUP without EPOLLIN.
IndexMatchesKernel ==
    /\ registered = {c \in Conns : index[c] = "kAdded"}
    /\ channels = {c \in Conns : index[c] # "kNew"}
    /\ watched = registered
=============================================================================
