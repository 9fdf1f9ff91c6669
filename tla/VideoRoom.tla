-------------------------------- MODULE VideoRoom --------------------------------
(***************************************************************************)
(* A room whose viewers watch one video together: the WebSocket handler of *)
(* video_rooms/api.py, the sockets of video_rooms/ws.py and the state in   *)
(* the room's row (video_rooms/service.py).  A state (position and paused  *)
(* or not) is the number of the change that made it; 0 is the first.       *)
(***************************************************************************)
EXTENDS Naturals

CONSTANTS Watchers,
          MaxStates, \* bound on changes
          Silent     \* no change in the mail

VARIABLES room,    \* the state in the row
          sockets, \* VideoRoomWebSocketManager.rooms[token]
          desk,    \* the handler of each viewer's socket
          shown,   \* what each viewer's player shows
          mail,    \* what each viewer sent and its handler has not received
          states,
          apart,   \* history: viewers that may be out of step for a known reason,
          mixed    \* and whether changes under way have overlapped

vrvars == <<room, sockets, desk, shown, mail, states, apart, mixed>>

Goes(c, r) == desk' = [desk EXCEPT ![c] = r]
Is(c, at) == desk[c].at = at
Outside == [at |-> "out"]
Entering == {c \in Watchers : desk[c].at \in {"accept", "greet"}}
Changing == {c \in Watchers : mail[c] # Silent \/ desk[c].at \in {"save", "saved", "cast"}}

-----------------------------------------------------------------------------
\* The handler reads the room's row, once ...
Connect(c) ==
    /\ Is(c, "out")
    /\ Goes(c, [at |-> "accept", row |-> room])
    /\ apart' = IF Changing = {} THEN apart \ {c} ELSE apart
    /\ UNCHANGED <<room, sockets, shown, mail, states>>

\* ... accepts the socket, and registers it in the same step ...
Accept(c) ==
    /\ Is(c, "accept")
    /\ sockets' = sockets \cup {c}
    /\ Goes(c, [desk[c] EXCEPT !.at = "greet"])
    /\ UNCHANGED <<room, shown, mail, states, apart>>

\* ... and sends the state of that row.
Greet(c) ==
    /\ Is(c, "greet")
    /\ shown' = [shown EXCEPT ![c] = desk[c].row]
    /\ Goes(c, [at |-> "loop"])
    /\ UNCHANGED <<room, sockets, mail, states, apart>>

\* A viewer plays, pauses or seeks.  History: while another's change is under way, the
\* two may end in different orders for different viewers.
Change(c) ==
    /\ desk[c].at \in {"loop", "save", "saved", "cast"} /\ mail[c] = Silent /\ states < MaxStates
    /\ states' = states + 1
    /\ shown' = [shown EXCEPT ![c] = states'] /\ mail' = [mail EXCEPT ![c] = states']
    /\ apart' = IF Changing \subseteq {c} THEN apart ELSE Watchers
    /\ UNCHANGED <<room, sockets, desk>>

Receive(c) ==
    /\ Is(c, "loop") /\ mail[c] # Silent
    /\ Goes(c, [at |-> "save", k |-> mail[c]])
    /\ mail' = [mail EXCEPT ![c] = Silent]
    /\ UNCHANGED <<room, sockets, shown, states, apart>>

\* update_state saves the handler's own copy of the row.  History: one change alone puts
\* everybody in step, but those who read the row before.
UpdateState(c) ==
    /\ Is(c, "save")
    /\ room' = desk[c].k
    /\ Goes(c, [desk[c] EXCEPT !.at = "saved"])
    /\ apart' = (IF mixed THEN apart ELSE {}) \cup Entering
    /\ UNCHANGED <<sockets, shown, mail, states>>

\* broadcast: the sockets there are now, in some order ...
Broadcast(c) ==
    /\ Is(c, "saved")
    /\ Goes(c, [at |-> "cast", k |-> desk[c].k, rest |-> sockets \ {c}])
    /\ UNCHANGED <<room, sockets, shown, mail, states, apart>>

\* Mutant: a socket that fails takes the room's others with it.
SendClears(c, d) ==
    /\ Is(c, "cast") /\ d \in desk[c].rest
    /\ IF Is(d, "out") \/ Is(d, "closed")
       THEN sockets' = {} /\ UNCHANGED shown
       ELSE shown' = [shown EXCEPT ![d] = desk[c].k] /\ UNCHANGED sockets
    /\ Goes(c, [desk[c] EXCEPT !.rest = @ \ {d}])
    /\ UNCHANGED <<room, mail, states, apart>>

\* ... one after the other; one that fails is dropped.
Send(c, d) ==
    /\ Is(c, "cast") /\ d \in desk[c].rest
    /\ IF Is(d, "out") \/ Is(d, "closed")
       THEN sockets' = sockets \ {d} /\ UNCHANGED shown
       ELSE shown' = [shown EXCEPT ![d] = desk[c].k] /\ UNCHANGED sockets
    /\ Goes(c, [desk[c] EXCEPT !.rest = @ \ {d}])
    /\ UNCHANGED <<room, mail, states, apart>>

Sent(c) ==
    /\ Is(c, "cast") /\ desk[c].rest = {}
    /\ Goes(c, [at |-> "loop"])
    /\ UNCHANGED <<room, sockets, shown, mail, states, apart>>

\* A viewer's connection closes; its handler hears of it when it next receives, or ends
\* with an error: a message that is no state, a save that fails.
Leave(c) ==
    /\ Is(c, "loop") \/ Is(c, "greet")
    /\ Goes(c, [at |-> "closed"])
    /\ mail' = [mail EXCEPT ![c] = Silent]
    /\ UNCHANGED <<room, sockets, shown, states, apart>>

SaveFails(c) ==
    /\ Is(c, "save")
    /\ Goes(c, [at |-> "closed"])
    /\ mail' = [mail EXCEPT ![c] = Silent]
    /\ UNCHANGED <<room, sockets, shown, states, apart>>

Disconnect(c) ==
    /\ Is(c, "closed")
    /\ sockets' = sockets \ {c}
    /\ Goes(c, Outside)
    /\ UNCHANGED <<room, shown, mail, states, apart>>

Init ==
    /\ room = 0 /\ sockets = {} /\ desk = [c \in Watchers |-> Outside]
    /\ shown = [c \in Watchers |-> 0] /\ mail = [c \in Watchers |-> Silent]
    /\ states = 0 /\ apart = {} /\ mixed = FALSE

Step ==
    \/ \E c \in Watchers :
        \/ Connect(c) \/ Accept(c) \/ Greet(c) \/ Change(c) \/ Receive(c) \/ UpdateState(c) \/ Broadcast(c)
        \/ Sent(c) \/ Leave(c) \/ SaveFails(c) \/ Disconnect(c)
    \/ \E c, d \in Watchers : Send(c, d)

Next == Step /\ mixed' = (Changing' # {} /\ (mixed \/ \E c, d \in Changing' : c # d))

VrSpec == Init /\ [][Next]_vrvars

-----------------------------------------------------------------------------
TypeOK ==
    /\ room \in 0 .. MaxStates /\ sockets \subseteq Watchers /\ states \in 0 .. MaxStates
    /\ \A c \in Watchers :
        /\ desk[c].at \in {"out", "accept", "greet", "loop", "save", "saved", "cast", "closed"}
        /\ shown[c] \in 0 .. MaxStates /\ mail[c] \in 1 .. MaxStates \cup {Silent}
    /\ apart \subseteq Watchers /\ mixed \in BOOLEAN

\* When nothing is under way everybody who watches sees the state of the room's row, but
\* where the code lets them fall out of step until the next change: two changes overlapped
\* between the first's sending and the last of its broadcasts, or the viewer's handler had
\* read the row before the change was saved and sent it after the broadcast (or registered
\* too late for it).
InStep ==
    Changing = {} => \A c \in Watchers : Is(c, "loop") => shown[c] = room \/ c \in apart
=================================================================================
