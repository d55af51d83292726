----------------------------- MODULE IpcProofs ------------------------------
(***************************************************************************)
(* For any number of clients and goroutines that broadcast, and any size of *)
(* the socket buffers: types, the map of connections, and no answer lost.  *)
(***************************************************************************)
EXTENDS Ipc, TLAPS

(* A connection being handed over has no goroutine yet. *)
HandedOver ==
    /\ listener = "none" => acc = "off"
    /\ \A c \in fresh \cup backlog : pc[c] = "none"
    /\ fresh \cap backlog = {}
    /\ acc \in {"off", "accept"} => fresh = {}
    /\ \A c \in Conns : pc[c] \in {"none", "scan", "snap", "write", "gone"}

(* A client that has not connected has no traffic, and one that has not set *)
(* its callback has asked for nothing.                                      *)
Untouched ==
    \A c \in Conns :
        /\ link[c] = "none" <=> cpc[c] = "off"
        /\ link[c] = "none" => /\ c \notin fresh \cup backlog
                              /\ pc[c] = "none" /\ cmds[c] = 0 /\ evs[c].own = 0
        /\ cpc[c] \in {"off", "connected"} => owed[c] = 0

(* A broadcast writes to a connection of its copy. *)
Current == \A w \in Writers : cur[w] # None => cur[w] \in targets[w]

(* NoLostAnswer needs Registered (the answer's copy of the map holds the    *)
(* client that asked), and that nothing is read before it is asked for.     *)
IInv ==
    /\ TypeOK
    /\ HandedOver
    /\ Untouched
    /\ Current
    /\ Registered
    /\ NoLostAnswer

-----------------------------------------------------------------------------
(* Choosing the next connection keeps the copy and the choice together. *)
LEMMA PickKeeps ==
    ASSUME TypeOK, Current,
           NEW w \in Writers, NEW conns \in SUBSET Conns, Pick(w, conns)
    PROVE  /\ targets' = [targets EXCEPT ![w] = conns]
           /\ cur' \in [Writers -> Conns \cup {None}]
           /\ Current'
<1>1. CASE conns = {}
  BY <1>1 DEF Pick, Current, TypeOK
<1>2. CASE conns # {}
  BY <1>2, IpcAssumption DEF Pick, Current, TypeOK
<1> QED
  BY <1>1, <1>2 DEF Pick

(* Types: a read answer was owed, by NoLostAnswer. *)
LEMMA TypeStep ==
    ASSUME IInv, [Next]_vars
    PROVE  TypeOK'
<1> USE IpcAssumption
        DEF IInv, TypeOK, Writers, server, client, socket, copies
<1>1. ASSUME Start PROVE TypeOK'
  BY <1>1 DEF Start
<1>2. ASSUME CloseDone PROVE TypeOK'
  BY <1>2 DEF CloseDone
<1>3. ASSUME CloseListener PROVE TypeOK'
  BY <1>3 DEF CloseListener
<1>4. ASSUME NEW c \in Conns, Accept(c) PROVE TypeOK'
  BY <1>4 DEF Accept
<1>5. ASSUME Register PROVE TypeOK'
  BY <1>5 DEF Register
<1>6. ASSUME Spawn PROVE TypeOK'
  BY <1>6 DEF Spawn
<1>7. ASSUME AcceptEnds PROVE TypeOK'
  BY <1>7 DEF AcceptEnds
<1>8. ASSUME NEW c \in Conns, Scan(c) PROVE TypeOK'
  BY <1>8 DEF Scan
<1>9. ASSUME NEW c \in Conns, Remove(c) PROVE TypeOK'
  BY <1>9 DEF Remove
<1>10. ASSUME NEW p \in Pushers, Push(p) PROVE TypeOK'
  BY <1>10 DEF Push
<1>11. ASSUME NEW w \in Writers, Snapshot(w) PROVE TypeOK'
  <2>1. /\ targets' = [targets EXCEPT ![w] = clients]
        /\ cur' \in [Writers -> Conns \cup {None}]
        /\ Current'
    BY <1>11, PickKeeps DEF Snapshot, TypeOK
  <2> QED
    BY <1>11, <2>1 DEF Snapshot
<1>12. ASSUME NEW w \in Writers, NEW c \in Conns, Write(w, c) PROVE TypeOK'
  <2>1. /\ targets' = [targets EXCEPT ![w] = targets[w] \ {c}]
        /\ cur' \in [Writers -> Conns \cup {None}]
        /\ Current'
    BY <1>12, PickKeeps DEF Write, TypeOK
  <2> QED
    BY <1>12, <2>1 DEF Write
<1>13. ASSUME NEW w \in Writers, NEW c \in Conns, WriteFails(w, c) PROVE TypeOK'
  <2>1. /\ targets' = [targets EXCEPT ![w] = targets[w] \ {c}]
        /\ cur' \in [Writers -> Conns \cup {None}]
        /\ Current'
    BY <1>13, PickKeeps DEF WriteFails, TypeOK
  <2> QED
    BY <1>13, <2>1 DEF WriteFails
<1>14. ASSUME NEW w \in Writers, Written(w) PROVE TypeOK'
  BY <1>14 DEF Written
<1>15. ASSUME NEW c \in Conns, Connect(c) PROVE TypeOK'
  BY <1>15 DEF Connect
<1>16. ASSUME NEW c \in Conns, OnEvent(c) PROVE TypeOK'
  BY <1>16 DEF OnEvent
<1>17. ASSUME NEW c \in Conns, Send(c) PROVE TypeOK'
  BY <1>17 DEF Send
<1>18. ASSUME NEW c \in Conns, Encode(c) PROVE TypeOK'
  BY <1>18 DEF Encode
<1>19. ASSUME NEW c \in Conns, EncodeFails(c) PROVE TypeOK'
  BY <1>19 DEF EncodeFails
<1>20. ASSUME NEW c \in Conns, Close(c) PROVE TypeOK'
  BY <1>20 DEF Close
<1>21. ASSUME NEW c \in Conns, ReadAnswer(c) PROVE TypeOK'
  <2>1. cpc[c] # "connected" => owed[c] - 1 \in Nat
    BY <1>21 DEF ReadAnswer, Reads, NoLostAnswer
  <2>2. evs[c].own - 1 \in Nat
    BY <1>21 DEF ReadAnswer
  <2> QED
    BY <1>21, <2>1, <2>2 DEF ReadAnswer
<1>22. ASSUME NEW c \in Conns, ReadOther(c) PROVE TypeOK'
  BY <1>22 DEF ReadOther, Reads
<1>23. ASSUME UNCHANGED vars PROVE TypeOK'
  BY <1>23 DEF vars
<1> QED
  BY <1>1, <1>2, <1>3, <1>4, <1>5, <1>6, <1>7, <1>8, <1>9, <1>10, <1>11, <1>12, <1>13, <1>14, <1>15, <1>16, <1>17, <1>18, <1>19, <1>20, <1>21, <1>22, <1>23
  DEF Next, Accepting, Handle, Broadcast, Sending, ReadLoop, User

(* Connections are handed from the listener to their goroutines. *)
LEMMA HandStep ==
    ASSUME IInv, [Next]_vars
    PROVE  HandedOver'
<1> USE IpcAssumption
        DEF IInv, TypeOK, HandedOver, Untouched, Writers, server, client, socket, copies
<1>1. ASSUME Start PROVE HandedOver'
  BY <1>1 DEF Start
<1>2. ASSUME CloseDone PROVE HandedOver'
  BY <1>2 DEF CloseDone
<1>3. ASSUME CloseListener PROVE HandedOver'
  BY <1>3 DEF CloseListener
<1>4. ASSUME NEW c \in Conns, Accept(c) PROVE HandedOver'
  BY <1>4 DEF Accept
<1>5. ASSUME Register PROVE HandedOver'
  BY <1>5 DEF Register
<1>6. ASSUME Spawn PROVE HandedOver'
  BY <1>6 DEF Spawn
<1>7. ASSUME AcceptEnds PROVE HandedOver'
  BY <1>7 DEF AcceptEnds
<1>8. ASSUME NEW c \in Conns, Scan(c) PROVE HandedOver'
  BY <1>8 DEF Scan
<1>9. ASSUME NEW c \in Conns, Remove(c) PROVE HandedOver'
  BY <1>9 DEF Remove
<1>10. ASSUME NEW p \in Pushers, Push(p) PROVE HandedOver'
  BY <1>10 DEF Push
<1>11. ASSUME NEW w \in Writers, Snapshot(w) PROVE HandedOver'
  <2>1. /\ targets' = [targets EXCEPT ![w] = clients]
        /\ cur' \in [Writers -> Conns \cup {None}]
        /\ Current'
    BY <1>11, PickKeeps DEF Snapshot, TypeOK
  <2> QED
    BY <1>11, <2>1 DEF Snapshot
<1>12. ASSUME NEW w \in Writers, NEW c \in Conns, Write(w, c) PROVE HandedOver'
  <2>1. /\ targets' = [targets EXCEPT ![w] = targets[w] \ {c}]
        /\ cur' \in [Writers -> Conns \cup {None}]
        /\ Current'
    BY <1>12, PickKeeps DEF Write, TypeOK
  <2> QED
    BY <1>12, <2>1 DEF Write
<1>13. ASSUME NEW w \in Writers, NEW c \in Conns, WriteFails(w, c) PROVE HandedOver'
  <2>1. /\ targets' = [targets EXCEPT ![w] = targets[w] \ {c}]
        /\ cur' \in [Writers -> Conns \cup {None}]
        /\ Current'
    BY <1>13, PickKeeps DEF WriteFails, TypeOK
  <2> QED
    BY <1>13, <2>1 DEF WriteFails
<1>14. ASSUME NEW w \in Writers, Written(w) PROVE HandedOver'
  BY <1>14 DEF Written
<1>15. ASSUME NEW c \in Conns, Connect(c) PROVE HandedOver'
  BY <1>15 DEF Connect
<1>16. ASSUME NEW c \in Conns, OnEvent(c) PROVE HandedOver'
  BY <1>16 DEF OnEvent
<1>17. ASSUME NEW c \in Conns, Send(c) PROVE HandedOver'
  BY <1>17 DEF Send
<1>18. ASSUME NEW c \in Conns, Encode(c) PROVE HandedOver'
  BY <1>18 DEF Encode
<1>19. ASSUME NEW c \in Conns, EncodeFails(c) PROVE HandedOver'
  BY <1>19 DEF EncodeFails
<1>20. ASSUME NEW c \in Conns, Close(c) PROVE HandedOver'
  BY <1>20 DEF Close
<1>21. ASSUME NEW c \in Conns, ReadAnswer(c) PROVE HandedOver'
  BY <1>21 DEF ReadAnswer, Reads
<1>22. ASSUME NEW c \in Conns, ReadOther(c) PROVE HandedOver'
  BY <1>22 DEF ReadOther, Reads
<1>23. ASSUME UNCHANGED vars PROVE HandedOver'
  BY <1>23 DEF vars
<1> QED
  BY <1>1, <1>2, <1>3, <1>4, <1>5, <1>6, <1>7, <1>8, <1>9, <1>10, <1>11, <1>12, <1>13, <1>14, <1>15, <1>16, <1>17, <1>18, <1>19, <1>20, <1>21, <1>22, <1>23
  DEF Next, Accepting, Handle, Broadcast, Sending, ReadLoop, User

(* Nothing happens on a connection before it is made. *)
LEMMA TouchStep ==
    ASSUME IInv, [Next]_vars
    PROVE  Untouched'
<1> USE IpcAssumption
        DEF IInv, TypeOK, HandedOver, Untouched, Writers, server, client, socket, copies
<1>1. ASSUME Start PROVE Untouched'
  BY <1>1 DEF Start
<1>2. ASSUME CloseDone PROVE Untouched'
  BY <1>2 DEF CloseDone
<1>3. ASSUME CloseListener PROVE Untouched'
  BY <1>3 DEF CloseListener
<1>4. ASSUME NEW c \in Conns, Accept(c) PROVE Untouched'
  BY <1>4 DEF Accept
<1>5. ASSUME Register PROVE Untouched'
  BY <1>5 DEF Register
<1>6. ASSUME Spawn PROVE Untouched'
  BY <1>6 DEF Spawn
<1>7. ASSUME AcceptEnds PROVE Untouched'
  BY <1>7 DEF AcceptEnds
<1>8. ASSUME NEW c \in Conns, Scan(c) PROVE Untouched'
  BY <1>8 DEF Scan
<1>9. ASSUME NEW c \in Conns, Remove(c) PROVE Untouched'
  BY <1>9 DEF Remove
<1>10. ASSUME NEW p \in Pushers, Push(p) PROVE Untouched'
  BY <1>10 DEF Push
<1>11. ASSUME NEW w \in Writers, Snapshot(w) PROVE Untouched'
  <2>1. /\ targets' = [targets EXCEPT ![w] = clients]
        /\ cur' \in [Writers -> Conns \cup {None}]
        /\ Current'
    BY <1>11, PickKeeps DEF Snapshot, TypeOK
  <2> QED
    BY <1>11, <2>1 DEF Snapshot
<1>12. ASSUME NEW w \in Writers, NEW c \in Conns, Write(w, c) PROVE Untouched'
  <2>1. /\ targets' = [targets EXCEPT ![w] = targets[w] \ {c}]
        /\ cur' \in [Writers -> Conns \cup {None}]
        /\ Current'
    BY <1>12, PickKeeps DEF Write, TypeOK
  <2> QED
    BY <1>12, <2>1 DEF Write
<1>13. ASSUME NEW w \in Writers, NEW c \in Conns, WriteFails(w, c) PROVE Untouched'
  <2>1. /\ targets' = [targets EXCEPT ![w] = targets[w] \ {c}]
        /\ cur' \in [Writers -> Conns \cup {None}]
        /\ Current'
    BY <1>13, PickKeeps DEF WriteFails, TypeOK
  <2> QED
    BY <1>13, <2>1 DEF WriteFails
<1>14. ASSUME NEW w \in Writers, Written(w) PROVE Untouched'
  BY <1>14 DEF Written
<1>15. ASSUME NEW c \in Conns, Connect(c) PROVE Untouched'
  BY <1>15 DEF Connect
<1>16. ASSUME NEW c \in Conns, OnEvent(c) PROVE Untouched'
  BY <1>16 DEF OnEvent
<1>17. ASSUME NEW c \in Conns, Send(c) PROVE Untouched'
  BY <1>17 DEF Send
<1>18. ASSUME NEW c \in Conns, Encode(c) PROVE Untouched'
  BY <1>18 DEF Encode
<1>19. ASSUME NEW c \in Conns, EncodeFails(c) PROVE Untouched'
  BY <1>19 DEF EncodeFails
<1>20. ASSUME NEW c \in Conns, Close(c) PROVE Untouched'
  BY <1>20 DEF Close
<1>21. ASSUME NEW c \in Conns, ReadAnswer(c) PROVE Untouched'
  BY <1>21 DEF ReadAnswer, Reads
<1>22. ASSUME NEW c \in Conns, ReadOther(c) PROVE Untouched'
  BY <1>22 DEF ReadOther, Reads
<1>23. ASSUME UNCHANGED vars PROVE Untouched'
  BY <1>23 DEF vars
<1> QED
  BY <1>1, <1>2, <1>3, <1>4, <1>5, <1>6, <1>7, <1>8, <1>9, <1>10, <1>11, <1>12, <1>13, <1>14, <1>15, <1>16, <1>17, <1>18, <1>19, <1>20, <1>21, <1>22, <1>23
  DEF Next, Accepting, Handle, Broadcast, Sending, ReadLoop, User

(* A broadcast keeps to its copy. *)
LEMMA CurStep ==
    ASSUME IInv, [Next]_vars
    PROVE  Current'
<1> USE IpcAssumption
        DEF IInv, TypeOK, Current, Writers, server, client, socket, copies
<1>1. ASSUME Start PROVE Current'
  BY <1>1 DEF Start
<1>2. ASSUME CloseDone PROVE Current'
  BY <1>2 DEF CloseDone
<1>3. ASSUME CloseListener PROVE Current'
  BY <1>3 DEF CloseListener
<1>4. ASSUME NEW c \in Conns, Accept(c) PROVE Current'
  BY <1>4 DEF Accept
<1>5. ASSUME Register PROVE Current'
  BY <1>5 DEF Register
<1>6. ASSUME Spawn PROVE Current'
  BY <1>6 DEF Spawn
<1>7. ASSUME AcceptEnds PROVE Current'
  BY <1>7 DEF AcceptEnds
<1>8. ASSUME NEW c \in Conns, Scan(c) PROVE Current'
  BY <1>8 DEF Scan
<1>9. ASSUME NEW c \in Conns, Remove(c) PROVE Current'
  BY <1>9 DEF Remove
<1>10. ASSUME NEW p \in Pushers, Push(p) PROVE Current'
  BY <1>10 DEF Push
<1>11. ASSUME NEW w \in Writers, Snapshot(w) PROVE Current'
  <2>1. /\ targets' = [targets EXCEPT ![w] = clients]
        /\ cur' \in [Writers -> Conns \cup {None}]
        /\ Current'
    BY <1>11, PickKeeps DEF Snapshot, TypeOK
  <2> QED
    BY <1>11, <2>1 DEF Snapshot
<1>12. ASSUME NEW w \in Writers, NEW c \in Conns, Write(w, c) PROVE Current'
  <2>1. /\ targets' = [targets EXCEPT ![w] = targets[w] \ {c}]
        /\ cur' \in [Writers -> Conns \cup {None}]
        /\ Current'
    BY <1>12, PickKeeps DEF Write, TypeOK
  <2> QED
    BY <1>12, <2>1 DEF Write
<1>13. ASSUME NEW w \in Writers, NEW c \in Conns, WriteFails(w, c) PROVE Current'
  <2>1. /\ targets' = [targets EXCEPT ![w] = targets[w] \ {c}]
        /\ cur' \in [Writers -> Conns \cup {None}]
        /\ Current'
    BY <1>13, PickKeeps DEF WriteFails, TypeOK
  <2> QED
    BY <1>13, <2>1 DEF WriteFails
<1>14. ASSUME NEW w \in Writers, Written(w) PROVE Current'
  BY <1>14 DEF Written
<1>15. ASSUME NEW c \in Conns, Connect(c) PROVE Current'
  BY <1>15 DEF Connect
<1>16. ASSUME NEW c \in Conns, OnEvent(c) PROVE Current'
  BY <1>16 DEF OnEvent
<1>17. ASSUME NEW c \in Conns, Send(c) PROVE Current'
  BY <1>17 DEF Send
<1>18. ASSUME NEW c \in Conns, Encode(c) PROVE Current'
  BY <1>18 DEF Encode
<1>19. ASSUME NEW c \in Conns, EncodeFails(c) PROVE Current'
  BY <1>19 DEF EncodeFails
<1>20. ASSUME NEW c \in Conns, Close(c) PROVE Current'
  BY <1>20 DEF Close
<1>21. ASSUME NEW c \in Conns, ReadAnswer(c) PROVE Current'
  BY <1>21 DEF ReadAnswer, Reads
<1>22. ASSUME NEW c \in Conns, ReadOther(c) PROVE Current'
  BY <1>22 DEF ReadOther, Reads
<1>23. ASSUME UNCHANGED vars PROVE Current'
  BY <1>23 DEF vars
<1> QED
  BY <1>1, <1>2, <1>3, <1>4, <1>5, <1>6, <1>7, <1>8, <1>9, <1>10, <1>11, <1>12, <1>13, <1>14, <1>15, <1>16, <1>17, <1>18, <1>19, <1>20, <1>21, <1>22, <1>23
  DEF Next, Accepting, Handle, Broadcast, Sending, ReadLoop, User

(* The map follows the goroutines. *)
LEMMA RegStep ==
    ASSUME IInv, [Next]_vars
    PROVE  Registered'
<1> USE IpcAssumption
        DEF IInv, TypeOK, HandedOver, Untouched, Registered, Writers, server, client, socket, copies
<1>1. ASSUME Start PROVE Registered'
  BY <1>1 DEF Start
<1>2. ASSUME CloseDone PROVE Registered'
  BY <1>2 DEF CloseDone
<1>3. ASSUME CloseListener PROVE Registered'
  BY <1>3 DEF CloseListener
<1>4. ASSUME NEW c \in Conns, Accept(c) PROVE Registered'
  BY <1>4 DEF Accept
<1>5. ASSUME Register PROVE Registered'
  BY <1>5 DEF Register
<1>6. ASSUME Spawn PROVE Registered'
  BY <1>6 DEF Spawn
<1>7. ASSUME AcceptEnds PROVE Registered'
  BY <1>7 DEF AcceptEnds
<1>8. ASSUME NEW c \in Conns, Scan(c) PROVE Registered'
  BY <1>8 DEF Scan
<1>9. ASSUME NEW c \in Conns, Remove(c) PROVE Registered'
  BY <1>9 DEF Remove
<1>10. ASSUME NEW p \in Pushers, Push(p) PROVE Registered'
  BY <1>10 DEF Push
<1>11. ASSUME NEW w \in Writers, Snapshot(w) PROVE Registered'
  <2>1. /\ targets' = [targets EXCEPT ![w] = clients]
        /\ cur' \in [Writers -> Conns \cup {None}]
        /\ Current'
    BY <1>11, PickKeeps DEF Snapshot, TypeOK
  <2> QED
    BY <1>11, <2>1 DEF Snapshot
<1>12. ASSUME NEW w \in Writers, NEW c \in Conns, Write(w, c) PROVE Registered'
  <2>1. /\ targets' = [targets EXCEPT ![w] = targets[w] \ {c}]
        /\ cur' \in [Writers -> Conns \cup {None}]
        /\ Current'
    BY <1>12, PickKeeps DEF Write, TypeOK
  <2> QED
    BY <1>12, <2>1 DEF Write
<1>13. ASSUME NEW w \in Writers, NEW c \in Conns, WriteFails(w, c) PROVE Registered'
  <2>1. /\ targets' = [targets EXCEPT ![w] = targets[w] \ {c}]
        /\ cur' \in [Writers -> Conns \cup {None}]
        /\ Current'
    BY <1>13, PickKeeps DEF WriteFails, TypeOK
  <2> QED
    BY <1>13, <2>1 DEF WriteFails
<1>14. ASSUME NEW w \in Writers, Written(w) PROVE Registered'
  BY <1>14 DEF Written
<1>15. ASSUME NEW c \in Conns, Connect(c) PROVE Registered'
  BY <1>15 DEF Connect
<1>16. ASSUME NEW c \in Conns, OnEvent(c) PROVE Registered'
  BY <1>16 DEF OnEvent
<1>17. ASSUME NEW c \in Conns, Send(c) PROVE Registered'
  BY <1>17 DEF Send
<1>18. ASSUME NEW c \in Conns, Encode(c) PROVE Registered'
  BY <1>18 DEF Encode
<1>19. ASSUME NEW c \in Conns, EncodeFails(c) PROVE Registered'
  BY <1>19 DEF EncodeFails
<1>20. ASSUME NEW c \in Conns, Close(c) PROVE Registered'
  BY <1>20 DEF Close
<1>21. ASSUME NEW c \in Conns, ReadAnswer(c) PROVE Registered'
  BY <1>21 DEF ReadAnswer, Reads
<1>22. ASSUME NEW c \in Conns, ReadOther(c) PROVE Registered'
  BY <1>22 DEF ReadOther, Reads
<1>23. ASSUME UNCHANGED vars PROVE Registered'
  BY <1>23 DEF vars
<1> QED
  BY <1>1, <1>2, <1>3, <1>4, <1>5, <1>6, <1>7, <1>8, <1>9, <1>10, <1>11, <1>12, <1>13, <1>14, <1>15, <1>16, <1>17, <1>18, <1>19, <1>20, <1>21, <1>22, <1>23
  DEF Next, Accepting, Handle, Broadcast, Sending, ReadLoop, User

(* The answer moves from buffer to buffer. *)
LEMMA AnsStep ==
    ASSUME IInv, [Next]_vars
    PROVE  NoLostAnswer'
<1> USE IpcAssumption
        DEF IInv, TypeOK, HandedOver, Untouched, Current, Registered, NoLostAnswer, Answering, Writers, server, client, socket, copies
<1>1. ASSUME Start PROVE NoLostAnswer'
  BY <1>1 DEF Start
<1>2. ASSUME CloseDone PROVE NoLostAnswer'
  BY <1>2 DEF CloseDone
<1>3. ASSUME CloseListener PROVE NoLostAnswer'
  BY <1>3 DEF CloseListener
<1>4. ASSUME NEW c \in Conns, Accept(c) PROVE NoLostAnswer'
  BY <1>4 DEF Accept
<1>5. ASSUME Register PROVE NoLostAnswer'
  BY <1>5 DEF Register
<1>6. ASSUME Spawn PROVE NoLostAnswer'
  BY <1>6 DEF Spawn
<1>7. ASSUME AcceptEnds PROVE NoLostAnswer'
  BY <1>7 DEF AcceptEnds
<1>8. ASSUME NEW c \in Conns, Scan(c) PROVE NoLostAnswer'
  BY <1>8 DEF Scan
<1>9. ASSUME NEW c \in Conns, Remove(c) PROVE NoLostAnswer'
  BY <1>9 DEF Remove
<1>10. ASSUME NEW p \in Pushers, Push(p) PROVE NoLostAnswer'
  BY <1>10 DEF Push
<1>11. ASSUME NEW w \in Writers, Snapshot(w) PROVE NoLostAnswer'
  <2>1. /\ targets' = [targets EXCEPT ![w] = clients]
        /\ cur' \in [Writers -> Conns \cup {None}]
        /\ Current'
    BY <1>11, PickKeeps DEF Snapshot, TypeOK
  <2> QED
    BY <1>11, <2>1 DEF Snapshot
<1>12. ASSUME NEW w \in Writers, NEW c \in Conns, Write(w, c) PROVE NoLostAnswer'
  <2>1. /\ targets' = [targets EXCEPT ![w] = targets[w] \ {c}]
        /\ cur' \in [Writers -> Conns \cup {None}]
        /\ Current'
    BY <1>12, PickKeeps DEF Write, TypeOK
  <2>2. c \in targets[w] /\ pc[w] = "write" /\ link[c] = "open"
    BY <1>12 DEF Write
  <2>3. ASSUME NEW d \in Conns, d # c PROVE evs'[d] = evs[d]
    BY <1>12, <2>3 DEF Write
  <2>4. evs'[c].own = IF w = c THEN evs[c].own + 1 ELSE evs[c].own
    BY <1>12 DEF Write
  <2>5. UNCHANGED <<owed, cmds, link, pc>>
    BY <1>12 DEF Write
  <2>6. ASSUME NEW d \in Conns, d # c PROVE Answering(d)' <=> Answering(d)
    BY <2>1, <2>5, <2>6
  <2>7. w # c => (Answering(c)' <=> Answering(c))
    BY <2>1, <2>5
  <2>8. w = c => Answering(c) /\ ~Answering(c)'
    BY <2>1, <2>2, <2>5
  <2>9. ASSUME NEW d \in Conns, d # c, link[d] = "open"
        PROVE  owed'[d] = cmds'[d] + (IF Answering(d)' THEN 1 ELSE 0) + evs'[d].own
    BY <2>3, <2>5, <2>6, <2>9
  <2>10. owed'[c] = cmds'[c] + (IF Answering(c)' THEN 1 ELSE 0) + evs'[c].own
    BY <2>2, <2>4, <2>5, <2>7, <2>8
  <2> QED
    BY <2>5, <2>9, <2>10
<1>13. ASSUME NEW w \in Writers, NEW c \in Conns, WriteFails(w, c) PROVE NoLostAnswer'
  <2>1. /\ targets' = [targets EXCEPT ![w] = targets[w] \ {c}]
        /\ cur' \in [Writers -> Conns \cup {None}]
        /\ Current'
    BY <1>13, PickKeeps DEF WriteFails, TypeOK
  <2> QED
    BY <1>13, <2>1 DEF WriteFails
<1>14. ASSUME NEW w \in Writers, Written(w) PROVE NoLostAnswer'
  BY <1>14 DEF Written
<1>15. ASSUME NEW c \in Conns, Connect(c) PROVE NoLostAnswer'
  BY <1>15 DEF Connect
<1>16. ASSUME NEW c \in Conns, OnEvent(c) PROVE NoLostAnswer'
  BY <1>16 DEF OnEvent
<1>17. ASSUME NEW c \in Conns, Send(c) PROVE NoLostAnswer'
  BY <1>17 DEF Send
<1>18. ASSUME NEW c \in Conns, Encode(c) PROVE NoLostAnswer'
  BY <1>18 DEF Encode
<1>19. ASSUME NEW c \in Conns, EncodeFails(c) PROVE NoLostAnswer'
  BY <1>19 DEF EncodeFails
<1>20. ASSUME NEW c \in Conns, Close(c) PROVE NoLostAnswer'
  BY <1>20 DEF Close
<1>21. ASSUME NEW c \in Conns, ReadAnswer(c) PROVE NoLostAnswer'
  BY <1>21 DEF ReadAnswer, Reads
<1>22. ASSUME NEW c \in Conns, ReadOther(c) PROVE NoLostAnswer'
  BY <1>22 DEF ReadOther, Reads
<1>23. ASSUME UNCHANGED vars PROVE NoLostAnswer'
  BY <1>23 DEF vars
<1> QED
  BY <1>1, <1>2, <1>3, <1>4, <1>5, <1>6, <1>7, <1>8, <1>9, <1>10, <1>11, <1>12, <1>13, <1>14, <1>15, <1>16, <1>17, <1>18, <1>19, <1>20, <1>21, <1>22, <1>23
  DEF Next, Accepting, Handle, Broadcast, Sending, ReadLoop, User

LEMMA Step ==
    ASSUME IInv, [Next]_vars
    PROVE  IInv'
  BY TypeStep, HandStep, TouchStep, CurStep, RegStep, AnsStep DEF IInv

LEMMA Inductive == Spec => []IInv
<1>1. ASSUME Init PROVE IInv
  <2>1. TypeOK
    BY <1>1, IpcAssumption DEF Init, TypeOK, Writers
  <2>2. HandedOver /\ Current /\ Registered
    BY <1>1, IpcAssumption DEF Init, HandedOver, Current, Registered, Writers
  <2>3. Untouched
    BY <1>1, IpcAssumption DEF Init, Untouched, Writers
  <2>4. NoLostAnswer
    BY <1>1 DEF Init, NoLostAnswer
  <2> QED
    BY <2>1, <2>2, <2>3, <2>4 DEF IInv
<1> QED
  BY <1>1, Step, PTL DEF Spec

-----------------------------------------------------------------------------
(* The variables keep their types; no counter goes below zero. *)
THEOREM TypeCorrect == Spec => []TypeOK
<1>1. IInv => TypeOK
  BY DEF IInv
<1> QED
  BY <1>1, Inductive, PTL

(* The map of connections holds exactly those that have a goroutine, or are *)
(* about to get one.                                                        *)
THEOREM MapExact == Spec => []Registered
<1>1. IInv => Registered
  BY DEF IInv
<1> QED
  BY <1>1, Inductive, PTL

(* For any number of clients, broadcasting goroutines and buffer sizes, the *)
(* answer to a command is never lost on an open connection.                 *)
THEOREM AnswersKept == Spec => []NoLostAnswer
<1>1. IInv => NoLostAnswer
  BY DEF IInv
<1> QED
  BY <1>1, Inductive, PTL
=============================================================================
