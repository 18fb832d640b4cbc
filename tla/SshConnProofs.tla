--------------------------- MODULE SshConnProofs ---------------------------
(***************************************************************************)
(* For any number of operations: no connection and no SFTP client of an    *)
(* SSH backend is lost track of, and what the backend caches works.        *)
(***************************************************************************)
EXTENDS SshConn, TLAPS

Before == {"idle", "dial", "dialed", "conn"}

\* A call negotiates while it is at it, and its goroutine may go on after it
\* has returned; it returns once.
CallsInOrder ==
  \A c \in Caller :
    /\ neg[c] # "none" => pc[c] \in {"negotiate", "returned"}
    /\ pc[c] = "negotiate" => neg[c] # "none"
    /\ pc[c] # "returned" => ret[c] = "none"
    /\ ret[c] = "closed" => sc[c] # Nil

\* A connection is its dialer's own until it is kept.
DialsApart ==
  \A c \in Caller :
    /\ pc[c] \in {"idle", "dial", "dialed"} =>
         client # c /\ \A d \in Caller : over[d] # c /\ (d # c => mine[d] # c)
    /\ pc[c] = "dialed" => mine[c] = c /\ (c \in conns \/ Ended(c))

\* An SFTP client is its negotiator's own until it is installed.
ClientsApart ==
  \A c \in Caller :
    /\ pc[c] \in Before \/ neg[c] # "none" => sftp # c /\ \A d \in Caller : sc[d] # c
    /\ pc[c] \in Before \/ neg[c] = "busy" => over[c] = Nil /\ c \notin sessions
    /\ neg[c] = "ready" /\ over[c] # Nil => c \in sessions
    /\ c = sftp => over[c] # Nil
    /\ sc[c] # Nil => over[sc[c]] # Nil

\* Until the backend is closed there is one connection, and everyone has it.
OneConnection ==
  \A c \in Caller :
    /\ pc[c] \in {"conn", "negotiate", "use"} \/ neg[c] # "none" =>
         mine[c] # Nil /\ ("closed" \notin ended => mine[c] = client)
    /\ over[c] # Nil /\ "closed" \notin ended => over[c] = client

\* A watcher starts for a cancelled operation, and forgets the SFTP client
\* before it closes it.
WatchersForCause ==
  \A c \in Caller :
    /\ pc[c] \notin {"use", "returned"} => watch[c] = "off" /\ sc[c] = Nil
    /\ watch[c] # "off" => sc[c] # Nil
    /\ watch[c] \in {"begun", "cleared", "fired"} => cancelled /\ c \in Op
    /\ watch[c] \in {"cleared", "fired"} => sftp # sc[c]
    /\ ~cancelled => cutter[c] = "off"

\* What was closed was closed for a reason.
ClosedForCause ==
  \A c \in Caller :
    /\ over[c] # Nil => over[c] \in conns \/ Ended(over[c])
    /\ sc[c] # Nil => \/ sc[c] \in sessions \/ ended # {}
                      \/ \E o \in Op : sc[o] = sc[c] /\ watch[o] = "fired"

Inv ==
  /\ TypeOK
  /\ CallsInOrder
  /\ DialsApart
  /\ ClientsApart
  /\ OneConnection
  /\ WatchersForCause
  /\ ClosedForCause
  /\ NothingLeaks
  /\ CacheServes

\* Initially nothing is open and nobody has called (Init).
LEMMA InitInv == Init => Inv
<1> SUFFICES ASSUME Init PROVE Inv
  BY Zenon
<1> USE NamesAreDistinct DEF Init, Caller
<1>1. TypeOK
  BY Zenon DEF TypeOK
<1>2. CallsInOrder /\ WatchersForCause
  BY Zenon DEF CallsInOrder, WatchersForCause
<1>3. DialsApart /\ ClientsApart
  BY Zenon DEF DialsApart, ClientsApart, Before
<1>4. OneConnection /\ ClosedForCause
  BY Zenon DEF OneConnection, ClosedForCause
<1>5. NothingLeaks /\ CacheServes
  BY Zenon DEF NothingLeaks, Working, CacheServes, CacheWorks, FailsForCause
<1> QED
  BY <1>1, <1>2, <1>3, <1>4, <1>5, Zenon DEF Inv

\* Every step of a call, of its goroutines, of the network and of the backend
\* keeps the invariant.
LEMMA NextInv == Inv /\ [Next]_vars => Inv'
<1> SUFFICES ASSUME Inv, [Next]_vars PROVE Inv'
  BY Zenon
<1> USE NamesAreDistinct DEF Inv, CacheServes, TypeOK, Caller, Before, Ended,
  Working, Done, Goto, Return, node, cache
<1>1. ASSUME Cancel PROVE Inv'
  <2> USE <1>1 DEF Cancel
  <2>1. TypeOK'
    BY Zenon
  <2>2. CallsInOrder'
    BY Zenon DEF CallsInOrder
  <2>3. DialsApart'
    BY DEF DialsApart
  <2>4. ClientsApart'
    BY Zenon DEF ClientsApart
  <2>5. OneConnection'
    BY Zenon DEF OneConnection
  <2>6. WatchersForCause'
    BY Zenon DEF WatchersForCause
  <2>7. ClosedForCause'
    BY DEF ClosedForCause, WatchersForCause
  <2>8. NothingLeaks'
    BY DEF NothingLeaks
  <2>9. CacheWorks'
    BY Zenon DEF CacheWorks, WatchersForCause
  <2>10. FailsForCause'
    BY DEF FailsForCause, CallsInOrder, ClientsApart, WatchersForCause
  <2> QED
    BY <2>1, <2>2, <2>3, <2>4, <2>5, <2>6, <2>7, <2>8, <2>9, <2>10, Zenon
<1>2. ASSUME Drop PROVE Inv'
  <2> USE <1>2 DEF Drop
  <2>1. TypeOK'
    BY Zenon
  <2>2. CallsInOrder'
    BY Zenon DEF CallsInOrder
  <2>3. DialsApart'
    BY DEF DialsApart
  <2>4. ClientsApart'
    BY Zenon DEF ClientsApart
  <2>5. OneConnection'
    BY Zenon DEF OneConnection
  <2>6. WatchersForCause'
    BY Zenon DEF WatchersForCause
  <2>7. ClosedForCause'
    BY Zenon DEF ClosedForCause
  <2>8. NothingLeaks'
    BY DEF NothingLeaks
  <2>9. CacheWorks'
    BY Zenon DEF CacheWorks
  <2>10. FailsForCause'
    BY Zenon DEF FailsForCause
  <2> QED
    BY <2>1, <2>2, <2>3, <2>4, <2>5, <2>6, <2>7, <2>8, <2>9, <2>10, Zenon
<1>3. ASSUME Close PROVE Inv'
  <2> USE <1>3 DEF Close
  <2>1. TypeOK'
    BY Zenon
  <2>2. CallsInOrder'
    BY Zenon DEF CallsInOrder
  <2>3. DialsApart'
    BY DEF DialsApart
  <2>4. ClientsApart'
    BY DEF ClientsApart
  <2>5. OneConnection'
    BY Zenon DEF OneConnection
  <2>6. WatchersForCause'
    BY Zenon DEF WatchersForCause
  <2>7. ClosedForCause'
    BY Zenon DEF ClosedForCause
  <2>8. NothingLeaks'
    BY DEF NothingLeaks
  <2>9. CacheWorks'
    BY Zenon DEF CacheWorks
  <2>10. FailsForCause'
    BY Zenon DEF FailsForCause
  <2> QED
    BY <2>1, <2>2, <2>3, <2>4, <2>5, <2>6, <2>7, <2>8, <2>9, <2>10, Zenon
<1>4. ASSUME NEW c \in Caller, Conn(c) PROVE Inv'
  <2> USE <1>4 DEF Conn, MayStart
  <2>1. TypeOK'
    OBVIOUS
  <2>2. CallsInOrder'
    BY DEF CallsInOrder
  <2>3. DialsApart'
    BY DEF DialsApart
  <2>4. ClientsApart'
    BY DEF ClientsApart
  <2>5. OneConnection'
    BY DEF OneConnection
  <2>6. WatchersForCause'
    BY DEF WatchersForCause
  <2>7. ClosedForCause'
    BY Zenon DEF ClosedForCause
  <2>8. NothingLeaks'
    BY DEF NothingLeaks
  <2>9. CacheWorks'
    BY Zenon DEF CacheWorks
  <2>10. FailsForCause'
    BY Zenon DEF FailsForCause
  <2> QED
    BY <2>1, <2>2, <2>3, <2>4, <2>5, <2>6, <2>7, <2>8, <2>9, <2>10, Zenon
<1>5. ASSUME NEW c \in Caller, DialFails(c) PROVE Inv'
  <2> USE <1>5 DEF DialFails
  <2>1. TypeOK'
    BY Zenon
  <2>2. CallsInOrder'
    BY Zenon DEF CallsInOrder
  <2>3. DialsApart'
    BY DEF DialsApart
  <2>4. ClientsApart'
    BY Zenon DEF ClientsApart
  <2>5. OneConnection'
    BY Zenon DEF OneConnection
  <2>6. WatchersForCause'
    BY Zenon DEF WatchersForCause
  <2>7. ClosedForCause'
    BY Zenon DEF ClosedForCause
  <2>8. NothingLeaks'
    BY DEF NothingLeaks
  <2>9. CacheWorks'
    BY Zenon DEF CacheWorks
  <2>10. FailsForCause'
    BY Zenon DEF FailsForCause
  <2> QED
    BY <2>1, <2>2, <2>3, <2>4, <2>5, <2>6, <2>7, <2>8, <2>9, <2>10, Zenon
<1>6. ASSUME NEW c \in Caller, Cut(c) PROVE Inv'
  <2> USE <1>6 DEF Cut
  <2>1. TypeOK'
    BY Zenon
  <2>2. CallsInOrder'
    BY Zenon DEF CallsInOrder
  <2>3. DialsApart'
    BY DEF DialsApart
  <2>4. ClientsApart'
    BY Zenon DEF ClientsApart
  <2>5. OneConnection'
    BY Zenon DEF OneConnection
  <2>6. WatchersForCause'
    BY Zenon DEF WatchersForCause
  <2>7. ClosedForCause'
    BY DEF ClosedForCause
  <2>8. NothingLeaks'
    BY DEF NothingLeaks
  <2>9. CacheWorks'
    BY Zenon DEF CacheWorks
  <2>10. FailsForCause'
    BY DEF FailsForCause
  <2> QED
    BY <2>1, <2>2, <2>3, <2>4, <2>5, <2>6, <2>7, <2>8, <2>9, <2>10, Zenon
<1>7. ASSUME NEW c \in Caller, Keep(c) PROVE Inv'
  <2> USE <1>7 DEF Keep
  <2>1. TypeOK'
    OBVIOUS
  <2>2. CallsInOrder'
    BY Zenon DEF CallsInOrder
  <2>3. DialsApart'
    BY DEF DialsApart
  <2>4. ClientsApart'
    BY Zenon DEF ClientsApart
  <2>5. OneConnection'
    BY DEF OneConnection, DialsApart
  <2>6. WatchersForCause'
    BY Zenon DEF WatchersForCause
  <2>7. ClosedForCause'
    BY DEF ClosedForCause, DialsApart
  <2>8. NothingLeaks'
    BY DEF NothingLeaks
  <2>9. CacheWorks'
    BY DEF CacheWorks, DialsApart, ClientsApart
  <2>10. FailsForCause'
    BY Zenon DEF FailsForCause
  <2> QED
    BY <2>1, <2>2, <2>3, <2>4, <2>5, <2>6, <2>7, <2>8, <2>9, <2>10, Zenon
<1>8. ASSUME NEW c \in Caller, Cached(c) PROVE Inv'
  <2> USE <1>8 DEF Cached, Use
  <2>1. TypeOK'
    BY Zenon DEF ClientsApart
  <2>2. CallsInOrder'
    BY Zenon DEF CallsInOrder
  <2>3. DialsApart'
    BY DEF DialsApart
  <2>4. ClientsApart'
    BY Zenon DEF ClientsApart
  <2>5. OneConnection'
    BY Zenon DEF OneConnection
  <2>6. WatchersForCause'
    BY DEF WatchersForCause
  <2>7. ClosedForCause'
    BY Zenon DEF ClosedForCause, WatchersForCause, CacheWorks
  <2>8. NothingLeaks'
    BY DEF NothingLeaks, WatchersForCause
  <2>9. CacheWorks'
    BY Zenon DEF CacheWorks
  <2>10. FailsForCause'
    BY DEF FailsForCause, CallsInOrder, WatchersForCause
  <2> QED
    BY <2>1, <2>2, <2>3, <2>4, <2>5, <2>6, <2>7, <2>8, <2>9, <2>10, Zenon
<1>9. ASSUME NEW c \in Caller, Negotiate(c) PROVE Inv'
  <2> USE <1>9 DEF Negotiate
  <2>1. TypeOK'
    BY Zenon
  <2>2. CallsInOrder'
    BY Zenon DEF CallsInOrder
  <2>3. DialsApart'
    BY DEF DialsApart
  <2>4. ClientsApart'
    BY Zenon DEF ClientsApart
  <2>5. OneConnection'
    BY Zenon DEF OneConnection
  <2>6. WatchersForCause'
    BY Zenon DEF WatchersForCause
  <2>7. ClosedForCause'
    BY Zenon DEF ClosedForCause
  <2>8. NothingLeaks'
    BY DEF NothingLeaks, ClientsApart
  <2>9. CacheWorks'
    BY Zenon DEF CacheWorks
  <2>10. FailsForCause'
    BY Zenon DEF FailsForCause
  <2> QED
    BY <2>1, <2>2, <2>3, <2>4, <2>5, <2>6, <2>7, <2>8, <2>9, <2>10, Zenon
<1>10. ASSUME NEW c \in Caller, Refused(c) PROVE Inv'
  <2> USE <1>10 DEF Refused
  <2>1. TypeOK'
    BY Zenon
  <2>2. CallsInOrder'
    BY Zenon DEF CallsInOrder
  <2>3. DialsApart'
    BY DEF DialsApart
  <2>4. ClientsApart'
    BY DEF ClientsApart
  <2>5. OneConnection'
    BY Zenon DEF OneConnection
  <2>6. WatchersForCause'
    BY Zenon DEF WatchersForCause
  <2>7. ClosedForCause'
    BY DEF ClosedForCause
  <2>8. NothingLeaks'
    BY DEF NothingLeaks
  <2>9. CacheWorks'
    BY Zenon DEF CacheWorks
  <2>10. FailsForCause'
    BY Zenon DEF FailsForCause
  <2> QED
    BY <2>1, <2>2, <2>3, <2>4, <2>5, <2>6, <2>7, <2>8, <2>9, <2>10, Zenon
<1>11. ASSUME NEW c \in Caller, Install(c) PROVE Inv'
  <2> USE <1>11 DEF Install, Use
  <2>1. TypeOK'
    BY DEF ClientsApart
  <2>2. CallsInOrder'
    BY DEF CallsInOrder
  <2>3. DialsApart'
    BY DEF DialsApart
  <2>4. ClientsApart'
    BY DEF ClientsApart
  <2>5. OneConnection'
    BY Zenon DEF OneConnection
  <2>6. WatchersForCause'
    BY DEF WatchersForCause, ClientsApart
  <2>7. ClosedForCause'
    BY DEF ClosedForCause, ClientsApart, WatchersForCause, CacheWorks
  <2>8. NothingLeaks'
    BY DEF NothingLeaks, WatchersForCause
  <2>9. CacheWorks'
    BY DEF CacheWorks, ClientsApart, OneConnection
  <2>10. FailsForCause'
    BY DEF FailsForCause, CallsInOrder, WatchersForCause
  <2> QED
    BY <2>1, <2>2, <2>3, <2>4, <2>5, <2>6, <2>7, <2>8, <2>9, <2>10, Zenon
<1>12. ASSUME NEW c \in Caller, Abandon(c) PROVE Inv'
  <2> USE <1>12 DEF Abandon
  <2>1. TypeOK'
    BY Zenon
  <2>2. CallsInOrder'
    BY Zenon DEF CallsInOrder
  <2>3. DialsApart'
    BY DEF DialsApart
  <2>4. ClientsApart'
    BY Zenon DEF ClientsApart
  <2>5. OneConnection'
    BY Zenon DEF OneConnection
  <2>6. WatchersForCause'
    BY Zenon DEF WatchersForCause
  <2>7. ClosedForCause'
    BY Zenon DEF ClosedForCause
  <2>8. NothingLeaks'
    BY DEF NothingLeaks
  <2>9. CacheWorks'
    BY Zenon DEF CacheWorks
  <2>10. FailsForCause'
    BY Zenon DEF FailsForCause
  <2> QED
    BY <2>1, <2>2, <2>3, <2>4, <2>5, <2>6, <2>7, <2>8, <2>9, <2>10, Zenon
<1>13. ASSUME NEW c \in Caller, Drain(c) PROVE Inv'
  <2> USE <1>13 DEF Drain
  <2>1. TypeOK'
    BY Zenon
  <2>2. CallsInOrder'
    BY Zenon DEF CallsInOrder
  <2>3. DialsApart'
    BY DEF DialsApart
  <2>4. ClientsApart'
    BY Zenon DEF ClientsApart
  <2>5. OneConnection'
    BY Zenon DEF OneConnection
  <2>6. WatchersForCause'
    BY Zenon DEF WatchersForCause
  <2>7. ClosedForCause'
    BY DEF ClosedForCause, ClientsApart
  <2>8. NothingLeaks'
    BY DEF NothingLeaks
  <2>9. CacheWorks'
    BY Zenon DEF CacheWorks, ClientsApart
  <2>10. FailsForCause'
    BY Zenon DEF FailsForCause
  <2> QED
    BY <2>1, <2>2, <2>3, <2>4, <2>5, <2>6, <2>7, <2>8, <2>9, <2>10, Zenon
<1>14. ASSUME NEW c \in Caller, Fail(c) PROVE Inv'
  <2> USE <1>14 DEF Fail, Stop
  <2>1. TypeOK'
    BY Zenon
  <2>2. CallsInOrder'
    BY Zenon DEF CallsInOrder
  <2>3. DialsApart'
    BY DEF DialsApart
  <2>4. ClientsApart'
    BY Zenon DEF ClientsApart
  <2>5. OneConnection'
    BY Zenon DEF OneConnection
  <2>6. WatchersForCause'
    BY DEF WatchersForCause
  <2>7. ClosedForCause'
    BY Zenon DEF ClosedForCause
  <2>8. NothingLeaks'
    BY Zenon DEF NothingLeaks
  <2>9. CacheWorks'
    BY Zenon DEF CacheWorks
  <2>10. FailsForCause'
    BY DEF FailsForCause, ClosedForCause, WatchersForCause
  <2> QED
    BY <2>1, <2>2, <2>3, <2>4, <2>5, <2>6, <2>7, <2>8, <2>9, <2>10, Zenon
<1>15. ASSUME NEW c \in Caller, Clear(c) PROVE Inv'
  <2> USE <1>15 DEF Clear
  <2>1. TypeOK'
    BY Zenon
  <2>2. CallsInOrder'
    BY Zenon DEF CallsInOrder
  <2>3. DialsApart'
    BY DEF DialsApart
  <2>4. ClientsApart'
    BY DEF ClientsApart
  <2>5. OneConnection'
    BY Zenon DEF OneConnection
  <2>6. WatchersForCause'
    BY DEF WatchersForCause
  <2>7. ClosedForCause'
    BY Zenon DEF ClosedForCause
  <2>8. NothingLeaks'
    BY Zenon DEF NothingLeaks
  <2>9. CacheWorks'
    BY Zenon DEF CacheWorks
  <2>10. FailsForCause'
    BY Zenon DEF FailsForCause
  <2> QED
    BY <2>1, <2>2, <2>3, <2>4, <2>5, <2>6, <2>7, <2>8, <2>9, <2>10, Zenon
<1>16. ASSUME NEW c \in Caller, CloseSftp(c) PROVE Inv'
  <2> USE <1>16 DEF CloseSftp
  <2>1. TypeOK'
    BY Zenon
  <2>2. CallsInOrder'
    BY Zenon DEF CallsInOrder
  <2>3. DialsApart'
    BY DEF DialsApart
  <2>4. ClientsApart'
    BY Zenon DEF ClientsApart
  <2>5. OneConnection'
    BY Zenon DEF OneConnection
  <2>6. WatchersForCause'
    BY DEF WatchersForCause
  <2>7. ClosedForCause'
    BY Zenon DEF ClosedForCause, WatchersForCause
  <2>8. NothingLeaks'
    BY Zenon DEF NothingLeaks
  <2>9. CacheWorks'
    BY Zenon DEF CacheWorks, WatchersForCause
  <2>10. FailsForCause'
    BY Zenon DEF FailsForCause
  <2> QED
    BY <2>1, <2>2, <2>3, <2>4, <2>5, <2>6, <2>7, <2>8, <2>9, <2>10, Zenon
<1>17. ASSUME NEW c \in Caller, Dial(c) PROVE Inv'
  <2> USE <1>17 DEF Dial
  <2>1. TypeOK'
    BY Zenon
  <2>2. CallsInOrder'
    BY Zenon DEF CallsInOrder
  <2>3. DialsApart'
    BY DEF DialsApart
  <2>4. ClientsApart'
    BY Zenon DEF ClientsApart
  <2>5. OneConnection'
    BY Zenon DEF OneConnection, CallsInOrder
  <2>6. WatchersForCause'
    BY Zenon DEF WatchersForCause
  <2>7. ClosedForCause'
    BY Zenon DEF ClosedForCause
  <2>8. NothingLeaks'
    BY DEF NothingLeaks, DialsApart
  <2>9. CacheWorks'
    BY Zenon DEF CacheWorks
  <2>10. FailsForCause'
    BY Zenon DEF FailsForCause
  <2> QED
    BY <2>1, <2>2, <2>3, <2>4, <2>5, <2>6, <2>7, <2>8, <2>9, <2>10, Zenon
<1>18. ASSUME NEW c \in Caller, Negotiated(c) PROVE Inv'
  <2> USE <1>18 DEF Negotiated
  <2>1. TypeOK'
    OBVIOUS
  <2>2. CallsInOrder'
    BY Zenon DEF CallsInOrder
  <2>3. DialsApart'
    BY DEF DialsApart, CallsInOrder
  <2>4. ClientsApart'
    BY DEF ClientsApart, CallsInOrder
  <2>5. OneConnection'
    BY DEF OneConnection
  <2>6. WatchersForCause'
    BY Zenon DEF WatchersForCause
  <2>7. ClosedForCause'
    BY DEF ClosedForCause
  <2>8. NothingLeaks'
    BY DEF NothingLeaks
  <2>9. CacheWorks'
    BY DEF CacheWorks, OneConnection
  <2>10. FailsForCause'
    BY DEF FailsForCause, CallsInOrder, ClientsApart
  <2> QED
    BY <2>1, <2>2, <2>3, <2>4, <2>5, <2>6, <2>7, <2>8, <2>9, <2>10, Zenon
<1>19. ASSUME NEW c \in Caller, Succeed(c) PROVE Inv'
  <2> USE <1>19 DEF Succeed, Stop
  <2>1. TypeOK'
    BY Zenon
  <2>2. CallsInOrder'
    BY Zenon DEF CallsInOrder
  <2>3. DialsApart'
    BY DEF DialsApart
  <2>4. ClientsApart'
    BY Zenon DEF ClientsApart
  <2>5. OneConnection'
    BY Zenon DEF OneConnection
  <2>6. WatchersForCause'
    BY DEF WatchersForCause
  <2>7. ClosedForCause'
    BY Zenon DEF ClosedForCause
  <2>8. NothingLeaks'
    BY DEF NothingLeaks
  <2>9. CacheWorks'
    BY Zenon DEF CacheWorks
  <2>10. FailsForCause'
    BY Zenon DEF FailsForCause
  <2> QED
    BY <2>1, <2>2, <2>3, <2>4, <2>5, <2>6, <2>7, <2>8, <2>9, <2>10, Zenon
<1>20. CASE UNCHANGED vars
  <2> USE <1>20 DEF vars
  <2>1. TypeOK'
    BY Zenon
  <2>2. CallsInOrder'
    BY Zenon DEF CallsInOrder
  <2>3. DialsApart'
    BY DEF DialsApart
  <2>4. ClientsApart'
    BY Zenon DEF ClientsApart
  <2>5. OneConnection'
    BY Zenon DEF OneConnection
  <2>6. WatchersForCause'
    BY Zenon DEF WatchersForCause
  <2>7. ClosedForCause'
    BY Zenon DEF ClosedForCause
  <2>8. NothingLeaks'
    BY DEF NothingLeaks
  <2>9. CacheWorks'
    BY DEF CacheWorks
  <2>10. FailsForCause'
    BY Zenon DEF FailsForCause
  <2> QED
    BY <2>1, <2>2, <2>3, <2>4, <2>5, <2>6, <2>7, <2>8, <2>9, <2>10, Zenon
<1> QED
  BY <1>1, <1>2, <1>3, <1>4, <1>5, <1>6, <1>7, <1>8, <1>9, <1>10, <1>11,
     <1>12, <1>13, <1>14, <1>15, <1>16, <1>17, <1>18, <1>19, <1>20, Zenon DEF Next, Step, Answer

\* The inductive invariant holds of every reachable state.
THEOREM Invariance == Spec => []Inv
  BY InitInv, NextInv, PTL DEF Spec

\* Whatever calls race to connect, cancel or close, every open connection and
\* every SFTP client that works is cached, or some goroutine still has it to
\* install or to close (conn, sftpClient, closeSFTP).
THEOREM NothingIsLost == Spec => []NothingLeaks
<1>1. Inv => NothingLeaks
  BY Zenon DEF Inv
<1> QED
  BY <1>1, Invariance, PTL

\* What the backend caches works while nobody closes it, and an operation under
\* a live context fails over a connection that is up only because a cancelled
\* one closed the SFTP client they shared (sftpDo, closeSFTP).
THEOREM CacheIsSound == Spec => []CacheServes
<1>1. Inv => CacheServes
  BY Zenon DEF Inv
<1> QED
  BY <1>1, Invariance, PTL
=============================================================================
