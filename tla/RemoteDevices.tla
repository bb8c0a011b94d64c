---------------------------- MODULE RemoteDevices ----------------------------
(***************************************************************************)
(* The rows of remote devices in the interface table.  The Inter Device    *)
(* Manager reports a device that comes or goes; the rbus callback starts a *)
(* thread for each report, and so does the start-up for each device it is  *)
(* told of.  A thread finds or adds the row of its device under            *)
(* RemoteIfaceConfigure_mutex, then asks the device for its parameters and *)
(* subscribes to them; answers and changes arrive at any later moment.     *)
(***************************************************************************)
EXTENDS Integers, Sequences, FiniteSets, SequencesExt

CONSTANTS Macs,          \* the remote devices
          NewDml,        \* those that have the current data model, too
          Places,        \* rows the local interfaces may leave in the table
          Deactivated,   \* the remote group is in STATE_GROUP_DEACTIVATED
          Followed,      \* the names of RemoteDMs a run follows
          Slots          \* bound: threads at a time

ASSUME DevicesAssumption ==
    /\ Macs # {} /\ NewDml \subseteq Macs /\ Places \subseteq Nat /\ Deactivated \in BOOLEAN
    /\ Followed \subseteq {"Alias", "Phy", "Status", "Link"}
    /\ IsFiniteSet(Slots) /\ 0 \notin Slots

VARIABLES
    places,      \* MAX_WAN_INTERFACE_ENTRY less the local interfaces
    nwmode,      \* DeviceNwMode
    table,       \* the remote rows of pIface, never deleted
    remoteGroup, \* InterfaceAvailable and ConfigChanged of the remote group
    threads,     \* WanMgr_WanRemoteIfaceConfigure_thread
    waiting,     \* those that wait for RemoteIfaceConfigure_mutex, oldest first
    holder,      \* who holds that mutex, 0 for nobody
    lostLock,    \* gDataMutex was left locked by a thread that ended
    queryList,   \* RemoteDMsQueryList, shared by the threads
    boot,        \* WanMgr_RestartUpdateRemoteIface: what it has still to do
    present,     \* external: the devices that are connected
    reports,     \* external: their reports on the way
    requests,    \* external: requests a device has understood and not answered
    subscribed,  \* external: parameters a device reports the changes of
    stale        \* auxiliary: devices whose last report was not the last applied

devVars == <<places, nwmode, table, remoteGroup, threads, waiting, holder, lostLock,
             queryList, boot, present, reports, requests, subscribed, stale>>

-----------------------------------------------------------------------------
(* Requested of a device: GET for all, SUBS for some; the display name is    *)
(* left out.                                                                 *)
RemoteDMs(op) ==
    Followed \cap CASE op = "get" -> {"Alias", "Phy", "Status", "Link"}
                    [] op = "subscribe" -> {"Phy", "Status", "Link"}
Values == {"Down", "Up"}
Dmls == {"V1", "V2"}

NewRow(m) == [mac |-> m, Enable |-> TRUE, Phy |-> "Down", Alias |-> "none",
              Status |-> "Down", Link |-> "Down", params |-> FALSE]
RowType == [mac : Macs, Enable : BOOLEAN, Phy : Values, Alias : {"none"} \cup Values,
            Status : Values, Link : Values, params : BOOLEAN]

(* The index of the row of a device, 0 if it has none                        *)
IndexOf(m) == SelectInSeq(table, LAMBDA r : r.mac = m)

(* A value a device gave is stored: a link that comes up has the addresses   *)
(* read from PSM.                                                            *)
Stored(r, p, v) ==
    CASE p = "Alias" -> [r EXCEPT !.Alias = v]
      [] p = "Phy" -> [r EXCEPT !.Phy = v]
      [] p = "Status" -> [r EXCEPT !.Status = v]
      [] p = "Link" -> [r EXCEPT !.Link = v, !.params = @ \/ v = "Up"]

-----------------------------------------------------------------------------
(* Threads                                                                   *)
NoThread == [pc |-> "none", mac |-> CHOOSE m \in Macs : TRUE, available |-> FALSE,
             dml |-> "V1"]
Locked == {"find", "add", "register", "enable"}
ThreadType == [pc : {"none", "lock", "version", "clear", "fill", "get", "subscribe"} \cup Locked,
               mac : Macs, available : BOOLEAN, dml : Dmls]

DevInit ==
    /\ places \in Places /\ nwmode \in {"GATEWAY", "MODEM"}
    /\ table = <<>> /\ remoteGroup = [InterfaceAvailable |-> {}, ConfigChanged |-> FALSE]
    /\ threads = [k \in Slots |-> NoThread] /\ waiting = <<>> /\ holder = 0
    /\ lostLock = FALSE /\ queryList = "none"
    /\ present \in SUBSET Macs /\ reports = <<>> /\ requests = {} /\ subscribed = {}
    /\ boot = [pc |-> "start", todo |-> {}, mac |-> NoThread.mac, available |-> FALSE]
    /\ stale = {}

(* The callbacks and the threads that touch the data wait for gDataMutex.    *)
DataLock == ~ lostLock

Applying(m) == \E k \in Slots : threads[k].mac = m /\ threads[k].pc \in Locked \cup {"lock"}
OnTheWay(m) == \E n \in DOMAIN reports : reports[n].mac = m

(* WanMgr_WanRemoteIfaceConfigure: a thread for the report (m, a), or, when  *)
(* pthread_create fails or the event cannot be allocated, none.              *)
StartThread(m, a) ==
    \E k \in Slots :
        /\ threads[k].pc = "none"
        /\ \A j \in Slots : threads[j].pc = "none" => k <= j
        /\ threads' = [threads EXCEPT ![k] =
              [NoThread EXCEPT !.pc = "lock", !.mac = m, !.available = a]]
        /\ waiting' = Append(waiting, k)

NoThreadStarted == UNCHANGED <<threads, waiting>>

(* The mutex goes to any of the threads that wait, once nobody holds it.     *)
Locks(k, free) ==
    LET m == threads[k].mac IN
    /\ threads[k].pc = "lock" /\ free
    /\ \E n \in DOMAIN waiting :
          /\ waiting[n] = k
          /\ waiting' = RemoveAt(waiting, n)
          /\ stale' = IF \E p \in 1 .. n - 1 : threads[waiting[p]].mac = m
                      THEN stale \cup {m} ELSE stale
    /\ holder' = k
    /\ threads' = [threads EXCEPT ![k].pc = "find"]
    /\ UNCHANGED <<places, nwmode, table, remoteGroup, lostLock, queryList, boot, present,
                   reports, requests, subscribed>>

(* Mutant: the table is searched without the mutex                           *)
LockTooLate(k) == Locks(k, TRUE)

Lock(k) == Locks(k, holder = 0)

Leave(k) == threads' = [threads EXCEPT ![k] = NoThread] /\ holder' = 0

(* A device without a row that is not available needs none.                  *)
Find(k) ==
    LET t == threads[k] IN
    /\ t.pc = "find" /\ DataLock
    /\ \/ IndexOf(t.mac) # 0
          /\ threads' = [threads EXCEPT ![k].pc = "enable"] /\ UNCHANGED holder
       \/ IndexOf(t.mac) = 0 /\ t.available
          /\ threads' = [threads EXCEPT ![k].pc = "add"] /\ UNCHANGED holder
       \/ IndexOf(t.mac) = 0 /\ ~ t.available /\ Leave(k)
    /\ UNCHANGED <<places, nwmode, table, remoteGroup, waiting, lostLock, queryList, boot,
                   present, reports, requests, subscribed, stale>>

(* WanMgr_Remote_IfaceData_configure: when the table is full or memory for   *)
(* the row cannot be had, the thread ends and gDataMutex stays locked.       *)
Add(k) ==
    /\ threads[k].pc = "add" /\ DataLock
    /\ \/ /\ Len(table) < places
          /\ table' = Append(table, NewRow(threads[k].mac))
          /\ remoteGroup' = [remoteGroup EXCEPT
                                !.InterfaceAvailable = @ \cup {Len(table) + 1},
                                !.ConfigChanged = @ \/ ~ Deactivated]
          /\ threads' = [threads EXCEPT ![k].pc = "register"]
          /\ UNCHANGED <<holder, lostLock>>
       \/ /\ lostLock' = TRUE /\ Leave(k)
          /\ UNCHANGED <<table, remoteGroup>>
    /\ UNCHANGED <<places, nwmode, waiting, queryList, boot, present, reports, requests,
                   subscribed, stale>>

(* rbusTable_registerRow: when one of the tables refuses the row it stays in *)
(* the data, and the device is not asked for anything.                       *)
Register(k) ==
    /\ threads[k].pc = "register" /\ DataLock
    /\ \/ threads' = [threads EXCEPT ![k].pc = "enable"] /\ UNCHANGED holder
       \/ Leave(k)
    /\ UNCHANGED <<places, nwmode, table, remoteGroup, waiting, lostLock, queryList, boot,
                   present, reports, requests, subscribed, stale>>

Enable(k) ==
    LET t == threads[k]  i == IndexOf(t.mac) IN
    /\ t.pc = "enable" /\ DataLock
    /\ \/ /\ t.available
          /\ table' = [table EXCEPT ![i].Enable = TRUE]
          /\ threads' = [threads EXCEPT ![k].pc = "version"] /\ holder' = 0
       \/ /\ ~ t.available
          /\ table' = [table EXCEPT ![i].Enable = FALSE, ![i].Phy = "Down"]
          /\ Leave(k)
    /\ UNCHANGED <<places, nwmode, remoteGroup, waiting, lostLock, queryList, boot, present,
                   reports, requests, subscribed, stale>>

(* WanMgr_IDM_InvokeSync for the version: it may fail for any device.        *)
Version(k) ==
    /\ threads[k].pc = "version"
    /\ \E d \in IF threads[k].mac \in NewDml THEN Dmls ELSE {"V1"} :
          threads' = [threads EXCEPT ![k].dml = d, ![k].pc = "clear"]
    /\ UNCHANGED <<places, nwmode, table, remoteGroup, waiting, holder, lostLock, queryList,
                   boot, present, reports, requests, subscribed, stale>>

(* memset and memcpy of the list that all threads share                      *)
FillQueryList(k) ==
    /\ \/ threads[k].pc = "clear" /\ queryList' = "none"
          /\ threads' = [threads EXCEPT ![k].pc = "fill"]
       \/ threads[k].pc = "fill" /\ queryList' = threads[k].dml
          /\ threads' = [threads EXCEPT ![k].pc = "get"]
    /\ UNCHANGED <<places, nwmode, table, remoteGroup, waiting, holder, lostLock, boot,
                   present, reports, requests, subscribed, stale>>

(* A device answers to the names of the version 1 data model, a newer one    *)
(* also to the current ones.                                                 *)
Understands(m, dml) == dml = "V1" \/ (dml = "V2" /\ m \in NewDml)

(* The loops over the list, which may be another thread's by now; its        *)
(* entries are skipped while they are empty.                                 *)
Query(k) ==
    LET t == threads[k] IN
    /\ t.pc \in {"get", "subscribe"}
    /\ requests' = requests \cup
          (IF Understands(t.mac, queryList) THEN {t.pc} \X {t.mac} \X RemoteDMs(t.pc) ELSE {})
    /\ threads' = [threads EXCEPT ![k] =
          IF t.pc = "get" THEN [t EXCEPT !.pc = "subscribe"] ELSE NoThread]
    /\ UNCHANGED <<places, nwmode, table, remoteGroup, waiting, holder, lostLock,
                   queryList, boot, present, reports, subscribed, stale>>

Thread(k) ==
    Lock(k) \/ Find(k) \/ Add(k) \/ Register(k) \/ Enable(k) \/ Version(k)
        \/ FillQueryList(k) \/ Query(k)

-----------------------------------------------------------------------------
(* WanMgr_RestartUpdateRemoteIface, while the reports are already coming in: *)
(* the state of a device is read, then a thread is started for it.           *)
BootStart ==
    /\ boot.pc = "start" /\ DataLock
    /\ \E known \in SUBSET Macs :     \* a failed query or malloc leaves devices out
          LET todo == IF nwmode = "GATEWAY" THEN known ELSE {} IN
          /\ boot' = [boot EXCEPT !.pc = IF todo = {} THEN "done" ELSE "read", !.todo = todo]
          /\ stale' = stale \cup (present \ todo)
    /\ UNCHANGED <<places, nwmode, table, remoteGroup, threads, waiting, holder, lostLock,
                   queryList, present, reports, requests, subscribed>>

(* The state is taken for "not available" when it cannot be read.            *)
BootRead(m) ==
    /\ boot.pc = "read" /\ m \in boot.todo
    /\ \E a \in {FALSE, (m \in present)} :
          boot' = [pc |-> "spawn", todo |-> boot.todo \ {m}, mac |-> m, available |-> a]
    /\ UNCHANGED <<places, nwmode, table, remoteGroup, threads, waiting, holder, lostLock,
                   queryList, present, reports, requests, subscribed, stale>>

BootSpawn ==
    LET m == boot.mac  a == boot.available IN
    /\ boot.pc = "spawn"
    /\ \/ StartThread(m, a)
          /\ stale' = IF a = (m \in present) \/ OnTheWay(m) THEN stale ELSE stale \cup {m}
       \/ NoThreadStarted
          /\ stale' = IF OnTheWay(m) THEN stale ELSE stale \cup {m}
    /\ boot' = [boot EXCEPT !.pc = IF boot.todo = {} THEN "done" ELSE "read"]
    /\ UNCHANGED <<places, nwmode, table, remoteGroup, holder, lostLock, queryList, present,
                   reports, requests, subscribed>>

-----------------------------------------------------------------------------
(* The rbus callback: a report is dropped in modem mode, and lost when no    *)
(* thread can be started for it.                                             *)
DeviceChange ==
    /\ reports # <<>> /\ DataLock
    /\ LET e == Head(reports) IN
       \/ /\ nwmode = "GATEWAY" /\ StartThread(e.mac, e.available)
          /\ stale' = IF Applying(e.mac) THEN stale ELSE stale \ {e.mac}
       \/ NoThreadStarted /\ stale' = stale \cup {e.mac}
    /\ reports' = Tail(reports)
    /\ UNCHANGED <<places, nwmode, table, remoteGroup, holder, lostLock, queryList, boot,
                   present, requests, subscribed>>

NetworkingMode ==
    /\ DataLock
    /\ nwmode' = IF nwmode = "GATEWAY" THEN "MODEM" ELSE "GATEWAY"
    /\ UNCHANGED <<places, table, remoteGroup, threads, waiting, holder, lostLock, queryList,
                   boot, present, reports, requests, subscribed, stale>>

(* CPEInterface_AsyncMethodHandler: an answer, at any time or never.         *)
Answer(op, m, p, v) ==
    /\ <<op, m, p>> \in requests /\ DataLock /\ IndexOf(m) # 0
    /\ table' = [table EXCEPT ![IndexOf(m)] = Stored(@, p, v)]
    /\ requests' = requests \ {<<op, m, p>>}
    /\ subscribed' = IF op = "subscribe" THEN subscribed \cup {<<m, p>>} ELSE subscribed
    /\ UNCHANGED <<places, nwmode, remoteGroup, threads, waiting, holder, lostLock, queryList,
                   boot, present, reports, stale>>

(* Device.X_RDK_Remote.Invoke(): a change a device was subscribed for        *)
RemoteInvoke(m, p, v) ==
    /\ <<m, p>> \in subscribed /\ nwmode = "GATEWAY" /\ DataLock
    /\ IndexOf(m) # 0
    /\ table' = [table EXCEPT ![IndexOf(m)] = Stored(@, p, v)]
    /\ UNCHANGED <<places, nwmode, remoteGroup, threads, waiting, holder, lostLock, queryList,
                   boot, present, reports, requests, subscribed, stale>>

(* A device connects or disconnects, and is reported.                        *)
DeviceMoves(m) ==
    /\ present' = IF m \in present THEN present \ {m} ELSE present \cup {m}
    /\ reports' = Append(reports, [mac |-> m, available |-> m \notin present])
    /\ UNCHANGED <<places, nwmode, table, remoteGroup, threads, waiting, holder, lostLock,
                   queryList, boot, requests, subscribed, stale>>

DevThreads ==
    \/ \E k \in Slots : Thread(k)
    \/ BootStart \/ BootSpawn \/ \E m \in Macs : BootRead(m)
    \/ DeviceChange

DevEvents ==
    \/ \E m \in Macs : DeviceMoves(m)
    \/ NetworkingMode
    \/ \E q \in requests, v \in Values : Answer(q[1], q[2], q[3], v)
    \/ \E s \in subscribed, v \in Values : RemoteInvoke(s[1], s[2], v)

DevNext == DevThreads \/ DevEvents
DevSpec == DevInit /\ [][DevNext]_devVars

-----------------------------------------------------------------------------
(* Types of the rows, the threads and what is on its way                     *)
DevicesTypeOK ==
    /\ places \in Places /\ nwmode \in {"GATEWAY", "MODEM"} /\ lostLock \in BOOLEAN
    /\ table \in Seq(RowType) /\ queryList \in {"none"} \cup Dmls
    /\ threads \in [Slots -> ThreadType] /\ waiting \in Seq(Slots)
    /\ holder \in Slots \cup {0}
    /\ present \subseteq Macs /\ stale \subseteq Macs
    /\ requests \subseteq {"get", "subscribe"} \X Macs \X Followed
    /\ subscribed \subseteq Macs \X RemoteDMs("subscribe")

(* The rows follow the devices.  Reports that come in bursts, together with  *)
(* the start-up's own look at the devices, never give a device two rows, and *)
(* the remote group lists the rows there are.  When the reports are dealt    *)
(* with, the row of a device is enabled exactly when the device is there,    *)
(* and a device that is there has a row.  Two cases are left out: a device   *)
(* whose last report was dropped in modem mode, lost for want of memory or   *)
(* of a thread, overtaken at the mutex or read too early at the start, until *)
(* the next report repairs that; and everything after a thread has ended     *)
(* with gDataMutex locked (no place or no memory for a new row), since       *)
(* nothing is dealt with any more.                                           *)
Settled == boot.pc = "done" /\ reports = <<>> /\ \A m \in Macs : ~ Applying(m)
RowsFollowDevices ==
    /\ \A i, j \in DOMAIN table : table[i].mac = table[j].mac => i = j
    /\ remoteGroup.InterfaceAvailable = DOMAIN table
    /\ Settled /\ ~ lostLock => \A m \in Macs \ stale :
          IF IndexOf(m) = 0 THEN m \notin present
          ELSE table[IndexOf(m)].Enable = (m \in present)
=============================================================================
