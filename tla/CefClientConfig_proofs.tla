----------------------- MODULE CefClientConfig_proofs -----------------------
(***************************************************************************)
(* Theorems about the flag file, for any clients and keys.                 *)
(*                                                                         *)
(* While no client was disturbed there is one client at most, and the file *)
(* is as its call has left it so far.  So the invariant goes through the   *)
(* calls step by step: BrowserTodo and ExitTodo are what may be left of a  *)
(* call, and BrowserInv and ExitInv say what the file f and the root r of  *)
(* a client with the key k hold then.                                      *)
(***************************************************************************)
EXTENDS CefClientConfig, SequenceTheorems, TLAPS

Write == <<"truncate", "store">>
Test == <<"test">>
SetAndWrite == <<"set", "truncate", "store">>
EraseAndWrite == <<"erase", "truncate", "store">>
ReadAndErase == <<"read", "erase", "truncate", "store">>

\* A file that is created for a read, and what follows the read.
Creating ==
    {<<"truncate", "store", "test">>, <<"store", "test">>}
CreatingToSet ==
    {<<"truncate", "store", "set", "truncate", "store">>,
     <<"store", "set", "truncate", "store">>}
CreatingToErase ==
    {<<"truncate", "store", "read", "erase", "truncate", "store">>,
     <<"store", "read", "erase", "truncate", "store">>,
     <<"truncate", "store", "erase", "truncate", "store">>,
     <<"store", "erase", "truncate", "store">>}

BrowserTodo ==
    Creating \cup CreatingToSet \cup
    {<<>>, <<"read", "test">>, Test, <<"read", "set", "truncate", "store">>,
     SetAndWrite, Write, <<"store">>}

ExitTodo ==
    CreatingToErase \cup
    {<<>>, <<"read", "read", "erase", "truncate", "store">>, ReadAndErase,
     EraseAndWrite, Write, <<"store">>}

\* A client with a browser writes only while its flag is not in the file, and
\* tests for it in the root that is in the file.
BrowserInv(k, t, r, f) ==
    /\ t \in BrowserTodo
    /\ t \in {<<>>, <<"read", "test">>, Test} \/ k \notin f
    /\ t = Test => r = f
    /\ t \in CreatingToSet => r = {}

\* A client that exits erases its flag from the root that is in the file, and
\* then writes.
ExitInv(t, r, f) ==
    /\ t \in ExitTodo
    /\ t = <<>> => f = {}
    /\ t \in {Write, <<"store">>} => r = {}
    /\ t = EraseAndWrite => r = f

ClientInv(l, k, t, r, f) ==
    /\ f \subseteq {k} /\ r \subseteq {k}
    /\ \/ l = "running" /\ t = <<>> /\ f = {}
       \/ l = "browser" /\ BrowserInv(k, t, r, f)
       \/ l = "exiting" /\ ExitInv(t, r, f)

\* Of clients that do not overlap one is alive at most, and a flag is its.
QuietInv ==
    /\ \A p, q \in Process : Alive(p) /\ Alive(q) => p = q
    /\ \A p \in Process :
          Alive(p) => ClientInv(life[p], keyOf[p], todo[p], mRoot[p], fileKeys)
    /\ (\A p \in Process : ~Alive(p)) => fileKeys = {}

Inv ==
    /\ TypeOK
    /\ \A p \in Process : life[p] = "off" => mRoot[p] = {}
    /\ ~disturbed => QuietInv

-----------------------------------------------------------------------------
(* What is left of a call.                                                 *)

\* ReadRoot puts the creation of the file before what is left of its call.
LEMMA CreateFirst ==
    /\ Write \o <<"test">> = <<"truncate", "store", "test">>
    /\ Write \o SetAndWrite = <<"truncate", "store", "set", "truncate", "store">>
    /\ Write \o EraseAndWrite = <<"truncate", "store", "erase", "truncate", "store">>
    /\ Write \o ReadAndErase = <<"truncate", "store", "read", "erase", "truncate", "store">>
<1>1. ASSUME NEW a PROVE Write \o <<a>> = <<"truncate", "store", a>>
  <2> DEFINE S == {"truncate", "store", a}
             t == Write \o <<a>>
             u == <<"truncate", "store", a>>
  <2>1. Write \in Seq(S) /\ <<a>> \in Seq(S) /\ u \in Seq(S)
    BY DEF Write
  <2>2. t \in Seq(S) /\ Len(t) = 3
    BY <2>1, ConcatProperties DEF Write
  <2>3. /\ t[1] = "truncate" /\ t[2] = "store" /\ t[3] = a
    BY <2>1 DEF Write
  <2> HIDE DEF t
  <2>4. Len(u) = 3 /\ \A i \in 1 .. 3 : t[i] = u[i]
    BY <2>3
  <2>5. t = u
    BY <2>1, <2>2, <2>4, SeqEqual
  <2> QED BY <2>5 DEF t
<1>2. ASSUME NEW a PROVE Write \o <<a, "truncate", "store">> = <<"truncate", "store", a, "truncate", "store">>
  <2> DEFINE S == {"truncate", "store", a}
             s == <<a, "truncate", "store">>
             t == Write \o s
             u == <<"truncate", "store", a, "truncate", "store">>
  <2>1. Write \in Seq(S) /\ s \in Seq(S) /\ u \in Seq(S)
    BY DEF Write
  <2>2. t \in Seq(S) /\ Len(t) = 5
    BY <2>1, ConcatProperties DEF Write
  <2>3. /\ t[1] = "truncate" /\ t[2] = "store" /\ t[3] = a
        /\ t[4] = "truncate" /\ t[5] = "store"
    BY <2>1 DEF Write
  <2> HIDE DEF t
  <2>4. Len(u) = 5 /\ \A i \in 1 .. 5 : t[i] = u[i]
    BY <2>3
  <2>5. t = u
    BY <2>1, <2>2, <2>4, SeqEqual
  <2> QED BY <2>5 DEF t
<1>3. Write \o ReadAndErase = <<"truncate", "store", "read", "erase", "truncate", "store">>
  <2> DEFINE t == Write \o ReadAndErase
             u == <<"truncate", "store", "read", "erase", "truncate", "store">>
  <2>1. Write \in Seq(Step) /\ ReadAndErase \in Seq(Step) /\ u \in Seq(Step)
    BY DEF Write, ReadAndErase, Step
  <2>2. t \in Seq(Step) /\ Len(t) = 6
    BY <2>1, ConcatProperties DEF Write, ReadAndErase
  <2>3. /\ t[1] = "truncate" /\ t[2] = "store" /\ t[3] = "read"
        /\ t[4] = "erase" /\ t[5] = "truncate" /\ t[6] = "store"
    BY <2>1 DEF Write, ReadAndErase
  <2> HIDE DEF t
  <2>4. Len(u) = 6 /\ \A i \in 1 .. 6 : t[i] = u[i]
    BY <2>3
  <2>5. t = u
    BY <2>1, <2>2, <2>4, SeqEqual
  <2> QED BY <2>5 DEF t
<1>4. Write \o SetAndWrite = <<"truncate", "store", "set", "truncate", "store">>
  BY <1>2 DEF SetAndWrite
<1>5. Write \o EraseAndWrite = <<"truncate", "store", "erase", "truncate", "store">>
  BY <1>2 DEF EraseAndWrite
<1> QED BY <1>1, <1>3, <1>4, <1>5

\* The step that is next says what is left, and what will be left after it.
LEMMA BrowserSteps ==
    ASSUME NEW t \in BrowserTodo, t # <<>>
    PROVE  /\ Head(t) = "read" =>
                  \/ t = <<"read", "test">> /\ Tail(t) = Test
                  \/ t = <<"read", "set", "truncate", "store">> /\ Tail(t) = SetAndWrite
           /\ Head(t) = "truncate" =>
                  \/ t = Write /\ Tail(t) = <<"store">>
                  \/ t \in Creating /\ Tail(t) = <<"store", "test">>
                  \/ t \in CreatingToSet /\ Tail(t) = <<"store", "set", "truncate", "store">>
           /\ Head(t) = "store" =>
                  \/ t = <<"store">> /\ Tail(t) = <<>>
                  \/ t \in Creating /\ Tail(t) = Test
                  \/ t \in CreatingToSet /\ Tail(t) = SetAndWrite
           /\ Head(t) = "test" => t = Test /\ Tail(t) = <<>>
           /\ Head(t) = "set" => t = SetAndWrite /\ Tail(t) = Write
           /\ Head(t) # "erase"
<1>1. CASE t \in Creating
  <2>1. CASE t = <<"truncate", "store", "test">>
    BY <1>1, <2>1 DEF Creating
  <2>2. CASE t = <<"store", "test">>
    BY <1>1, <2>2 DEF Creating, Test
  <2> QED BY <1>1, <2>1, <2>2 DEF Creating
<1>2. CASE t \in CreatingToSet
  <2>1. CASE t = <<"truncate", "store", "set", "truncate", "store">>
    BY <1>2, <2>1 DEF CreatingToSet
  <2>2. CASE t = <<"store", "set", "truncate", "store">>
    BY <1>2, <2>2 DEF CreatingToSet, SetAndWrite
  <2> QED BY <1>2, <2>1, <2>2 DEF CreatingToSet
<1>3. CASE t = <<"read", "test">>
  BY <1>3 DEF Test
<1>4. CASE t = <<"read", "set", "truncate", "store">>
  BY <1>4 DEF SetAndWrite
<1>5. CASE t = Test
  BY <1>5 DEF Test
<1>6. CASE t = SetAndWrite
  BY <1>6 DEF SetAndWrite, Write
<1>7. CASE t = Write
  BY <1>7 DEF Write
<1>8. CASE t = <<"store">>
  BY <1>8
<1> QED BY <1>1, <1>2, <1>3, <1>4, <1>5, <1>6, <1>7, <1>8 DEF BrowserTodo

LEMMA ExitSteps ==
    ASSUME NEW t \in ExitTodo, t # <<>>
    PROVE  /\ Head(t) = "read" =>
                  \/ /\ t = <<"read", "read", "erase", "truncate", "store">>
                     /\ Tail(t) = ReadAndErase
                  \/ t = ReadAndErase /\ Tail(t) = EraseAndWrite
           /\ Head(t) = "truncate" =>
                  \/ t = Write /\ Tail(t) = <<"store">>
                  \/ t \in CreatingToErase /\ Tail(t) \in CreatingToErase
           /\ Head(t) = "store" =>
                  \/ t = <<"store">> /\ Tail(t) = <<>>
                  \/ t \in CreatingToErase /\ Tail(t) \in {ReadAndErase, EraseAndWrite}
           /\ Head(t) = "erase" => t = EraseAndWrite /\ Tail(t) = Write
           /\ Head(t) \notin {"test", "set"}
<1>1. CASE t \in CreatingToErase
  <2>1. CASE t = <<"truncate", "store", "read", "erase", "truncate", "store">>
    <3>1. Tail(t) = <<"store", "read", "erase", "truncate", "store">> /\ Head(t) = "truncate"
      BY <2>1
    <3> QED BY <1>1, <3>1 DEF CreatingToErase
  <2>2. CASE t = <<"store", "read", "erase", "truncate", "store">>
    <3>1. Tail(t) = ReadAndErase /\ Head(t) = "store"
      BY <2>2 DEF ReadAndErase
    <3> QED BY <1>1, <3>1
  <2>3. CASE t = <<"truncate", "store", "erase", "truncate", "store">>
    <3>1. Tail(t) = <<"store", "erase", "truncate", "store">> /\ Head(t) = "truncate"
      BY <2>3
    <3> QED BY <1>1, <3>1 DEF CreatingToErase
  <2>4. CASE t = <<"store", "erase", "truncate", "store">>
    <3>1. Tail(t) = EraseAndWrite /\ Head(t) = "store"
      BY <2>4 DEF EraseAndWrite
    <3> QED BY <1>1, <3>1
  <2> QED BY <1>1, <2>1, <2>2, <2>3, <2>4 DEF CreatingToErase
<1>2. CASE t = <<"read", "read", "erase", "truncate", "store">>
  BY <1>2 DEF ReadAndErase
<1>3. CASE t = ReadAndErase
  BY <1>3 DEF ReadAndErase, EraseAndWrite
<1>4. CASE t = EraseAndWrite
  BY <1>4 DEF EraseAndWrite, Write
<1>5. CASE t = Write
  BY <1>5 DEF Write
<1>6. CASE t = <<"store">>
  BY <1>6
<1> QED BY <1>1, <1>2, <1>3, <1>4, <1>5, <1>6 DEF ExitTodo

-----------------------------------------------------------------------------
(* Types.                                                                  *)

LEMMA TypesInit == Init => TypeOK
<1> SUFFICES ASSUME Init PROVE TypeOK
  OBVIOUS
<1>1. <<>> \in Seq(Step)
  OBVIOUS
<1>2. life \in [Process -> Life] /\ todo \in [Process -> Seq(Step)] /\ mRoot \in [Process -> SUBSET Key]
  BY <1>1 DEF Init, Life
<1>3. \A p \in Process : Idle(p)
  BY DEF Init, Idle
<1>4. keyOf \in [Process -> Key] /\ disturbed \in BOOLEAN /\ fileState = "missing" /\ fileKeys = {}
  BY DEF Init
<1> QED BY <1>2, <1>3, <1>4 DEF TypeOK

\* Only a client that is alive is in a call.
LEMMA InCallAlive ==
    ASSUME TypeOK, NEW p \in Process, ~Idle(p)
    PROVE  /\ Alive(p)
           /\ todo[p] \in Seq(Step) /\ todo[p] # <<>>
           /\ Head(todo[p]) \in Step /\ Tail(todo[p]) \in Seq(Step)
<1>1. Alive(p) /\ todo[p] \in Seq(Step) /\ todo[p] # <<>>
  BY DEF TypeOK, Idle
<1> QED BY <1>1, HeadTailProperties

LEMMA TypesNext == TypeOK /\ [Next]_vars => TypeOK'
<1> SUFFICES ASSUME TypeOK, [Next]_vars PROVE TypeOK'
  OBVIOUS
<1>1. CASE UNCHANGED vars
  BY <1>1 DEF TypeOK, vars, fileVars, Alive, Idle
<1>2. ASSUME NEW p \in Process, Launch(p) PROVE TypeOK'
  BY <1>2 DEF TypeOK, Launch, Becomes, Life, Alive, Idle, fileVars
<1>3. ASSUME NEW p \in Process, BrowserCreated(p) PROVE TypeOK'
  BY <1>3 DEF TypeOK, BrowserCreated, Becomes, Life, Alive, Idle, fileVars
<1>4. ASSUME NEW p \in Process, CheckCefWindow(p) PROVE TypeOK'
  <2>1. <<"read", "test">> \in Seq(Step)
    BY DEF Step
  <2> QED BY <1>4, <2>1 DEF TypeOK, CheckCefWindow, Calls, Alive, Idle, fileVars
<1>5. ASSUME NEW p \in Process, Exit(p) PROVE TypeOK'
  <2>1. <<"read", "read", "erase", "truncate", "store">> \in Seq(Step)
    BY DEF Step
  <2> QED BY <1>5, <2>1 DEF TypeOK, Exit, Calls, Becomes, Life, Alive, Idle, fileVars
<1>6. ASSUME NEW p \in Process, Exited(p) PROVE TypeOK'
  BY <1>6 DEF TypeOK, Exited, Becomes, Life, Alive, Idle, fileVars
<1>7. ASSUME NEW p \in Process, Crash(p) PROVE TypeOK'
  <2>1. <<>> \in Seq(Step)
    OBVIOUS
  <2> QED BY <1>7, <2>1 DEF TypeOK, Crash, Calls, Becomes, Life, Alive, Idle, fileVars
<1>8. ASSUME NEW p \in Process, ReadRoot(p) PROVE TypeOK'
  <2>1. Alive(p) /\ Rest(p) \in Seq(Step)
    BY <1>8, InCallAlive DEF ReadRoot, Rest
  <2>2. <<"truncate", "store">> \in Seq(Step)
    BY DEF Step
  <2>3. <<"truncate", "store">> \o Rest(p) \in Seq(Step)
    BY <2>1, <2>2, ConcatProperties
  <2>4. mRoot' \in [Process -> SUBSET Key]
    BY <1>8 DEF TypeOK, ReadRoot
  <2>5. todo' \in [Process -> Seq(Step)] /\ \A q \in Process : q # p => todo'[q] = todo[q]
    BY <1>8, <2>1, <2>3 DEF TypeOK, ReadRoot, Calls
  <2>6. UNCHANGED <<keyOf, fileState, fileKeys, life, disturbed>>
    BY <1>8 DEF ReadRoot, fileVars
  <2>7. \A q \in Process : ~Alive(q)' => Idle(q)'
    BY <2>1, <2>5, <2>6 DEF TypeOK, Alive, Idle
  <2> QED BY <2>4, <2>5, <2>6, <2>7 DEF TypeOK
<1>9. ASSUME NEW p \in Process, OpenTruncated(p) PROVE TypeOK'
  <2>1. Alive(p) /\ Rest(p) \in Seq(Step)
    BY <1>9, InCallAlive DEF OpenTruncated, Rest
  <2> QED BY <1>9, <2>1 DEF TypeOK, OpenTruncated, Calls, Alive, Idle
<1>10. ASSUME NEW p \in Process, Store(p) PROVE TypeOK'
  <2>1. Alive(p) /\ Rest(p) \in Seq(Step)
    BY <1>10, InCallAlive DEF Store, Rest
  <2> QED BY <1>10, <2>1 DEF TypeOK, Store, Calls, Alive, Idle
<1>11. ASSUME NEW p \in Process, HasBrowser(p) PROVE TypeOK'
  <2>1. Alive(p) /\ Rest(p) \in Seq(Step)
    BY <1>11, InCallAlive DEF HasBrowser, Rest
  <2>2. <<"read", "set", "truncate", "store">> \in Seq(Step)
    BY DEF Step
  <2> QED BY <1>11, <2>1, <2>2 DEF TypeOK, HasBrowser, Calls, Alive, Idle, fileVars
<1>12. ASSUME NEW p \in Process, SetConfigValue(p) PROVE TypeOK'
  <2>1. Alive(p) /\ Rest(p) \in Seq(Step)
    BY <1>12, InCallAlive DEF SetConfigValue, Rest
  <2> QED BY <1>12, <2>1 DEF TypeOK, SetConfigValue, Calls, Alive, Idle, fileVars
<1>13. ASSUME NEW p \in Process, EraseKey(p) PROVE TypeOK'
  <2>1. Alive(p) /\ Rest(p) \in Seq(Step) /\ <<>> \in Seq(Step)
    BY <1>13, InCallAlive DEF EraseKey, Rest
  <2>2. CASE mRoot[p] = {}
    BY <1>13, <2>1, <2>2 DEF TypeOK, EraseKey, Calls, Becomes, Life, Alive, Idle, fileVars
  <2>3. CASE mRoot[p] # {}
    BY <1>13, <2>1, <2>3 DEF TypeOK, EraseKey, Calls, Life, Alive, Idle, fileVars
  <2> QED BY <2>2, <2>3
<1> QED BY <1>1, <1>2, <1>3, <1>4, <1>5, <1>6, <1>7, <1>8, <1>9, <1>10, <1>11,
           <1>12, <1>13 DEF Next, CallStep

\* The fields of the model keep their types, only a complete file has flags,
\* and only a client that runs is in the middle of a call, however many
\* clients write the file at once.
THEOREM TypeCorrect == Spec => []TypeOK
BY TypesInit, TypesNext, PTL DEF Spec

-----------------------------------------------------------------------------
(* One client at a time.                                                   *)

LEMMA OnlyClient ==
    ASSUME Inv, ~disturbed, NEW p \in Process, Alive(p)
    PROVE  /\ ClientInv(life[p], keyOf[p], todo[p], mRoot[p], fileKeys)
           /\ \A q \in Process : Alive(q) => q = p
BY DEF Inv, QuietInv

\* A step of the client that is alive has to look at its own state only.
LEMMA QuietStep ==
    ASSUME Inv, ~disturbed, TypeOK', UNCHANGED <<keyOf, disturbed>>,
           NEW p \in Process, Alive(p),
           \A q \in Process \ {p} : life'[q] = life[q] /\ mRoot'[q] = mRoot[q],
           life'[p] # "off",
           \/ /\ Alive(p)'
              /\ ClientInv(life'[p], keyOf[p], todo'[p], mRoot'[p], fileKeys')
           \/ ~Alive(p)' /\ fileKeys' = {}
    PROVE  Inv'
<1>1. \A q \in Process : Alive(q) => q = p
  BY OnlyClient
<1>2. \A q \in Process : Alive(q)' => q = p
  BY <1>1 DEF Alive
<1>3. \A q \in Process : life'[q] = "off" => mRoot'[q] = {}
  BY DEF Inv
<1>4. QuietInv'
  BY <1>2 DEF QuietInv
<1> QED BY <1>3, <1>4 DEF Inv

\* Of clients that were disturbed nothing is claimed but their types.
LEMMA DisturbedStep ==
    ASSUME Inv, disturbed', TypeOK',
           \A q \in Process : life'[q] = "off" =>
               life[q] = "off" /\ mRoot'[q] = mRoot[q]
    PROVE  Inv'
BY DEF Inv

LEMMA InvInit == Init => Inv
<1> SUFFICES ASSUME Init PROVE Inv
  OBVIOUS
<1>1. \A p \in Process : ~Alive(p) /\ mRoot[p] = {}
  BY DEF Init, Alive
<1>2. fileKeys = {}
  BY DEF Init
<1> QED BY <1>1, <1>2, TypesInit DEF Inv, QuietInv

LEMMA LaunchInv ==
    ASSUME Inv, TypeOK', NEW p \in Process, Launch(p)
    PROVE  Inv'
<1>1. /\ \A q \in Process : life'[q] = IF q = p THEN "running" ELSE life[q]
      /\ UNCHANGED <<keyOf, fileKeys, todo, mRoot>>
      /\ life[p] = "off"
  BY DEF Launch, Becomes, Inv, TypeOK, fileVars
<1>2. \A q \in Process : life'[q] = "off" => life[q] = "off" /\ mRoot'[q] = {}
  BY <1>1 DEF Inv
<1>3. CASE disturbed'
  BY <1>1, <1>2, <1>3, DisturbedStep
<1>4. CASE ~disturbed'
  <2>1. ~disturbed /\ \A q \in Process : ~Alive(q)
    BY <1>4 DEF Launch
  <2>2. fileKeys = {} /\ mRoot[p] = {} /\ todo[p] = <<>>
    BY <2>1, <1>1 DEF Inv, QuietInv, TypeOK, Idle
  <2>3. \A q \in Process : Alive(q)' => q = p
    BY <1>1, <2>1 DEF Alive
  <2>4. ClientInv(life'[p], keyOf'[p], todo'[p], mRoot'[p], fileKeys')
    BY <1>1, <2>2 DEF ClientInv
  <2>5. Alive(p)'
    BY <1>1 DEF Alive
  <2>6. QuietInv'
    BY <2>3, <2>4, <2>5 DEF QuietInv
  <2> QED BY <2>6, <1>2 DEF Inv
<1> QED BY <1>3, <1>4

LEMMA BrowserCreatedInv ==
    ASSUME Inv, TypeOK', NEW p \in Process, BrowserCreated(p)
    PROVE  Inv'
<1>1. /\ \A q \in Process : life'[q] = IF q = p THEN "browser" ELSE life[q]
      /\ UNCHANGED <<keyOf, fileKeys, todo, mRoot, disturbed>>
      /\ life[p] = "running" /\ todo[p] = <<>>
  BY DEF BrowserCreated, Becomes, Inv, TypeOK, fileVars, Idle
<1>2. CASE disturbed
  BY <1>1, <1>2, DisturbedStep
<1>3. CASE ~disturbed
  <2>1. Alive(p) /\ Alive(p)'
    BY <1>1 DEF Alive
  <2>2. ClientInv(life[p], keyOf[p], todo[p], mRoot[p], fileKeys)
    BY <1>3, <2>1, OnlyClient
  <2>3. <<>> # Test /\ <<>> \notin CreatingToSet
    BY DEF Test, CreatingToSet
  <2>4. BrowserInv(keyOf[p], todo'[p], mRoot'[p], fileKeys')
    BY <1>1, <2>3 DEF BrowserInv, BrowserTodo
  <2>5. ClientInv(life'[p], keyOf[p], todo'[p], mRoot'[p], fileKeys')
    BY <1>1, <2>2, <2>4 DEF ClientInv
  <2> QED BY <1>1, <1>3, <2>1, <2>5, QuietStep
<1> QED BY <1>2, <1>3

LEMMA CheckCefWindowInv ==
    ASSUME Inv, TypeOK', NEW p \in Process, CheckCefWindow(p)
    PROVE  Inv'
<1>1. /\ todo'[p] = <<"read", "test">>
      /\ UNCHANGED <<keyOf, fileKeys, life, mRoot, disturbed>>
      /\ life[p] = "browser"
  BY DEF CheckCefWindow, Calls, Inv, TypeOK, fileVars
<1>2. CASE disturbed
  BY <1>1, <1>2, DisturbedStep
<1>3. CASE ~disturbed
  <2>1. Alive(p) /\ Alive(p)'
    BY <1>1 DEF Alive
  <2>2. ClientInv(life[p], keyOf[p], todo[p], mRoot[p], fileKeys)
    BY <1>3, <2>1, OnlyClient
  <2>3. <<"read", "test">> # Test /\ <<"read", "test">> \notin CreatingToSet
    BY DEF Test, CreatingToSet
  <2>4. BrowserInv(keyOf[p], todo'[p], mRoot'[p], fileKeys')
    BY <1>1, <2>3 DEF BrowserInv, BrowserTodo
  <2>5. ClientInv(life'[p], keyOf[p], todo'[p], mRoot'[p], fileKeys')
    BY <1>1, <2>2, <2>4 DEF ClientInv
  <2> QED BY <1>1, <1>3, <2>1, <2>5, QuietStep
<1> QED BY <1>2, <1>3

LEMMA ExitStartInv ==
    ASSUME Inv, TypeOK', NEW p \in Process, Exit(p)
    PROVE  Inv'
<1> DEFINE t == <<"read", "read", "erase", "truncate", "store">>
<1>1. /\ \A q \in Process : life'[q] = IF q = p THEN "exiting" ELSE life[q]
      /\ todo'[p] = t
      /\ UNCHANGED <<keyOf, fileKeys, mRoot, disturbed>>
      /\ life[p] \in {"running", "browser"}
  BY DEF Exit, Calls, Becomes, Inv, TypeOK, fileVars
<1>2. CASE disturbed
  BY <1>1, <1>2, DisturbedStep
<1>3. CASE ~disturbed
  <2>1. Alive(p) /\ Alive(p)'
    BY <1>1 DEF Alive
  <2>2. ClientInv(life[p], keyOf[p], todo[p], mRoot[p], fileKeys)
    BY <1>3, <2>1, OnlyClient
  <2>3. t # <<>> /\ t \notin {Write, <<"store">>} /\ t # EraseAndWrite
    BY DEF Write, EraseAndWrite
  <2>4. ExitInv(todo'[p], mRoot'[p], fileKeys')
    BY <1>1, <2>3 DEF ExitInv, ExitTodo
  <2>5. ClientInv(life'[p], keyOf[p], todo'[p], mRoot'[p], fileKeys')
    BY <1>1, <2>2, <2>4 DEF ClientInv
  <2> QED BY <1>1, <1>3, <2>1, <2>5, QuietStep
<1> QED BY <1>2, <1>3

LEMMA ExitedInv ==
    ASSUME Inv, TypeOK', NEW p \in Process, Exited(p)
    PROVE  Inv'
<1>1. /\ \A q \in Process : life'[q] = IF q = p THEN "exited" ELSE life[q]
      /\ UNCHANGED <<keyOf, fileKeys, todo, mRoot, disturbed>>
      /\ life[p] = "exiting" /\ todo[p] = <<>>
  BY DEF Exited, Becomes, Inv, TypeOK, fileVars, Idle
<1>2. CASE disturbed
  BY <1>1, <1>2, DisturbedStep
<1>3. CASE ~disturbed
  <2>1. Alive(p) /\ ~Alive(p)'
    BY <1>1 DEF Alive
  <2>2. ClientInv(life[p], keyOf[p], todo[p], mRoot[p], fileKeys)
    BY <1>3, <2>1, OnlyClient
  <2>3. fileKeys = {}
    BY <1>1, <2>2 DEF ClientInv, ExitInv
  <2> QED BY <1>1, <1>3, <2>1, <2>3, QuietStep
<1> QED BY <1>2, <1>3

LEMMA CrashInv ==
    ASSUME Inv, TypeOK', NEW p \in Process, Crash(p)
    PROVE  Inv'
<1>1. /\ \A q \in Process : life'[q] = IF q = p THEN "crashed" ELSE life[q]
      /\ UNCHANGED mRoot /\ disturbed'
  BY DEF Crash, Becomes, Inv, TypeOK
<1> QED BY <1>1, DisturbedStep

-----------------------------------------------------------------------------
(* The steps of the calls.                                                 *)

\* What the step of a call has to show: nothing once clients were disturbed.
LEMMA CallerStep ==
    ASSUME Inv, TypeOK', UNCHANGED <<keyOf, disturbed, life>>,
           NEW p \in Process, Alive(p),
           \A q \in Process \ {p} : mRoot'[q] = mRoot[q],
           ~disturbed =>
               /\ fileKeys' \subseteq {keyOf[p]} /\ mRoot'[p] \subseteq {keyOf[p]}
               /\ \/ life[p] = "browser" /\ BrowserInv(keyOf[p], todo'[p], mRoot'[p], fileKeys')
                  \/ life[p] = "exiting" /\ ExitInv(todo'[p], mRoot'[p], fileKeys')
    PROVE  Inv'
<1>1. Alive(p)' /\ life'[p] # "off"
  BY DEF Alive
<1>2. CASE disturbed
  <2>1. \A q \in Process : life'[q] = "off" => life[q] = "off" /\ mRoot'[q] = mRoot[q]
    BY <1>1
  <2> QED BY <1>2, <2>1, DisturbedStep
<1>3. CASE ~disturbed
  <2>1. ClientInv(life'[p], keyOf[p], todo'[p], mRoot'[p], fileKeys')
    BY <1>3 DEF ClientInv
  <2>2. \A q \in Process \ {p} : life'[q] = life[q] /\ mRoot'[q] = mRoot[q]
    OBVIOUS
  <2> QED BY <1>1, <1>3, <2>1, <2>2, QuietStep
<1> QED BY <1>2, <1>3

\* What a client in the middle of a call has to show for.
LEMMA InCall ==
    ASSUME Inv, NEW p \in Process, ~Idle(p)
    PROVE  /\ Alive(p) /\ todo[p] # <<>> /\ Tail(todo[p]) = Rest(p)
           /\ ~disturbed =>
                  /\ fileKeys \subseteq {keyOf[p]} /\ mRoot[p] \subseteq {keyOf[p]}
                  /\ \/ life[p] = "browser" /\ BrowserInv(keyOf[p], todo[p], mRoot[p], fileKeys)
                     \/ life[p] = "exiting" /\ ExitInv(todo[p], mRoot[p], fileKeys)
<1>1. Alive(p) /\ todo[p] # <<>> /\ Tail(todo[p]) = Rest(p)
  BY InCallAlive DEF Inv, Rest
<1>2. ~disturbed => ClientInv(life[p], keyOf[p], todo[p], mRoot[p], fileKeys)
  BY <1>1, OnlyClient
<1> QED BY <1>1, <1>2 DEF ClientInv

LEMMA ReadRootInv ==
    ASSUME Inv, TypeOK', NEW p \in Process, ReadRoot(p)
    PROVE  Inv'
<1> DEFINE k == keyOf[p]
           t == todo[p]
           u == todo'[p]
           f == fileKeys
<1>1. /\ ~Idle(p) /\ Head(t) = "read"
      /\ u = (IF fileState = "missing" THEN Write \o Rest(p) ELSE Rest(p))
      /\ mRoot'[p] = fileKeys
      /\ \A q \in Process \ {p} : mRoot'[q] = mRoot[q]
      /\ UNCHANGED <<keyOf, fileKeys, life, disturbed>>
      /\ fileState = "missing" => f = {}
  BY DEF ReadRoot, Calls, Inv, TypeOK, fileVars, Write
<1>2. ASSUME ~disturbed, life[p] = "browser", BrowserInv(k, t, mRoot[p], f)
      PROVE  BrowserInv(k, u, f, f)
  <2>1. \/ t = <<"read", "test">> /\ Rest(p) = Test
        \/ t = <<"read", "set", "truncate", "store">> /\ Rest(p) = SetAndWrite
    BY <1>1, <1>2, InCall, BrowserSteps DEF BrowserInv
  <2>2. CASE u = Test
    <3>1. Test \notin CreatingToSet
      BY DEF Test, CreatingToSet
    <3> QED BY <2>2, <3>1 DEF BrowserInv, BrowserTodo
  <2>3. CASE Rest(p) = SetAndWrite /\ u = SetAndWrite
    <3>1. SetAndWrite \notin CreatingToSet /\ SetAndWrite \notin {<<>>, <<"read", "test">>, Test}
      BY DEF SetAndWrite, Test, CreatingToSet
    <3>2. t = <<"read", "set", "truncate", "store">>
      BY <2>1, <2>3, <3>1
    <3>3. t \notin {<<>>, <<"read", "test">>, Test}
      BY <3>2 DEF Test
    <3>4. k \notin f
      BY <1>2, <3>3 DEF BrowserInv
    <3> QED BY <2>3, <3>1, <3>4 DEF BrowserInv, BrowserTodo
  <2>4. CASE f = {} /\ u \in {Write \o Test, Write \o SetAndWrite}
    <3>1. u \in Creating \cup CreatingToSet
      BY <2>4, CreateFirst DEF Creating, CreatingToSet, Test
    <3>2. u # Test
      BY <3>1 DEF Creating, CreatingToSet, Test
    <3> QED BY <2>4, <3>1, <3>2 DEF BrowserInv, BrowserTodo
  <2> QED BY <1>1, <2>1, <2>2, <2>3, <2>4
<1>3. ASSUME ~disturbed, life[p] = "exiting", ExitInv(t, mRoot[p], f)
      PROVE  ExitInv(u, f, f)
  <2>1. Rest(p) \in {ReadAndErase, EraseAndWrite}
    BY <1>1, <1>3, InCall, ExitSteps DEF ExitInv
  <2>2. CASE u \in {ReadAndErase, EraseAndWrite}
    <3>1. u \notin {<<>>, Write, <<"store">>}
      BY <2>2 DEF ReadAndErase, EraseAndWrite, Write
    <3> QED BY <2>2, <3>1 DEF ExitInv, ExitTodo
  <2>3. CASE f = {} /\ u \in {Write \o ReadAndErase, Write \o EraseAndWrite}
    <3>1. u \in CreatingToErase
      BY <2>3, CreateFirst DEF CreatingToErase
    <3> QED BY <2>3, <3>1 DEF ExitInv, ExitTodo
  <2> QED BY <1>1, <2>1, <2>2, <2>3
<1> QED BY <1>1, <1>2, <1>3, InCall, CallerStep

LEMMA OpenTruncatedInv ==
    ASSUME Inv, TypeOK', NEW p \in Process, OpenTruncated(p)
    PROVE  Inv'
<1> DEFINE k == keyOf[p]
           t == todo[p]
           r == mRoot[p]
<1>1. /\ ~Idle(p) /\ Head(t) = "truncate"
      /\ todo'[p] = Rest(p) /\ fileKeys' = {}
      /\ UNCHANGED <<keyOf, life, mRoot, disturbed>>
  BY DEF OpenTruncated, Calls, Inv, TypeOK
<1>2. ASSUME ~disturbed, life[p] = "browser", BrowserInv(k, t, r, fileKeys)
      PROVE  BrowserInv(k, Rest(p), r, {})
  <2>1. \/ t = Write /\ Rest(p) = <<"store">>
        \/ t \in Creating /\ Rest(p) = <<"store", "test">>
        \/ t \in CreatingToSet /\ Rest(p) = <<"store", "set", "truncate", "store">>
    BY <1>1, <1>2, InCall, BrowserSteps DEF BrowserInv
  <2>2. CASE Rest(p) = <<"store">>
    <3>1. <<"store">> # Test /\ <<"store">> \notin CreatingToSet
      BY DEF Test, CreatingToSet
    <3> QED BY <2>2, <3>1 DEF BrowserInv, BrowserTodo
  <2>3. CASE Rest(p) = <<"store", "test">>
    <3>1. <<"store", "test">> # Test /\ <<"store", "test">> \notin CreatingToSet
      BY DEF Test, CreatingToSet
    <3> QED BY <2>3, <3>1 DEF BrowserInv, BrowserTodo, Creating
  <2>4. CASE t \in CreatingToSet /\ Rest(p) = <<"store", "set", "truncate", "store">>
    <3>1. <<"store", "set", "truncate", "store">> # Test
      BY DEF Test
    <3> QED BY <1>2, <2>4, <3>1 DEF BrowserInv, BrowserTodo, CreatingToSet
  <2> QED BY <2>1, <2>2, <2>3, <2>4
<1>3. ASSUME ~disturbed, life[p] = "exiting", ExitInv(t, r, fileKeys)
      PROVE  ExitInv(Rest(p), r, {})
  <2>1. \/ t = Write /\ Rest(p) = <<"store">>
        \/ Rest(p) \in CreatingToErase
    BY <1>1, <1>3, InCall, ExitSteps DEF ExitInv
  <2>2. CASE t = Write /\ Rest(p) = <<"store">>
    <3>1. <<"store">> # EraseAndWrite
      BY DEF EraseAndWrite
    <3> QED BY <1>3, <2>2, <3>1 DEF ExitInv, ExitTodo
  <2>3. CASE Rest(p) \in CreatingToErase
    <3>1. Rest(p) # <<>> /\ Rest(p) # EraseAndWrite
      BY <2>3 DEF CreatingToErase, EraseAndWrite
    <3>2. Rest(p) # Write /\ Rest(p) # <<"store">>
      <4>1. \A c \in CreatingToErase : Len(c) # 2 /\ Len(c) # 1
        BY DEF CreatingToErase
      <4>2. Len(Write) = 2 /\ Len(<<"store">>) = 1
        BY DEF Write
      <4> QED BY <2>3, <4>1, <4>2, Zenon
    <3> QED BY <2>3, <3>1, <3>2 DEF ExitInv, ExitTodo
  <2> QED BY <2>1, <2>2, <2>3
<1> QED BY <1>1, <1>2, <1>3, InCall, CallerStep

LEMMA StoreInv ==
    ASSUME Inv, TypeOK', NEW p \in Process, Store(p)
    PROVE  Inv'
<1> DEFINE k == keyOf[p]
           t == todo[p]
           r == mRoot[p]
<1>1. /\ ~Idle(p) /\ Head(t) = "store"
      /\ todo'[p] = Rest(p) /\ fileKeys' = r
      /\ UNCHANGED <<keyOf, life, mRoot, disturbed>>
  BY DEF Store, Calls, Inv, TypeOK
<1>2. ASSUME ~disturbed, life[p] = "browser", BrowserInv(k, t, r, fileKeys)
      PROVE  BrowserInv(k, Rest(p), r, r)
  <2>1. \/ t = <<"store">> /\ Rest(p) = <<>>
        \/ t \in Creating /\ Rest(p) = Test
        \/ t \in CreatingToSet /\ Rest(p) = SetAndWrite
    BY <1>1, <1>2, InCall, BrowserSteps DEF BrowserInv
  <2>2. CASE Rest(p) \in {<<>>, Test}
    <3>1. <<>> \notin CreatingToSet /\ Test \notin CreatingToSet
      BY DEF Test, CreatingToSet
    <3> QED BY <2>2, <3>1 DEF BrowserInv, BrowserTodo
  <2>3. CASE t \in CreatingToSet /\ Rest(p) = SetAndWrite
    <3>1. SetAndWrite # Test /\ SetAndWrite \notin CreatingToSet
      BY DEF Test, CreatingToSet, SetAndWrite
    <3>2. r = {}
      BY <1>2, <2>3 DEF BrowserInv
    <3> QED BY <2>3, <3>1, <3>2 DEF BrowserInv, BrowserTodo
  <2> QED BY <2>1, <2>2, <2>3
<1>3. ASSUME ~disturbed, life[p] = "exiting", ExitInv(t, r, fileKeys)
      PROVE  ExitInv(Rest(p), r, r)
  <2>1. \/ t = <<"store">> /\ Rest(p) = <<>>
        \/ Rest(p) \in {ReadAndErase, EraseAndWrite}
    BY <1>1, <1>3, InCall, ExitSteps DEF ExitInv
  <2>2. CASE t = <<"store">> /\ Rest(p) = <<>>
    <3>1. <<>> \notin {Write, EraseAndWrite}
      BY DEF Write, EraseAndWrite
    <3> QED BY <1>3, <2>2, <3>1 DEF ExitInv, ExitTodo
  <2>3. CASE Rest(p) \in {ReadAndErase, EraseAndWrite}
    <3>1. Rest(p) \notin {<<>>, Write, <<"store">>}
      BY <2>3 DEF ReadAndErase, EraseAndWrite, Write
    <3> QED BY <2>3, <3>1 DEF ExitInv, ExitTodo
  <2> QED BY <2>1, <2>2, <2>3
<1> QED BY <1>1, <1>2, <1>3, InCall, CallerStep

LEMMA HasBrowserInv ==
    ASSUME Inv, TypeOK', NEW p \in Process, HasBrowser(p)
    PROVE  Inv'
<1> DEFINE k == keyOf[p]
           t == todo[p]
           r == mRoot[p]
           f == fileKeys
           u == todo'[p]
<1>1. /\ ~Idle(p) /\ Head(t) = "test"
      /\ u = (IF k \in r THEN Rest(p) ELSE <<"read", "set", "truncate", "store">>)
      /\ UNCHANGED <<keyOf, fileKeys, life, mRoot, disturbed>>
  BY DEF HasBrowser, Calls, Inv, TypeOK, fileVars
<1>2. ASSUME ~disturbed, life[p] = "browser", BrowserInv(k, t, r, f)
      PROVE  BrowserInv(k, u, r, f)
  <2>1. t = Test /\ Rest(p) = <<>>
    BY <1>1, <1>2, InCall, BrowserSteps DEF BrowserInv
  <2>2. r = f
    BY <1>2, <2>1 DEF BrowserInv
  <2>3. CASE u = <<>>
    <3>1. <<>> \notin CreatingToSet /\ <<>> # Test
      BY DEF Test, CreatingToSet
    <3> QED BY <2>3, <3>1 DEF BrowserInv, BrowserTodo
  <2>4. CASE u = <<"read", "set", "truncate", "store">> /\ k \notin f
    <3>1. <<"read", "set", "truncate", "store">> \notin CreatingToSet
      BY DEF CreatingToSet
    <3>2. <<"read", "set", "truncate", "store">> # Test
      BY DEF Test
    <3> QED BY <2>4, <3>1, <3>2 DEF BrowserInv, BrowserTodo
  <2> QED BY <1>1, <2>1, <2>2, <2>3, <2>4
<1>3. ~disturbed /\ life[p] = "exiting" => ~ExitInv(t, r, f)
  BY <1>1, InCall, ExitSteps DEF ExitInv
<1> QED BY <1>1, <1>2, <1>3, InCall, CallerStep

LEMMA SetConfigValueInv ==
    ASSUME Inv, TypeOK', NEW p \in Process, SetConfigValue(p)
    PROVE  Inv'
<1> DEFINE k == keyOf[p]
           t == todo[p]
           f == fileKeys
<1>1. /\ ~Idle(p) /\ Head(t) = "set"
      /\ todo'[p] = Rest(p) /\ mRoot'[p] = mRoot[p] \cup {k}
      /\ \A q \in Process \ {p} : mRoot'[q] = mRoot[q]
      /\ UNCHANGED <<keyOf, fileKeys, life, disturbed>>
  BY DEF SetConfigValue, Calls, Inv, TypeOK, fileVars
<1>2. ASSUME ~disturbed, life[p] = "browser", BrowserInv(k, t, mRoot[p], f)
      PROVE  BrowserInv(k, todo'[p], mRoot'[p], f)
  <2>1. t = SetAndWrite /\ Rest(p) = Write
    BY <1>1, <1>2, InCall, BrowserSteps DEF BrowserInv
  <2>2. SetAndWrite \notin {<<>>, <<"read", "test">>, Test}
    BY DEF SetAndWrite, Test
  <2>3. k \notin f
    BY <1>2, <2>1, <2>2 DEF BrowserInv
  <2>4. Write # Test /\ Write \notin CreatingToSet
    BY DEF Write, Test, CreatingToSet
  <2> QED BY <1>1, <2>1, <2>3, <2>4 DEF BrowserInv, BrowserTodo
<1>3. ~disturbed /\ life[p] = "exiting" => ~ExitInv(t, mRoot[p], f)
  BY <1>1, InCall, ExitSteps DEF ExitInv
<1> QED BY <1>1, <1>2, <1>3, InCall, CallerStep

LEMMA EraseKeyInv ==
    ASSUME Inv, TypeOK', NEW p \in Process, EraseKey(p)
    PROVE  Inv'
<1> DEFINE k == keyOf[p]
           t == todo[p]
           f == fileKeys
<1>1. /\ ~Idle(p) /\ Head(t) = "erase"
      /\ \A q \in Process \ {p} : mRoot'[q] = mRoot[q]
      /\ UNCHANGED <<keyOf, fileKeys, disturbed>>
  BY DEF EraseKey, Inv, TypeOK, fileVars
<1>2. ~disturbed => /\ life[p] = "exiting" /\ t = EraseAndWrite
                    /\ Rest(p) = Write /\ mRoot[p] = f
  BY <1>1, InCall, BrowserSteps, ExitSteps DEF BrowserInv, ExitInv
<1>3. CASE mRoot[p] = {}
  <2>1. /\ UNCHANGED mRoot /\ life'[p] = "aborted"
        /\ \A q \in Process \ {p} : life'[q] = life[q]
    BY <1>3 DEF EraseKey, Becomes, Inv, TypeOK
  <2>2. CASE disturbed
    BY <1>1, <2>1, <2>2, DisturbedStep
  <2>3. CASE ~disturbed
    <3>1. Alive(p)
      BY <1>1, InCall
    <3>2. ~Alive(p)' /\ life'[p] # "off" /\ fileKeys' = {}
      BY <1>1, <1>2, <1>3, <2>1, <2>3 DEF Alive
    <3> QED BY <1>1, <2>1, <2>3, <3>1, <3>2, QuietStep
  <2> QED BY <2>2, <2>3
<1>4. CASE mRoot[p] # {}
  <2>1. /\ mRoot'[p] = mRoot[p] \ {k} /\ todo'[p] = Rest(p) /\ UNCHANGED life
    BY <1>4 DEF EraseKey, Calls, Inv, TypeOK
  <2>2. ASSUME ~disturbed
        PROVE  ExitInv(todo'[p], mRoot'[p], f) /\ mRoot'[p] \subseteq {k}
    <3>1. mRoot'[p] = {} /\ todo'[p] = Write
      BY <1>1, <1>2, <2>1, <2>2, InCall
    <3>2. Write # <<>> /\ Write # EraseAndWrite
      BY DEF Write, EraseAndWrite
    <3> QED BY <3>1, <3>2 DEF ExitInv, ExitTodo
  <2> QED BY <1>1, <1>2, <2>1, <2>2, InCall, CallerStep
<1> QED BY <1>3, <1>4

LEMMA InvNext == Inv /\ [Next]_vars => Inv'
<1> SUFFICES ASSUME Inv, [Next]_vars PROVE Inv'
  OBVIOUS
<1>1. TypeOK'
  BY TypesNext DEF Inv
<1>2. CASE UNCHANGED vars
  BY <1>1, <1>2 DEF Inv, QuietInv, Alive, vars, fileVars
<1>3. CASE Next
  BY <1>1, <1>3, LaunchInv, BrowserCreatedInv, CheckCefWindowInv, ExitStartInv,
     ExitedInv, CrashInv, ReadRootInv, OpenTruncatedInv, StoreInv, HasBrowserInv,
     SetConfigValueInv, EraseKeyInv DEF Next, CallStep
<1> QED BY <1>2, <1>3

LEMMA Invariant == Spec => []Inv
BY InvInit, InvNext, PTL DEF Spec

-----------------------------------------------------------------------------
(* Theorems.                                                               *)

\* As long as clients do not overlap and none is killed, a flag that the host
\* reads is that of a client that has a browser or is just erasing it: no
\* flag of an earlier client is left, whatever keys they have.
THEOREM FlagIsTrue == Spec => []FlagMeansBrowser
<1>1. ASSUME Inv PROVE FlagMeansBrowser
  <2> SUFFICES ASSUME ~disturbed, NEW k \in fileKeys
               PROVE  \E p \in Process : keyOf[p] = k /\ life[p] \in {"browser", "exiting"}
    BY DEF FlagMeansBrowser
  <2>1. PICK p \in Process : Alive(p)
    BY <1>1 DEF Inv, QuietInv
  <2>2. ClientInv(life[p], keyOf[p], todo[p], mRoot[p], fileKeys)
    BY <1>1, <2>1, OnlyClient
  <2> QED BY <2>2 DEF ClientInv
<1> QED BY <1>1, Invariant, PTL

\* No further CheckCefWindow of the host rewrites the file of a client that
\* has its flag in it.
THEOREM FlagStays == Spec => FlagKept
<1>1. ASSUME Inv, [Next]_vars
      PROVE  \A p \in Process :
                 ~disturbed /\ keyOf[p] \in fileKeys /\ life[p] = "browser" => keyOf[p] \in fileKeys'
  <2> SUFFICES ASSUME NEW p \in Process, ~disturbed, keyOf[p] \in fileKeys,
                      life[p] = "browser", fileKeys' # fileKeys
               PROVE  FALSE
    OBVIOUS
  <2>1. PICK q \in Process : /\ ~Idle(q) /\ Head(todo[q]) \in {"truncate", "store"}
    BY <1>1 DEF Next, CallStep, vars, fileVars, Launch, BrowserCreated, CheckCefWindow,
                Exit, Exited, Crash, ReadRoot, OpenTruncated, Store, HasBrowser,
                SetConfigValue, EraseKey
  <2>2. q = p
    <3>1. Alive(q) /\ Alive(p)
      BY <1>1, <2>1, InCall DEF Alive
    <3> QED BY <1>1, <3>1, OnlyClient
  <2>3. BrowserInv(keyOf[p], todo[p], mRoot[p], fileKeys)
    BY <1>1, <2>1, <2>2, InCall
  <2>4. todo[p] \in {<<>>, <<"read", "test">>, Test}
    BY <2>3 DEF BrowserInv
  <2> QED BY <2>1, <2>2, <2>4 DEF Test, Idle
<1>2. Inv /\ [Next]_vars =>
          [\A p \in Process :
              ~disturbed /\ keyOf[p] \in fileKeys /\ life[p] = "browser" => keyOf[p] \in fileKeys']_vars
  BY <1>1
<1> QED BY <1>2, Invariant, PTL DEF Spec, FlagKept
=============================================================================
