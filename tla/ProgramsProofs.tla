--------------------------- MODULE ProgramsProofs ---------------------------
(***************************************************************************)
(* The programs beside each other, for any constants that are as           *)
(* ProgramsConstants says: the single-file orchestrator, with the          *)
(* accounts it keeps of its attempts and the entrypoint it protects, for   *)
(* any number of starts and interruptions between any two writes; the      *)
(* chess match; the window's one-shot operations; Demo5's page, index and  *)
(* personal store; the messaging assistant; the disk scanner, whose proof  *)
(* is ScanProofs' own, taken once for each of its two instances; and at    *)
(* last all of them together.                                              *)
(***************************************************************************)
EXTENDS Programs, FiniteSetTheorems, TLAPS

File == [path : Paths, content : Contents]

Fresh == [s \in S |-> [status |-> "pending", count |-> 0]]
Known == [S -> [status : {"pending", "in_progress", "passed", "failed", "escalated"}, count : Nat]]

Types ==
  /\ mem \in Known /\ (saved = Unreadable \/ saved \in Known)
  /\ cur \in S /\ forced \in {0} \union S /\ (IF pc = "off" THEN left = 0 ELSE left \in S) /\ latest \in {0} \union S /\ failure \in {0} \union S
  /\ asked \in [S -> Nat]
  /\ logged \in [S -> [records : Nat, passed : BOOLEAN]] /\ refused \in [S -> Nat] /\ trying \in BOOLEAN
  /\ files \in Seq(File)

\* What is known of the specs bears out what was sent and logged.
Sound(of) == \A s \in S : /\ asked[s] <= of[s].count /\ logged[s].records <= of[s].count + refused[s]
                          /\ refused[s] <= of[s].count
                          /\ of[s].count <= Specs[s].budget + 1
                          /\ of[s].status = "passed" => logged[s].passed

Beginning == pc = "ask" \/ (pc \in {"save", "saving"} /\ then = "ask")
Attempting == pc \in {"ask", "apply", "pass", "fail"}

\* While an attempt goes on the state that was saved with it counts it.
Counted == saved = Unreadable \/ \A s \in S : saved[s].count = mem[s].count

Accounts ==
  /\ pc # "off" => Sound(mem)
  /\ saved # Unreadable => Sound(saved)
  /\ pc = "saving" => saved = Unreadable
  /\ pc \in {"ask", "apply", "pass"} => trying
  /\ trying => Attempting \/ (pc \in {"save", "saving"} /\ then # "ask")
  /\ Attempting \/ trying => Counted
  /\ Beginning => asked[cur] < mem[cur].count
  /\ Beginning \/ Attempting => logged[cur].records < mem[cur].count + refused[cur]
  /\ Beginning \/ trying => refused[cur] < mem[cur].count
  /\ pc = "off" => mem = Fresh
  /\ pc \in {"save", "saving"} => then \in {"ask", "attempt", "ended"}
  /\ \A s \in S : asked[s] <= Specs[s].budget + 1

LEMMA FreshKnown == Fresh \in Known
BY DEF Fresh, Known

LEMMA KnownUpdates ==
    ASSUME Types, NEW st \in {"pending", "in_progress", "passed", "failed", "escalated"}, NEW n \in Nat
    PROVE  /\ [mem EXCEPT ![cur].status = st] \in Known
           /\ [mem EXCEPT ![cur] = [status |-> st, count |-> n]] \in Known
<1>1. [mem EXCEPT ![cur].status = st] \in Known
  BY DEF Types, Known
<1>2. [mem EXCEPT ![cur] = [status |-> st, count |-> n]] \in Known
  BY DEF Types, Known
<1>3. QED
  BY <1>1, <1>2

LEMMA TypesStep == SpecsGiven /\ Types /\ Accounts /\ [Next]_vars => Types'
<1> SUFFICES ASSUME SpecsGiven, Types, Accounts, [Next]_vars PROVE Types'
  OBVIOUS
<1>0. <<>> \in Seq(File) /\ 1 \in S /\ Answers \subseteq Seq(File) /\ \A s \in S \ {1} : s - 1 \in S
  <2>1. Answers \subseteq Seq(File)
    BY DEF SpecsGiven, File
  <2>2. 1 \in S /\ \A s \in S \ {1} : s - 1 \in S
    BY DEF SpecsGiven
  <2> QED BY <2>1, <2>2
<1>1. ASSUME Off, UNCHANGED <<saved, asked, refused>>, logged' \in [S -> [records : Nat, passed : BOOLEAN]],
             failure' \in {0} \union S
      PROVE  Types'
  <2>1. mem' \in Known /\ cur' = 1 /\ forced' = 0 /\ files' = <<>> /\ left' = 0 /\ latest' = 0 /\ pc' = "off" /\ trying' = FALSE
    BY <1>1, FreshKnown DEF Off, Fresh
  <2>2. QED
    BY <1>0, <1>1, <2>1 DEF Types
<1>2. CASE Start
  BY <1>2, <1>0 DEF Start, Types, mvars
<1>3. CASE Choose
  <2>1. CASE Chosen = {}
    BY <1>1, <1>3, <2>1 DEF Choose, Types
  <2>2. CASE Chosen # {}
    <3>1. Chosen \subseteq S
      BY DEF Chosen, Types
    <3>2. /\ cur' \in Chosen /\ pc # "off" /\ pc' # "off" /\ latest' = failure
          /\ UNCHANGED <<mem, forced, files, saved, logged, asked, refused, trying, left, failure>>
      BY <1>3, <2>2 DEF Choose
    <3>3. QED
      BY <3>1, <3>2 DEF Types
  <2>3. QED
    BY <2>1, <2>2
<1>4. CASE BeginAttempt
  <2>1. mem[cur].count + 1 \in Nat
    BY DEF Types, Known
  <2>2. mem' \in {[mem EXCEPT ![cur].status = "failed"], [mem EXCEPT ![cur] = [status |-> "in_progress", count |-> mem[cur].count + 1]]}
    BY <1>4 DEF BeginAttempt, Types, Known
  <2>3. mem' \in Known
    BY <2>1, <2>2, KnownUpdates
  <2>4. QED
    BY <1>4, <2>3 DEF BeginAttempt, Types, Save, Begun
<1>5. CASE OpenState \/ WriteState
  BY <1>5 DEF OpenState, WriteState, mvars, Types, Accounts, Begun, Save
<1>6. CASE Ask
  <2>1. PICK answer \in Answers : files' \in {answer, <<>>}
    BY <1>6 DEF Ask, Replies
  <2>2. files' \in Seq(File)
    BY <1>0, <2>1
  <2>3. asked' \in [S -> Nat] /\ pc # "off" /\ pc' # "off" /\ trying' \in BOOLEAN
       /\ UNCHANGED <<saved, logged, refused, mem, cur, forced, left, latest, failure>>
    BY <1>6 DEF Ask, Types
  <2>4. QED
    BY <2>2, <2>3 DEF Types
<1>7. CASE ApplyFile
  <2>1. files' \in Seq(File)
    <3>1. files # <<>> /\ files' \in {Tail(files), <<>>}
      BY <1>7 DEF ApplyFile
    <3>2. Tail(files) \in Seq(File)
      BY <3>1 DEF Types
    <3>3. QED
      BY <1>0, <3>1, <3>2
  <2>2. QED
    BY <1>7, <2>1 DEF ApplyFile, Types
<1>8. CASE Validate
  BY <1>8 DEF Validate, Types
<1>9. ASSUME NEW passed \in BOOLEAN, Logged(passed) PROVE logged' \in [S -> [records : Nat, passed : BOOLEAN]]
  BY <1>9 DEF Logged, Types
<1>10. refused \in [S -> Nat] /\ [refused EXCEPT ![cur] = @ + 1] \in [S -> Nat]
  BY DEF Types
<1>11. ASSUME Caught, UNCHANGED <<saved, mem, cur, forced, left, latest, files, asked>>, pc # "off",
              UNCHANGED logged \/ (\E passed \in BOOLEAN : Logged(passed)), failure' \in {0} \union S
       PROVE  Types'
  <2>1. logged' \in [S -> [records : Nat, passed : BOOLEAN]]
    BY <1>9, <1>11 DEF Types
  <2>2. QED
    BY <1>10, <1>11, <2>1 DEF Caught, Types
<1>12. CASE Pass
  <2>1. CASE Caught
    BY <1>11, <1>12, <2>1 DEF Pass, Types, Save, Caught
  <2>2. CASE ~Caught
    BY <1>9, <1>12, <2>2, KnownUpdates DEF Pass, Types, Save
  <2>3. QED
    BY <2>1, <2>2
<1>13. CASE Fail
  <2>0. failure' \in {0} \union S /\ logged' \in [S -> [records : Nat, passed : BOOLEAN]] /\ UNCHANGED <<saved, asked>> /\ pc # "off"
    <3>1. logged' \in [S -> [records : Nat, passed : BOOLEAN]]
      BY <1>9, <1>13 DEF Fail, HalfNoted, Types
    <3>2. QED
      BY <1>13, <3>1 DEF Fail, HalfNoted, Types
  <2>1. StatusAfter \in {"pending", "in_progress", "passed", "failed", "escalated"}
    BY DEF StatusAfter
  <2>2. CASE Off /\ UNCHANGED refused
    BY <1>1, <2>0, <2>2
  <2>3. CASE Caught /\ UNCHANGED <<then, mem, cur, forced, left, latest, files>>
    <3>1. pc' # "off" /\ refused' \in [S -> Nat] /\ trying' \in BOOLEAN
      BY <1>10, <2>3 DEF Caught
    <3>2. QED
      BY <2>0, <2>3, <3>1 DEF Types
  <2>4. CASE /\ failure' = cur /\ latest' = cur /\ mem' = [mem EXCEPT ![cur].status = StatusAfter] /\ pc' # "off"
             /\ UNCHANGED <<cur, forced, left, files, trying, refused>>
    BY <2>0, <2>1, <2>4, KnownUpdates DEF Types
  <2>5. QED
    BY <1>13, <2>2, <2>3, <2>4 DEF Fail, Save
<1>14. CASE SaveRefused
  BY <1>11, <1>14 DEF SaveRefused, Types
<1>15. CASE EndSpec
  BY <1>0, <1>1, <1>15 DEF EndSpec, Types
<1>16. CASE Interrupt
  BY <1>1, <1>16 DEF Interrupt, Types
<1>17. CASE UNCHANGED vars
  BY <1>17 DEF vars, mvars, Types
<1>18. QED
  BY <1>2, <1>3, <1>4, <1>5, <1>6, <1>7, <1>8, <1>12, <1>13, <1>14, <1>15, <1>16, <1>17 DEF Next, Work

\* A record is added.
Noted == Logged(TRUE) \/ Logged(FALSE)

\* What one record changes.
LEMMA NotedOnce ==
    ASSUME Types, NEW passed \in BOOLEAN, Logged(passed)
    PROVE  /\ \A s \in S : s # cur => logged'[s] = logged[s]
           /\ logged'[cur].records = logged[cur].records + 1
           /\ \A s \in S : logged[s].passed => logged'[s].passed
           /\ passed => logged'[cur].passed
<1>1. cur \in S /\ logged \in [S -> [records : Nat, passed : BOOLEAN]]
  BY DEF Types
<1>2. logged' = [logged EXCEPT ![cur] = [records |-> logged[cur].records + 1, passed |-> logged[cur].passed \/ passed]]
  BY DEF Logged
<1>3. logged'[cur] = [records |-> logged[cur].records + 1, passed |-> logged[cur].passed \/ passed]
  BY <1>1, <1>2
<1>4. \A s \in S : s # cur => logged'[s] = logged[s]
  BY <1>1, <1>2
<1>5. logged'[cur].records = logged[cur].records + 1
  BY <1>1, <1>3
<1>6. logged'[cur].passed = (logged[cur].passed \/ passed)
  BY <1>3
<1>7. logged[cur].passed => logged'[cur].passed
  BY <1>6
<1>8. passed => logged'[cur].passed
  BY <1>6
<1>9. QED
  BY <1>4, <1>5, <1>7, <1>8

\* The types of what is counted.
LEMMA CountTypes ==
    ASSUME SpecsGiven, Types
    PROVE  /\ cur \in S /\ \A s \in S : /\ mem[s].count \in Nat /\ asked[s] \in Nat /\ refused[s] \in Nat
                                       /\ logged[s].records \in Nat /\ Specs[s].budget \in Nat
           /\ saved # Unreadable => \A s \in S : saved[s].count \in Nat
<1>1. \A s \in S : Specs[s].budget \in Nat
  BY DEF SpecsGiven
<1>2. QED
  BY <1>1 DEF Types, Known

\* In an attempt a record may be added, and once the disk may refuse what the attempt writes of itself: the records
\* stay within what was counted and refused, for the state in memory and for the one that was saved.
LEMMA BooksKept ==
    ASSUME SpecsGiven, Types, Accounts, pc # "off", Attempting \/ trying, UNCHANGED asked,
           UNCHANGED logged \/ (Attempting /\ Noted),
           UNCHANGED refused \/ (trying /\ refused' = [refused EXCEPT ![cur] = @ + 1])
    PROVE  /\ \A s \in S : logged'[s].records <= mem[s].count + refused'[s] /\ refused'[s] <= mem[s].count
           /\ \A s \in S : logged[s].passed => logged'[s].passed
           /\ UNCHANGED saved /\ saved # Unreadable => Sound(saved)'
           /\ (refused' = [refused EXCEPT ![cur] = @ + 1]) => logged'[cur].records < mem[cur].count + refused'[cur]
<1>1. Sound(mem) /\ Counted /\ (trying => refused[cur] < mem[cur].count)
      /\ (Attempting => logged[cur].records < mem[cur].count + refused[cur]) /\ (saved # Unreadable => Sound(saved))
  BY DEF Accounts
<1>2. /\ cur \in S /\ \A s \in S : /\ mem[s].count \in Nat /\ asked[s] \in Nat /\ refused[s] \in Nat
                                   /\ logged[s].records \in Nat
  BY CountTypes
<1>3. /\ \A s \in S : s # cur => logged'[s] = logged[s]
      /\ \A s \in S : logged[s].passed => logged'[s].passed
      /\ logged'[cur].records = logged[cur].records \/ (Attempting /\ logged'[cur].records = logged[cur].records + 1)
  BY NotedOnce DEF Noted
<1>4. /\ \A s \in S : s # cur => refused'[s] = refused[s]
      /\ refused'[cur] = refused[cur] \/ (trying /\ refused'[cur] = refused[cur] + 1)
      /\ (refused' = [refused EXCEPT ![cur] = @ + 1]) => refused'[cur] = refused[cur] + 1
  BY <1>2 DEF Types
<1>5. logged[cur].records <= mem[cur].count + refused[cur] /\ refused[cur] <= mem[cur].count
  BY <1>1, <1>2 DEF Sound
<1>6. /\ logged'[cur].records <= mem[cur].count + refused'[cur] /\ refused'[cur] <= mem[cur].count
      /\ (refused'[cur] = refused[cur] + 1) => logged'[cur].records < mem[cur].count + refused'[cur]
  BY <1>1, <1>2, <1>3, <1>4, <1>5
<1>7. ASSUME NEW s \in S PROVE logged'[s].records <= mem[s].count + refused'[s] /\ refused'[s] <= mem[s].count
  <2>1. CASE s = cur
    BY <1>6, <2>1
  <2>2. CASE s # cur
    BY <1>1, <1>3, <1>4, <2>2 DEF Sound
  <2>3. QED
    BY <2>1, <2>2
<1>8. ASSUME UNCHANGED saved, saved # Unreadable PROVE Sound(saved)'
  <2>1. \A s \in S : saved[s].count = mem[s].count
    BY <1>1, <1>8 DEF Counted
  <2>2. QED
    BY <1>1, <1>3, <1>7, <1>8, <2>1 DEF Sound
<1>9. QED
  BY <1>3, <1>4, <1>6, <1>7, <1>8

\* An attempt that ends with an error of the program's own goes to the except clause.
LEMMA CaughtKeeps ==
    ASSUME SpecsGiven, Types, Accounts, pc # "off", trying, Caught, UNCHANGED <<saved, mem, cur, then, asked>>,
           UNCHANGED logged \/ (Attempting /\ Noted)
    PROVE  Accounts'
<1>1. /\ refused' = [refused EXCEPT ![cur] = @ + 1]
      /\ UNCHANGED asked /\ UNCHANGED saved /\ (UNCHANGED logged \/ (Attempting /\ Noted))
  BY DEF Caught
<1>2. \A s \in S : logged'[s].records <= mem[s].count + refused'[s] /\ refused'[s] <= mem[s].count
  BY <1>1, BooksKept
<1>3. \A s \in S : logged[s].passed => logged'[s].passed
  BY <1>1, BooksKept
<1>4. saved # Unreadable => Sound(saved)'
  BY <1>1, BooksKept
<1>5. logged'[cur].records < mem[cur].count + refused'[cur]
  BY <1>1, BooksKept
<1>6. Sound(mem)'
  BY <1>2, <1>3 DEF Accounts, Sound
<1>7. Counted'
  BY DEF Accounts, Counted
<1>8. QED
  BY <1>4, <1>5, <1>6, <1>7 DEF Accounts, Beginning, Attempting, Caught

LEMMA AccountsStep == SpecsGiven /\ Types /\ Accounts /\ [Next]_vars => Accounts'
<1> SUFFICES ASSUME SpecsGiven, Types, Accounts, [Next]_vars PROVE Accounts'
  OBVIOUS
<1>0. /\ cur \in S /\ \A s \in S : /\ mem[s].count \in Nat /\ asked[s] \in Nat /\ refused[s] \in Nat
                                   /\ logged[s].records \in Nat /\ Specs[s].budget \in Nat
  BY CountTypes
<1>1. ASSUME Off, UNCHANGED <<saved, asked, refused>>, saved # Unreadable => Sound(saved)' PROVE Accounts'
  <2>1. pc' = "off" /\ mem' = Fresh /\ trying' = FALSE
    BY <1>1 DEF Off, Fresh
  <2>2. QED
    BY <1>1, <2>1 DEF Accounts, Beginning, Attempting
<1>2. ASSUME UNCHANGED <<saved, asked, refused, logged>> PROVE saved # Unreadable => Sound(saved)'
  BY <1>2 DEF Accounts, Sound
<1>3. CASE Start
  BY <1>3 DEF Start, mvars, Accounts, Counted, Beginning, Attempting, Sound
<1>4. CASE Choose
  <2>1. CASE Chosen = {}
    BY <1>1, <1>2, <1>4, <2>1 DEF Choose
  <2>2. CASE Chosen # {}
    BY <1>4, <2>2 DEF Choose, Accounts, Counted, Beginning, Attempting, Sound
  <2>3. QED
    BY <2>1, <2>2
<1>5. CASE BeginAttempt
  <2>1. pc = "attempt" /\ pc' = "save" /\ UNCHANGED <<saved, logged, cur, asked, refused, trying>> /\ ~trying
    BY <1>5 DEF BeginAttempt, Save, Begun, Accounts, Attempting
  <2>2. Sound(mem) /\ mem \in Known
    BY <2>1 DEF Accounts, Types
  <2>3. CASE mem[cur].count > Spec1.budget
    <3>1. mem' = [mem EXCEPT ![cur].status = "failed"] /\ then' = "ended"
      BY <1>5, <2>3 DEF BeginAttempt, Save
    <3>2. Sound(mem)'
      BY <1>0, <2>1, <2>2, <3>1 DEF Sound, Known
    <3>3. QED
      BY <2>1, <3>1, <3>2 DEF Accounts, Beginning, Attempting, Sound
  <2>4. CASE ~(mem[cur].count > Spec1.budget)
    <3>1. mem' = [mem EXCEPT ![cur] = [status |-> "in_progress", count |-> mem[cur].count + 1]] /\ then' = "ask"
      BY <1>0, <1>5, <2>2, <2>4 DEF BeginAttempt, Begun, Save, Known
    <3>2. mem'[cur].count = mem[cur].count + 1 /\ mem'[cur].status = "in_progress" /\ \A s \in S : s # cur => mem'[s] = mem[s]
      BY <1>0, <2>2, <3>1 DEF Known
    <3>3. asked[cur] <= mem[cur].count /\ logged[cur].records <= mem[cur].count + refused[cur] /\ refused[cur] <= mem[cur].count
      BY <1>0, <2>2 DEF Sound
    <3>4. /\ asked[cur] < mem'[cur].count /\ logged[cur].records < mem'[cur].count + refused[cur]
          /\ refused[cur] < mem'[cur].count /\ mem'[cur].count <= Specs[cur].budget + 1
      BY <1>0, <2>4, <3>2, <3>3 DEF Spec1
    <3>5. Sound(mem)'
      <4> SUFFICES ASSUME NEW s \in S
                   PROVE  /\ asked[s] <= mem'[s].count /\ logged[s].records <= mem'[s].count + refused[s]
                          /\ refused[s] <= mem'[s].count /\ mem'[s].count <= Specs[s].budget + 1
                          /\ (mem'[s].status = "passed" => logged[s].passed)
        BY <2>1 DEF Sound
      <4>1. CASE s = cur
        BY <1>0, <3>2, <3>4, <4>1
      <4>2. CASE s # cur
        BY <2>2, <3>2, <4>2 DEF Sound
      <4>3. QED
        BY <4>1, <4>2
    <3>6. QED
      BY <2>1, <3>1, <3>4, <3>5 DEF Accounts, Beginning, Attempting, Sound
  <2>5. QED
    BY <2>3, <2>4
<1>6. CASE OpenState
  BY <1>6 DEF OpenState, mvars, Accounts, Counted, Beginning, Attempting, Sound
<1>7. CASE WriteState
  <2>1. /\ pc = "saving" /\ saved' = mem /\ pc' = then /\ trying' = (then = "ask")
        /\ UNCHANGED <<logged, mem, cur, then, asked, refused>>
    BY <1>7 DEF WriteState
  <2>2. Sound(mem)' /\ Sound(saved)' /\ Counted'
    BY <2>1 DEF Accounts, Sound, Counted
  <2>3. then \in {"ask", "attempt", "ended"}
    BY <2>1 DEF Accounts
  <2>4. CASE then = "ask"
    <3>1. asked[cur] < mem[cur].count /\ logged[cur].records < mem[cur].count + refused[cur] /\ refused[cur] < mem[cur].count
      BY <2>1, <2>4 DEF Accounts, Beginning
    <3>2. pc' = "ask"
      BY <2>1, <2>4
    <3>3. QED
      BY <2>1, <2>2, <3>1, <3>2 DEF Accounts, Beginning, Attempting
  <2>5. CASE then # "ask"
    <3>1. pc' \in {"attempt", "ended"} /\ trying' = FALSE
      BY <2>1, <2>3, <2>5
    <3>2. QED
      BY <2>1, <2>2, <3>1 DEF Accounts, Beginning, Attempting
  <2>6. QED
    BY <2>4, <2>5
<1>8. CASE Ask
  <2>1. /\ pc = "ask" /\ pc' \in {"apply", "fail"} /\ asked' = [asked EXCEPT ![cur] = asked[cur] + 1]
        /\ (pc' = "apply") = trying' /\ UNCHANGED <<saved, logged, refused, mem, cur, then>>
    BY <1>8 DEF Ask
  <2>2. /\ Sound(mem) /\ Counted /\ asked[cur] < mem[cur].count /\ logged[cur].records < mem[cur].count + refused[cur]
        /\ refused[cur] < mem[cur].count
    BY <2>1 DEF Accounts, Beginning, Attempting
  <2>3. asked'[cur] = asked[cur] + 1 /\ \A s \in S : s # cur => asked'[s] = asked[s]
    BY <1>0, <2>1 DEF Types
  <2>4. \A s \in S : asked'[s] <= mem[s].count
    BY <1>0, <2>2, <2>3 DEF Sound
  <2>5. Sound(mem)'
    BY <2>1, <2>2, <2>4 DEF Sound
  <2>6. saved # Unreadable => Sound(saved)'
    <3> SUFFICES ASSUME saved # Unreadable PROVE Sound(saved)'
      OBVIOUS
    <3>1. Sound(saved) /\ \A s \in S : saved[s].count = mem[s].count
      BY <2>2 DEF Accounts, Counted
    <3>2. QED
      BY <2>1, <2>4, <3>1 DEF Sound
  <2>7. \A s \in S : asked'[s] <= Specs[s].budget + 1
    <3> SUFFICES ASSUME NEW s \in S PROVE asked'[s] <= Specs[s].budget + 1
      OBVIOUS
    <3>1. asked'[s] <= mem[s].count /\ mem[s].count <= Specs[s].budget + 1
      BY <2>2, <2>4 DEF Sound
    <3>2. asked'[s] = asked[s] + 1 \/ asked'[s] = asked[s]
      BY <2>3
    <3>3. QED
      BY <1>0, <3>1, <3>2
  <2>8. Counted'
    BY <2>1, <2>2 DEF Counted
  <2>9. QED
    BY <2>1, <2>2, <2>5, <2>6, <2>7, <2>8 DEF Accounts, Beginning, Attempting
<1>9. CASE ApplyFile \/ Validate
  <2>1. /\ pc = "apply" /\ pc' \in {"apply", "pass", "fail"} /\ UNCHANGED <<saved, logged, refused, mem, cur, then, asked>>
    BY <1>9 DEF ApplyFile, Validate
  <2>2. trying /\ (pc' \in {"apply", "pass"} => trying')
    BY <1>9 DEF ApplyFile, Validate, Accounts
  <2>3. QED
    BY <2>1, <2>2 DEF Accounts, Counted, Beginning, Attempting, Sound
\* One spec's status is set and its record added.
<1>10. ASSUME NEW passed \in BOOLEAN, NEW st \in {"pending", "passed", "failed", "escalated"}, pc \in {"pass", "fail"},
              Logged(passed), mem' = [mem EXCEPT ![cur].status = st], st = "passed" => passed,
              pc' = "save", then' \in {"attempt", "ended"}, UNCHANGED <<saved, cur, asked, trying, refused>>
       PROVE Accounts'
  <2>1. Sound(mem) /\ Attempting /\ Counted /\ pc # "off"
    BY <1>10 DEF Accounts, Attempting
  <2>2. /\ mem'[cur].count = mem[cur].count /\ mem'[cur].status = st /\ \A s \in S : s # cur => mem'[s] = mem[s]
    BY <1>0, <1>10 DEF Types, Known
  <2>3. Noted
    BY <1>10 DEF Noted
  <2>4. \A s \in S : logged'[s].records <= mem[s].count + refused[s] /\ refused[s] <= mem[s].count
    BY <1>10, <2>1, <2>3, BooksKept
  <2>5. \A s \in S : logged[s].passed => logged'[s].passed
    BY <1>10, <2>1, <2>3, BooksKept
  <2>6. saved # Unreadable => Sound(saved)'
    BY <1>10, <2>1, <2>3, BooksKept
  <2>7. passed => logged'[cur].passed
    BY <1>10, NotedOnce
  <2>8. \A s \in S : mem'[s].count = mem[s].count
    BY <2>2
  <2>9. \A s \in S : mem'[s].status = "passed" => logged'[s].passed
    BY <1>10, <2>1, <2>2, <2>5, <2>7 DEF Sound
  <2>10. Sound(mem)'
    BY <1>10, <2>1, <2>4, <2>8, <2>9 DEF Sound
  <2>11. Counted'
    BY <1>10, <2>1, <2>8 DEF Counted
  <2>12. trying => refused[cur] < mem'[cur].count
    BY <1>0, <2>8 DEF Accounts
  <2>13. QED
    BY <1>10, <2>6, <2>10, <2>11, <2>12 DEF Accounts, Beginning, Attempting
<1>11. pc \in {"pass", "fail"} => Attempting /\ pc # "off"
  BY DEF Attempting
<1>12. CASE Pass
  <2>1. CASE Caught /\ UNCHANGED <<then, mem>>
    <3>1. trying
      BY <1>12 DEF Pass, Accounts
    <3>2. QED
      BY <1>11, <1>12, <2>1, <3>1, CaughtKeeps DEF Pass, Noted
  <2>2. CASE ~(Caught /\ UNCHANGED <<then, mem>>)
    BY <1>10, <1>12, <2>2 DEF Pass, Save
  <2>3. QED
    BY <2>1, <2>2
<1>13. CASE Fail
  <2>1. pc = "fail" /\ UNCHANGED <<saved, asked>>
    BY <1>13 DEF Fail
  <2>2. CASE HalfNoted /\ Off /\ UNCHANGED refused
    <3>1. saved # Unreadable => Sound(saved)'
      BY <1>11, <2>1, <2>2, BooksKept DEF HalfNoted, Noted
    <3>2. QED
      BY <1>1, <2>1, <2>2, <3>1
  <2>3. CASE HalfNoted /\ trying /\ Caught /\ UNCHANGED <<then, mem, cur, forced, left, latest, files>>
    BY <1>11, <2>1, <2>3, CaughtKeeps DEF HalfNoted, Noted
  <2>4. CASE /\ Logged(FALSE) /\ mem' = [mem EXCEPT ![cur].status = StatusAfter] /\ UNCHANGED <<cur, trying, refused>>
             /\ Save(IF StatusAfter = "pending" THEN "attempt" ELSE "ended")
    <3>1. StatusAfter \in {"pending", "passed", "failed", "escalated"} /\ StatusAfter # "passed"
      BY DEF StatusAfter
    <3>2. QED
      BY <1>10, <2>1, <2>4, <3>1 DEF Save
  <2>5. QED
    BY <1>13, <2>2, <2>3, <2>4 DEF Fail
<1>14. CASE SaveRefused
  BY <1>14, CaughtKeeps DEF SaveRefused
<1>15. CASE EndSpec
  <2>1. CASE Off
    BY <1>1, <1>2, <1>15, <2>1 DEF EndSpec
  <2>2. CASE ~Off
    <3>1. pc' = "choose" /\ pc = "ended" /\ UNCHANGED <<saved, logged, refused, mem, cur, then, asked, trying>>
      BY <1>15, <2>2 DEF EndSpec
    <3>2. QED
      BY <3>1 DEF Accounts, Counted, Beginning, Attempting, Sound
  <2>3. QED
    BY <2>1, <2>2
<1>16. CASE Interrupt
  BY <1>1, <1>2, <1>16 DEF Interrupt
<1>17. CASE UNCHANGED vars
  BY <1>17 DEF vars, mvars, Accounts, Counted, Beginning, Attempting, Sound
<1>18. QED
  BY <1>3, <1>4, <1>5, <1>6, <1>7, <1>8, <1>9, <1>12, <1>13, <1>14, <1>15, <1>16, <1>17 DEF Next, Work

LEMMA Beginnings == SpecsGiven /\ Init => Types /\ Accounts
<1> SUFFICES ASSUME SpecsGiven, Init PROVE Types /\ Accounts
  OBVIOUS
<1>1. mem = Fresh /\ saved = Fresh /\ Fresh \in Known /\ <<>> \in Seq(File)
  BY FreshKnown DEF Init, Fresh
<1>2. Types
  <2>1. 1 \in S
    BY DEF SpecsGiven
  <2> QED BY <1>1, <2>1 DEF Init, Types
<1>3. Sound(Fresh)
  BY <1>1 DEF Init, Fresh, Sound, SpecsGiven
<1>4. Accounts
  BY <1>1, <1>3 DEF Init, Accounts, Beginning, Attempting, Sound
<1>5. QED
  BY <1>2, <1>4

LEMMA AccountsSuffice == Types /\ Accounts => AttemptsAccounted
<1> SUFFICES ASSUME Types, Accounts, NEW s \in S
             PROVE /\ asked[s] <= Specs[s].budget + 1
                   /\ saved # Unreadable => /\ logged[s].records <= saved[s].count + refused[s]
                                            /\ refused[s] <= saved[s].count /\ asked[s] <= saved[s].count
                                            /\ saved[s].status = "passed" => logged[s].passed
  BY DEF AttemptsAccounted
<1> QED BY DEF Types, Accounts, Sound, Known

\* Whatever is saved, sent and logged agrees at every moment, over any number of runs of the program that are cut
\* short anywhere: no spec is asked for more often than its budget allows, and a spec that state.json calls passed
\* has a record that says so (execute_spec's order of writes).
THEOREM AccountsAgree == ASSUME SpecsGiven PROVE Spec => []AttemptsAccounted
<1>1. Types /\ Accounts /\ [Next]_vars => (Types /\ Accounts)'
  BY SpecsGiven, TypesStep, AccountsStep
<1>2. QED
  BY SpecsGiven, Beginnings, AccountsSuffice, <1>1, PTL DEF Spec

-----------------------------------------------------------------------------
(* The entrypoint.                                                         *)

Written == disk \in [{"main", "test"} -> Contents]

\* The files that are still to be written passed the guards, and name no file twice.
Guards ==
  pc = "apply" => \A i \in DOMAIN files : /\ Guarded(files[i]) /\ files[i].path \in Spec1.allowed
                                         /\ \A j \in DOMAIN files : files[i].path = files[j].path => i = j
Cleared == files # <<>> => pc = "apply"
Held == Written /\ Guards /\ Cleared

\* What the guards say of another file does not depend on the entrypoint that was just written.
LEMMA GuardsOutlive ==
    ASSUME NEW file, Guarded(file), UNCHANGED cur, file.path = "main" => disk'.main = disk.main
    PROVE  Guarded(file)'
<1>1. UNCHANGED <<AllowsInput, NeedsEntry>>
  BY DEF AllowsInput, NeedsEntry, Spec1
<1>2. file.path = "main" => UNCHANGED MustEnter
  BY DEF MustEnter, EntryThere, NeedsEntry, Spec1
<1>3. CASE file.path = "main"
  <2>1. file.content \notin Tests /\ (file.content = "asks" => AllowsInput) /\ (MustEnter => file.content \in HasEntry)
    BY <1>3 DEF Guarded
  <2>2. file.content \notin Tests /\ (file.content = "asks" => AllowsInput') /\ (MustEnter' => file.content \in HasEntry)
    BY <1>1, <1>2, <1>3, <2>1
  <2>3. QED
    BY <1>3, <2>2 DEF Guarded, Tests, HasEntry
<1>4. CASE file.path # "main"
  <2>1. file.content \in Tests /\ (NeedsEntry => file.content = "suite of main")
    BY <1>4 DEF Guarded
  <2>2. file.content \in Tests /\ (NeedsEntry' => file.content = "suite of main")
    BY <1>1, <2>1
  <2>3. QED
    BY <1>4, <2>2 DEF Guarded, Tests
<1>5. QED
  BY <1>3, <1>4

LEMMA OneWrite ==
    ASSUME Written, NEW path \in Paths, NEW content \in Contents, disk' = [disk EXCEPT ![path] = content]
    PROVE  /\ disk' \in [{"main", "test"} -> Contents]
           /\ path # "main" => disk'.main = disk.main
           /\ path = "main" => disk'.main = content
BY DEF Written, Paths

LEMMA HeldStep == SpecsGiven /\ Types /\ Held /\ [Next]_vars => Held'
<1> SUFFICES ASSUME SpecsGiven, Types, Held, [Next]_vars PROVE Held'
  OBVIOUS
<1>1. ASSUME files' = <<>>, Written' PROVE Held'
  BY <1>1 DEF Held, Guards, Cleared
<1>2. ASSUME files = <<>>, files' = files \/ Off, UNCHANGED disk PROVE Held'
  <2>1. files' = <<>>
    BY <1>2 DEF Off
  <2>2. QED
    BY <1>1, <1>2, <2>1 DEF Held, Written
<1>3. CASE pc # "apply" /\ (Start \/ Choose \/ BeginAttempt \/ OpenState \/ WriteState \/ SaveRefused \/ Pass \/ Fail \/ EndSpec)
  <2>1. files = <<>>
    BY <1>3 DEF Held, Cleared
  <2>2. UNCHANGED disk /\ (files' = files \/ Off)
    BY <1>3 DEF Start, Choose, BeginAttempt, OpenState, WriteState, SaveRefused, Pass, Fail, EndSpec, mvars
  <2>3. QED
    BY <1>2, <2>1, <2>2
<1>4. ASSUME pc = "apply" PROVE ~(Start \/ Choose \/ BeginAttempt \/ OpenState \/ WriteState \/ SaveRefused \/ Pass \/ Fail \/ EndSpec)
  BY <1>4 DEF Start, Choose, BeginAttempt, OpenState, WriteState, SaveRefused, Pass, Fail, EndSpec
<1>5. CASE Ask
  <2>1. UNCHANGED <<disk, cur>> /\ pc = "ask"
    BY <1>5 DEF Ask
  <2>2. PICK answer \in Answers :
          \/ files' = <<>>
          \/ /\ files' = answer /\ pc' = "apply" /\ BadPaths(answer) = {}
             /\ \A i \in DOMAIN answer : Guarded(answer[i])
    BY <1>5 DEF Ask, Replies
  <2>3. CASE files' = <<>>
    BY <1>1, <2>1, <2>3 DEF Held, Written
  <2>4. CASE files' # <<>>
    <3>1. files' = answer /\ pc' = "apply" /\ BadPaths(answer) = {} /\ \A i \in DOMAIN answer : Guarded(answer[i])
      BY <2>2, <2>4
    <3>2. answer \in Seq(File)
      BY DEF SpecsGiven, File
    <3>3. ASSUME NEW i \in DOMAIN answer PROVE Guarded(answer[i])'
      <4>1. answer' = answer
        BY <2>1, <3>1, <2>2
      <4>2. QED
        BY <2>1, <3>1, GuardsOutlive
    <3>4. ASSUME NEW i \in DOMAIN answer
          PROVE  answer[i].path \in Spec1.allowed /\ \A j \in DOMAIN answer : answer[i].path = answer[j].path => i = j
      <4>1. \A k \in DOMAIN answer : k \in Int
        BY <3>2
      <4>2. \A k \in DOMAIN answer : answer[k].path \in Spec1.allowed /\ ~\E j \in 1..k - 1 : answer[j].path = answer[k].path
        BY <3>1 DEF BadPaths
      <4>3. \A j \in DOMAIN answer : j >= 1
        BY <3>2
      <4>4. ASSUME NEW j \in DOMAIN answer, answer[i].path = answer[j].path PROVE i = j
        <5>1. ~(i < j)
          BY <4>1, <4>2, <4>3, <4>4
        <5>2. ~(j < i)
          BY <4>1, <4>2, <4>3, <4>4
        <5>3. QED
          BY <4>1, <5>1, <5>2
      <4>5. QED
        BY <4>2, <4>4
    <3>5. Guards'
      <4> SUFFICES ASSUME NEW i \in DOMAIN answer
                   PROVE  /\ Guarded(answer[i])' /\ answer[i].path \in Spec1'.allowed
                          /\ \A j \in DOMAIN answer : answer[i].path = answer[j].path => i = j
        BY <3>1 DEF Guards
      <4>1. Spec1' = Spec1
        BY <2>1 DEF Spec1
      <4>2. QED
        BY <3>3, <3>4, <4>1
    <3>6. QED
      BY <2>1, <3>1, <3>5 DEF Held, Written, Cleared
  <2>5. QED
    BY <2>3, <2>4
<1>6. CASE ApplyFile
  <2>1. PICK file : file = Head(files)
    OBVIOUS
  <2>2. /\ pc = "apply" /\ files # <<>> /\ UNCHANGED cur
        /\ \/ disk' = [disk EXCEPT ![file.path] = file.content] /\ files' = Tail(files) /\ UNCHANGED pc
           \/ disk' \in {disk, [disk EXCEPT ![file.path] = "torn"]} /\ files' = <<>>
    BY <1>6, <2>1 DEF ApplyFile
  <2>3. file.path \in Paths /\ file.content \in Contents /\ file = files[1] /\ 1 \in DOMAIN files
    <3>1. files \in Seq(File) /\ files # <<>>
      BY <2>2 DEF Types
    <3>2. 1 \in DOMAIN files /\ file = files[1] /\ files[1] \in File
      BY <2>1, <3>1
    <3>3. QED
      BY <3>2 DEF File
  <2>4. Written'
    <3>1. Written /\ "torn" \in Contents
      BY DEF Held, Contents
    <3>2. CASE disk' = disk
      BY <3>1, <3>2 DEF Written
    <3>3. CASE disk' = [disk EXCEPT ![file.path] = "torn"]
      BY <2>3, <3>1, <3>3, OneWrite DEF Written
    <3>4. CASE disk' = [disk EXCEPT ![file.path] = file.content]
      BY <2>3, <3>1, <3>4, OneWrite DEF Written
    <3>5. QED
      BY <2>2, <3>2, <3>3, <3>4
  <2>5. CASE files' = <<>>
    BY <1>1, <2>4, <2>5
  <2>6. CASE files' # <<>>
    <3>1. disk' = [disk EXCEPT ![file.path] = file.content] /\ files' = Tail(files) /\ pc' = "apply"
      BY <2>2, <2>6
    <3>2. Guards /\ Written
      BY DEF Held
    <3>3. \A i \in DOMAIN files' : i \in Int /\ i + 1 \in DOMAIN files /\ i + 1 # 1 /\ files'[i] = files[i + 1]
      BY <2>2, <3>1 DEF Types
    <3>4. ASSUME NEW i \in DOMAIN files, NEW other, other = files[i], i # 1 PROVE Guarded(other)'
      <4>1. other.path # file.path /\ Guarded(other)
        BY <2>2, <2>3, <3>2, <3>4 DEF Guards
      <4>2. other.path = "main" => disk'.main = disk.main
        BY <2>3, <3>1, <3>2, <4>1, OneWrite
      <4>3. QED
        BY <2>2, <4>1, <4>2, GuardsOutlive
    <3>5. ASSUME NEW i \in DOMAIN files', NEW other, other = files'[i]
          PROVE  /\ Guarded(other)' /\ other.path \in Spec1'.allowed
                 /\ \A j \in DOMAIN files' : other.path = files'[j].path => i = j
      <4>1. i \in Int /\ i + 1 \in DOMAIN files /\ i + 1 # 1 /\ other = files[i + 1]
        BY <3>3, <3>5
      <4>2. Guarded(other)'
        BY <3>4, <4>1
      <4>3. other.path \in Spec1'.allowed
        BY <2>2, <3>2, <4>1 DEF Guards, Spec1
      <4>4. ASSUME NEW j \in DOMAIN files', other.path = files'[j].path PROVE i = j
        <5>1. j \in Int /\ j + 1 \in DOMAIN files /\ files'[j] = files[j + 1]
          BY <3>3
        <5>2. i + 1 = j + 1
          BY <2>2, <3>2, <4>1, <4>4, <5>1 DEF Guards
        <5>3. QED
          BY <4>1, <5>1, <5>2
      <4>5. QED
        BY <4>2, <4>3, <4>4
    <3>6. Guards'
      <4> SUFFICES ASSUME NEW i \in DOMAIN files'
                   PROVE  /\ Guarded(files[i])' /\ files'[i].path \in Spec1'.allowed
                          /\ \A j \in DOMAIN files' : files'[i].path = files'[j].path => i = j
        BY DEF Guards
      <4>1. PICK other : other = files'[i]
        OBVIOUS
      <4>2. Guarded(other)'
        BY <3>5, <4>1
      <4>3. Guarded(files[i])'
        BY <4>1, <4>2 DEF Guarded
      <4>4. QED
        BY <3>5, <4>1, <4>3
    <3>7. QED
      BY <2>4, <3>1, <3>6 DEF Held, Cleared
  <2>7. QED
    BY <2>5, <2>6
<1>7. CASE Validate
  <2>1. files = <<>> /\ UNCHANGED <<files, disk>>
    BY <1>7 DEF Validate
  <2>2. QED
    BY <1>2, <2>1
<1>8. CASE Interrupt
  <2>1. files' = <<>>
    BY <1>8 DEF Interrupt, Off
  <2>2. CASE UNCHANGED disk
    BY <1>1, <2>1, <2>2 DEF Held, Written
  <2>3. CASE files # <<>> /\ disk' = [disk EXCEPT ![Head(files).path] = "torn"]
    <3>1. Head(files).path \in Paths /\ "torn" \in Contents
      <4>1. files \in Seq(File)
        BY DEF Types
      <4>2. Head(files) \in File
        BY <2>3, <4>1
      <4>3. QED
        BY <4>2 DEF File, Contents
    <3>2. Written'
      BY <2>3, <3>1, OneWrite DEF Held, Written
    <3>3. QED
      BY <1>1, <2>1, <3>2
  <2>4. QED
    BY <1>8, <2>2, <2>3 DEF Interrupt
<1>9. CASE UNCHANGED vars
  <2>1. UNCHANGED <<disk, cur, files, pc>>
    BY <1>9 DEF vars, mvars
  <2>2. QED
    BY <2>1 DEF Held, Written, Guards, Cleared, Guarded, MustEnter, EntryThere, NeedsEntry, AllowsInput, Spec1
<1>10. QED
  BY <1>3, <1>4, <1>5, <1>6, <1>7, <1>8, <1>9 DEF Next, Work

\* What holds of the specs orchestrator at every moment.
FactoryInv == Types /\ Accounts /\ Held

LEMMA FactoryStart == ASSUME SpecsGiven, Init PROVE FactoryInv
<1>1. Held
  BY DEF Init, Held, Written, Guards, Cleared, Contents, HasEntry
<1> QED BY <1>1, Beginnings DEF FactoryInv

LEMMA FactoryStep == ASSUME SpecsGiven, FactoryInv, [Next]_vars PROVE FactoryInv'
BY TypesStep, AccountsStep, HeldStep DEF FactoryInv

LEMMA FactoryTypes == FactoryInv => TypeOK
BY DEF FactoryInv, Types, Held, Written, Known, TypeOK

LEMMA EntrypointStep == SpecsGiven /\ FactoryInv /\ [Next]_vars => EntrypointKept
<1> SUFFICES ASSUME SpecsGiven, Types, Held, [Next]_vars, disk' # disk, disk'.main # "torn"
             PROVE  /\ disk.main \in HasEntry => disk'.main \in HasEntry
                    /\ disk'.main = "asks" /\ disk.main # "asks" => Spec1.input
  BY DEF EntrypointKept, FactoryInv
<1>1. files # <<>> /\ files \in Seq(File)
  <2>1. ApplyFile \/ Interrupt
    BY DEF Next, Work, vars, Start, Choose, BeginAttempt, OpenState, WriteState, SaveRefused, Ask, Validate, Pass, Fail, EndSpec
  <2>2. QED
    BY <2>1 DEF ApplyFile, Interrupt, Types
<1>2. PICK file : file = Head(files)
  OBVIOUS
<1>3. 1 \in DOMAIN files /\ file = files[1] /\ file \in File /\ "torn" \in Contents
  <2>1. 1 \in DOMAIN files /\ file = files[1] /\ files[1] \in File
    BY <1>1, <1>2
  <2>2. QED
    BY <2>1 DEF Contents
<1>4. ApplyFile \/ (Interrupt /\ disk' = [disk EXCEPT ![file.path] = "torn"])
  BY <1>2 DEF Next, Work, vars, Start, Choose, BeginAttempt, OpenState, WriteState, SaveRefused, Ask, Validate, Pass, Fail, EndSpec,
     Interrupt
<1>5. CASE disk' = [disk EXCEPT ![file.path] = "torn"]
  BY <1>3, <1>5, OneWrite DEF Held, HasEntry, File
<1>6. CASE ApplyFile /\ disk' = [disk EXCEPT ![file.path] = file.content]
  <2>1. file.path # "main" => disk'.main = disk.main
    BY <1>3, <1>6, OneWrite DEF Held, File
  <2>2. file.path = "main" => disk'.main = file.content
    BY <1>3, <1>6, OneWrite DEF Held, File
  <2>3. Guarded(file) /\ file.path \in Spec1.allowed
    BY <1>3, <1>6 DEF ApplyFile, Held, Guards
  <2>4. CASE file.path = "main"
    BY <2>2, <2>3, <2>4 DEF Guarded, MustEnter, EntryThere, AllowsInput
  <2>5. CASE file.path # "main"
    BY <2>1, <2>5
  <2>6. QED
    BY <2>4, <2>5
<1>7. QED
  BY <1>2, <1>4, <1>5, <1>6 DEF ApplyFile

\* No answer the model gives takes the entrypoint out of src/main.py or brings input() in without approval; only a
\* write that is cut short can (enforce_semantic_file_guards, before the first file is written).
THEOREM EntrypointStays == ASSUME SpecsGiven PROVE Spec => [][EntrypointKept]_vars
BY SpecsGiven, FactoryStart, FactoryStep, EntrypointStep, PTL DEF Spec

\* Both, step for step: FactorySound, which a run checks on two specs, for any specs, budgets, answers and number of starts.
THEOREM FactoryIsSound == ASSUME SpecsGiven PROVE Spec => FactorySound
<1>1. Spec => []AttemptsAccounted
  BY SpecsGiven, AccountsAgree
<1>2. Spec => [][EntrypointKept]_vars
  BY SpecsGiven, EntrypointStays
<1>3. []AttemptsAccounted /\ [][EntrypointKept]_vars => [][AttemptsAccounted' /\ EntrypointKept]_vars
  BY PTL
<1>4. QED
  BY <1>1, <1>2, <1>3 DEF FactorySound
-----------------------------------------------------------------------------
(* The chess match.  The match thread and the window share the state of    *)
(* the game without a lock; what keeps them apart is the join before a     *)
(* reset, and that only resume and start make the state RUNNING.           *)

Labels == {"dead", "top", "turn", "ask", "push", "forfeit", "returned", "end"}
Turn == [ply : Nat, attempt : Nat, bad : Nat]
Joining == gui \in {"start", "reset"}
Toggling == gui \in {"pause", "resume"}

ChessTypes ==
  /\ state \in GameState /\ control \in Controls /\ gui \in {"free", "start", "reset", "pause", "resume"}
  /\ thread \in {"none", "loop", "step"} /\ matchPc \in Labels
  /\ plies \in Nat /\ over \in BOOLEAN /\ stop_event \in BOOLEAN
  /\ callbacks \in Seq(Controls)
  /\ turn \in Turn /\ turn.bad <= turn.attempt /\ turn.attempt <= MaxAttempts

\* A turn is played at the ply it was begun at, and its rejected answers are the attempts before this one.
Playing ==
  /\ MovesInTurn
  /\ plies <= MaxPlies /\ (plies = MaxPlies => over)
  /\ matchPc \in {"ask", "push", "forfeit"} => turn.ply = plies /\ ~over
  /\ matchPc = "ask" => turn.attempt >= 1 /\ turn.bad = turn.attempt - 1
  /\ ForfeitsLate

\* While a pause lasts the state is not RUNNING, and a match that was paused and whose thread has ended is over.
Pausing ==
  /\ held \in {-1, 0, 1} /\ (held # -1 => state \notin {"IDLE", "RUNNING"})
  /\ held = 1 /\ matchPc = "turn" => over
  /\ state \in {"RUNNING", "PAUSED"} \/ Toggling => thread = "loop" \/ over
  /\ Toggling => state # "IDLE"
  /\ stop_event => Joining
  /\ matchPc = "end" => over \/ stop_event
  /\ thread = "loop" /\ matchPc = "dead" => over \/ stop_event \/ state = "IDLE"

\* The last of the buttons' states that is under way to the window, or the one it shows, offers the reset.
Words == {"redraw", "get delay", "error", "finished"}
Closing == calling # <<>> /\ calling[Len(calling)] \in {"error", "finished"}
Offering ==
  /\ calling \in {<<>>, <<"redraw">>, <<"get delay">>, <<"redraw", "error">>, <<"error">>, <<"redraw", "finished">>, <<"finished">>}
  /\ state \in {"FINISHED", "ERROR"} =>
       \/ Closing
       \/ callbacks # <<>> /\ callbacks[Len(callbacks)] # "idle"
       \/ callbacks = <<>> /\ control # "idle"

ChessInv == ChessTypes /\ Playing /\ Pausing /\ Offering

LEMMA OneMoveMore ==
    ASSUME NEW n \in Nat, NEW moves, moves = [i \in 1..n |-> i - 1]
    PROVE  Append(moves, n) = [i \in 1..(n + 1) |-> i - 1]
<1>1. moves \in Seq(Int) /\ Len(moves) = n
  OBVIOUS
<1>2. \A i \in 1..(n + 1) : Append(moves, n)[i] = i - 1
  BY <1>1
<1>3. Append(moves, n) \in Seq(Int) /\ Len(Append(moves, n)) = n + 1
  BY <1>1
<1> QED BY <1>2, <1>3

\* One round over the attempts of a turn.
LEMMA AttemptMoves ==
    ASSUME ChessTypes, Playing, Attempt
    PROVE  /\ matchPc' \in {"push", "ask", "forfeit"} /\ matchPc' \in Labels
           /\ turn' \in Turn /\ turn'.bad <= turn'.attempt /\ turn'.attempt <= MaxAttempts /\ turn'.ply = turn.ply
           /\ matchPc' = "ask" => turn'.attempt >= 1 /\ turn'.bad = turn'.attempt - 1
           /\ matchPc' = "forfeit" => turn'.bad = MaxAttempts
<1>1. PICK answer \in Classes :
        LET decision == Decision(answer, turn.attempt)
            again == decision = "retry" /\ turn.attempt < MaxAttempts
        IN  /\ matchPc' = IF decision = "allow" THEN "push" ELSE IF again THEN "ask" ELSE "forfeit"
            /\ turn' = [turn EXCEPT !.attempt = IF again THEN @ + 1 ELSE @,
                                    !.bad = IF decision = "allow" THEN @ ELSE @ + 1]
  BY DEF Attempt
<1> DEFINE decision == Decision(answer, turn.attempt)
           again == decision = "retry" /\ turn.attempt < MaxAttempts
<1>2. /\ turn \in Turn /\ turn.ply \in Nat /\ turn.attempt \in Nat /\ turn.bad \in Nat /\ turn.attempt <= MaxAttempts
      /\ turn.attempt >= 1 /\ turn.bad = turn.attempt - 1 /\ MaxAttempts \in Nat
  BY ChessConstants DEF ChessTypes, Playing, Attempt, At, Turn
<1>3. decision # "allow" => (turn.attempt < MaxAttempts => decision = "retry")
  BY DEF Decision, HasAttemptsRemaining
<1>4. /\ turn'.ply = turn.ply /\ turn'.attempt = (IF again THEN turn.attempt + 1 ELSE turn.attempt)
      /\ turn'.bad = (IF decision = "allow" THEN turn.bad ELSE turn.bad + 1) /\ turn' = [ply |-> turn'.ply, attempt |-> turn'.attempt, bad |-> turn'.bad]
      /\ matchPc' = IF decision = "allow" THEN "push" ELSE IF again THEN "ask" ELSE "forfeit"
  BY <1>1, <1>2 DEF Turn
<1>5. again => decision # "allow"
  OBVIOUS
<1>6. ~again /\ decision # "allow" => turn.attempt = MaxAttempts
  BY <1>2, <1>3
<1> HIDE DEF decision, again
<1>7. again \in BOOLEAN /\ (again => turn.attempt < MaxAttempts)
  BY DEF again
<1>8. CASE decision = "allow"
  <2>1. turn'.attempt = turn.attempt /\ turn'.bad = turn.bad /\ matchPc' = "push"
    BY <1>4, <1>5, <1>8
  <2> QED BY <1>2, <1>4, <2>1 DEF Turn, Labels
<1>9. CASE again
  <2>1. turn'.attempt = turn.attempt + 1 /\ turn'.bad = turn.bad + 1 /\ matchPc' = "ask"
    BY <1>4, <1>5, <1>9
  <2> QED BY <1>2, <1>4, <1>7, <1>9, <2>1 DEF Turn, Labels
<1>10. CASE ~again /\ decision # "allow"
  <2>1. turn'.attempt = turn.attempt /\ turn'.bad = turn.bad + 1 /\ matchPc' = "forfeit"
    BY <1>4, <1>10
  <2> QED BY <1>2, <1>4, <1>6, <1>10, <2>1 DEF Turn, Labels
<1> QED BY <1>7, <1>8, <1>9, <1>10

LEMMA OneWord == ASSUME NEW w PROVE Head(<<w>>) = w /\ Tail(<<w>>) = <<>>
OBVIOUS

LEMMA ChessTypesStep == ChessTypes /\ Playing /\ [ChessNext]_chessVars => ChessTypes'
<1> SUFFICES ASSUME ChessTypes, Playing, [ChessNext]_chessVars PROVE ChessTypes'
  OBVIOUS
<1>1. CASE UNCHANGED chessVars
  BY <1>1 DEF ChessTypes, chessVars, match, window, runner
<1>2. CASE RunCallback
  BY <1>2 DEF ChessTypes, RunCallback, window, runner, match, Click, At
<1>3. CASE ServeCall
  BY <1>3 DEF ChessTypes, ServeCall, window, runner, match, Click, At
<1>4. CASE Joined
  <2>1. callbacks' \in Seq(Controls)
    BY <1>4 DEF ChessTypes, Joined, Controls
  <2> QED BY <1>4, <2>1 DEF ChessTypes, Joined, Labels, GameState, Controls
<1>5. CASE Toggled
  BY <1>5, ChessConstants DEF ChessTypes, Toggled, Labels, GameState, Controls, window, runner, match, Click, At
<1>6. CASE Join
  BY <1>6 DEF ChessTypes, Join, window, runner, match, Click, At
<1>7. CASE Toggle
  BY <1>7 DEF ChessTypes, Toggle, window, runner, match, Click, At
<1>8. CASE StepTurn
  BY <1>8, ChessConstants DEF ChessTypes, StepTurn, Labels, GameState, Controls, window, runner, match, Click, At
<1>9. CASE LoopTop
  BY <1>9, ChessConstants DEF ChessTypes, LoopTop, Labels, GameState, Controls, window, runner, match, Click, At
<1>10. CASE BeginTurn
  <2>1. turn' \in {turn, [ply |-> plies, attempt |-> 1, bad |-> 0]} /\ matchPc' \in Labels
    BY <1>10 DEF BeginTurn, Labels
  <2>2. turn' \in Turn /\ turn'.bad <= turn'.attempt /\ turn'.attempt <= MaxAttempts
    BY <2>1, ChessConstants DEF ChessTypes, Turn
  <2> QED BY <1>10, <2>1, <2>2 DEF ChessTypes, BeginTurn, window, match
<1>11. CASE Attempt
  <2>1. matchPc' \in Labels /\ turn' \in Turn /\ turn'.bad <= turn'.attempt /\ turn'.attempt <= MaxAttempts
    BY <1>11, AttemptMoves DEF ChessTypes
  <2> QED BY <1>11, <2>1 DEF ChessTypes, Attempt, window, match
<1>12. CASE Push
  <2>1. plies' = plies + 1 /\ plies' \in Nat /\ over' \in BOOLEAN /\ matchPc' = "returned" /\ UNCHANGED <<state, control, callbacks, gui, thread, stop_event, turn>>
    <3>1. over' \in (IF plies + 1 = MaxPlies THEN {TRUE} ELSE BOOLEAN)
      BY <1>12 DEF Push
    <3>2. over' \in BOOLEAN
      BY <3>1, Zenon
    <3> QED BY <1>12, <3>2 DEF ChessTypes, Push, window
  <2> QED BY <2>1 DEF ChessTypes, Labels
<1>13. CASE Forfeit
  BY <1>13, ChessConstants DEF ChessTypes, Forfeit, Labels, GameState, Controls, window, runner, match, Click, At
<1>14. CASE Returned
  BY <1>14, ChessConstants DEF ChessTypes, Returned, Labels, GameState, Controls, window, runner, match, Click, At
<1>15. CASE EndLoop
  BY <1>15, ChessConstants DEF ChessTypes, EndLoop, Labels, GameState, Controls, window, runner, match, Click, At
<1> QED BY <1>1, <1>2, <1>3, <1>4, <1>5, <1>6, <1>7, <1>8, <1>9, <1>10, <1>11, <1>12, <1>13, <1>14, <1>15 DEF ChessNext, Gui, User, Match

LEMMA PlayingStep == ChessTypes /\ Playing /\ [ChessNext]_chessVars => Playing'
<1> SUFFICES ASSUME ChessTypes, Playing, [ChessNext]_chessVars PROVE Playing'
  OBVIOUS
<1>1. CASE UNCHANGED chessVars
  BY <1>1 DEF Playing, chessVars, match, window, runner, MovesInTurn, ForfeitsLate
<1>2. CASE RunCallback
  BY <1>2 DEF Playing, RunCallback, window, runner, match, Click, At, MovesInTurn, ForfeitsLate
<1>3. CASE ServeCall
  BY <1>3 DEF Playing, ServeCall, window, runner, match, Click, At, MovesInTurn, ForfeitsLate
<1>4. CASE Joined
  <2>1. move_history' = [i \in 1..plies' |-> i - 1] /\ plies' = 0 /\ matchPc' \in {matchPc, "top"} /\ matchPc = "dead"
    BY <1>4 DEF Joined, Joinable, is_alive
  <2> QED BY <1>4, <2>1, ChessConstants DEF Playing, MovesInTurn, ForfeitsLate
<1>5. CASE Toggled
  BY <1>5 DEF Playing, Toggled, window, runner, match, Click, At, MovesInTurn, ForfeitsLate
<1>6. CASE Join
  BY <1>6 DEF Playing, Join, window, runner, match, Click, At, MovesInTurn, ForfeitsLate
<1>7. CASE Toggle
  BY <1>7 DEF Playing, Toggle, window, runner, match, Click, At, MovesInTurn, ForfeitsLate
<1>8. CASE StepTurn
  BY <1>8 DEF Playing, StepTurn, window, runner, match, Click, At, MovesInTurn, ForfeitsLate
<1>9. CASE LoopTop
  BY <1>9 DEF Playing, LoopTop, window, runner, match, Click, At, MovesInTurn, ForfeitsLate
<1>10. CASE BeginTurn
  BY <1>10 DEF Playing, BeginTurn, window, runner, match, Click, At, MovesInTurn, ForfeitsLate
<1>11. CASE Attempt
  <2>1. /\ matchPc' \in {"push", "ask", "forfeit"} /\ turn'.ply = turn.ply
        /\ matchPc' = "ask" => turn'.attempt >= 1 /\ turn'.bad = turn'.attempt - 1
        /\ matchPc' = "forfeit" => turn'.bad = MaxAttempts
    BY <1>11, AttemptMoves
  <2> QED BY <1>11, <2>1 DEF Playing, Attempt, window, match, At, MovesInTurn, ForfeitsLate
<1>12. CASE Push
  <2>1. /\ plies' = plies + 1 /\ plies + 1 <= MaxPlies /\ (plies + 1 = MaxPlies => over')
        /\ matchPc' = "returned" /\ move_history' = Append(move_history, plies)
    <3>1. /\ plies \in Nat /\ MaxPlies \in Nat /\ plies # MaxPlies /\ plies <= MaxPlies /\ turn.ply = plies
      BY <1>12, ChessConstants DEF Playing, ChessTypes, Push, At
    <3>2. /\ plies' = plies + 1 /\ over' \in (IF plies + 1 = MaxPlies THEN {TRUE} ELSE BOOLEAN)
          /\ matchPc' = "returned" /\ move_history' = Append(move_history, turn.ply)
      BY <1>12 DEF Push
    <3>3. plies + 1 = MaxPlies => over'
      BY <3>2, Zenon
    <3>4. plies + 1 <= MaxPlies
      BY <3>1
    <3> QED BY <3>1, <3>2, <3>3, <3>4
  <2>2. move_history' = [i \in 1..plies' |-> i - 1]
    BY <2>1, OneMoveMore DEF Playing, MovesInTurn, ChessTypes
  <2> QED BY <2>1, <2>2 DEF Playing, MovesInTurn, ForfeitsLate
<1>13. CASE Forfeit
  BY <1>13 DEF Playing, Forfeit, window, runner, match, Click, At, MovesInTurn, ForfeitsLate
<1>14. CASE Returned
  BY <1>14 DEF Playing, Returned, window, runner, match, Click, At, MovesInTurn, ForfeitsLate
<1>15. CASE EndLoop
  BY <1>15 DEF Playing, EndLoop, window, runner, match, Click, At, MovesInTurn, ForfeitsLate
<1> QED BY <1>1, <1>2, <1>3, <1>4, <1>5, <1>6, <1>7, <1>8, <1>9, <1>10, <1>11, <1>12, <1>13, <1>14, <1>15 DEF ChessNext, Gui, User, Match

LEMMA PausingStep == ChessTypes /\ Playing /\ Pausing /\ [ChessNext]_chessVars => Pausing'
<1> SUFFICES ASSUME ChessTypes, Playing, Pausing, [ChessNext]_chessVars PROVE Pausing'
  OBVIOUS
<1>1. CASE UNCHANGED chessVars
  BY <1>1 DEF Pausing, chessVars, match, window, runner, Toggling, Joining
<1>2. CASE RunCallback
  BY <1>2 DEF Pausing, RunCallback, window, runner, match, Click, At, Toggling, Joining
<1>3. CASE ServeCall
  BY <1>3 DEF Pausing, ServeCall, window, runner, match, Click, At, Toggling, Joining
<1>4. CASE Joined
  <2>1. matchPc = "dead" /\ held' = -1 /\ gui' = "free" /\ ~stop_event'
    BY <1>4 DEF Joined, Joinable, is_alive
  <2>2. CASE gui = "start"
    BY <1>4, <2>1, <2>2 DEF Pausing, Joined, Toggling, Joining
  <2>3. CASE gui # "start"
    BY <1>4, <2>1, <2>3 DEF Pausing, Joined, Toggling, Joining
  <2> QED BY <2>2, <2>3
<1>5. CASE Toggled
  BY <1>5 DEF Pausing, Toggled, window, runner, match, Click, At, Toggling, Joining
<1>6. CASE Join
  BY <1>6 DEF Pausing, Join, window, runner, match, Click, At, Toggling, Joining
<1>7. CASE Toggle
  BY <1>7 DEF Pausing, Toggle, window, runner, match, Click, At, Toggling, Joining
<1>8. CASE StepTurn
  <2>1. matchPc = "dead" /\ gui = "free" /\ UNCHANGED <<state, over, stop_event, gui, held>> /\ thread' = "step" /\ matchPc' = "turn"
    BY <1>8 DEF StepTurn, is_alive, Click, window, match
  <2> QED BY <1>8, <2>1 DEF Pausing, ChessTypes, GameState, StepTurn, Toggling, Joining
<1>9. CASE LoopTop
  BY <1>9 DEF Pausing, ChessTypes, LoopTop, MayTurn, window, match, At, Toggling, Joining
<1>10. CASE BeginTurn
  BY <1>10 DEF Pausing, BeginTurn, window, runner, match, Click, At, Toggling, Joining
<1>11. CASE Attempt
  BY <1>11 DEF Pausing, Attempt, window, runner, match, Click, At, Toggling, Joining
<1>12. CASE Push
  BY <1>12 DEF Pausing, Playing, ChessTypes, Push, window, At, Toggling, Joining
<1>13. CASE Forfeit
  BY <1>13 DEF Pausing, Forfeit, window, runner, match, Click, At, Toggling, Joining
<1>14. CASE Returned
  BY <1>14 DEF Pausing, Returned, window, runner, match, Click, At, Toggling, Joining
<1>15. CASE EndLoop
  BY <1>15 DEF Pausing, EndLoop, window, runner, match, Click, At, Toggling, Joining
<1> QED BY <1>1, <1>2, <1>3, <1>4, <1>5, <1>6, <1>7, <1>8, <1>9, <1>10, <1>11, <1>12, <1>13, <1>14, <1>15 DEF ChessNext, Gui, User, Match

LEMMA OfferingStep == ChessTypes /\ Offering /\ [ChessNext]_chessVars => Offering'
<1> SUFFICES ASSUME ChessTypes, Offering, [ChessNext]_chessVars PROVE Offering'
  OBVIOUS
<1>1. CASE UNCHANGED chessVars
  BY <1>1 DEF Offering, chessVars, match, window, runner, Closing
<1>2. CASE RunCallback
  <2>1. /\ callbacks # <<>> /\ callbacks \in Seq(Controls) /\ control' = Head(callbacks) /\ callbacks' = Tail(callbacks)
        /\ UNCHANGED <<state, calling>>
    BY <1>2 DEF RunCallback, ChessTypes, runner
  <2>2. callbacks' = <<>> => control' = callbacks[Len(callbacks)]
    <3>1. Len(callbacks') = Len(callbacks) - 1 /\ Head(callbacks) = callbacks[1] /\ Len(<<>>) = 0
      BY <2>1
    <3>2. callbacks' = <<>> => Len(callbacks) = 1
      <4>1. Len(callbacks) \in Nat
        BY <2>1
      <4> QED BY <3>1, <4>1
    <3> QED BY <2>1, <3>1, <3>2
  <2>3. callbacks' # <<>> => callbacks'[Len(callbacks')] = callbacks[Len(callbacks)]
    BY <2>1
  <2> QED BY <2>1, <2>2, <2>3 DEF Offering, Closing
<1>3. CASE ServeCall
  <2>1. /\ calling # <<>> /\ callbacks \in Seq(Controls) /\ calling' = Tail(calling) /\ UNCHANGED <<state, control>>
        /\ callbacks' = IF Head(calling) \in Controls THEN Append(callbacks, Head(calling)) ELSE callbacks
    BY <1>3 DEF ServeCall, ChessTypes
  <2>2. ASSUME NEW w \in {"redraw", "get delay"}, calling = <<w>> PROVE Offering'
    <3>1. Head(calling) = w /\ Tail(calling) = <<>>
      BY <2>2, OneWord
    <3>2. w \notin Controls
      BY DEF Controls
    <3>3. calling' = <<>> /\ callbacks' = callbacks
      BY <2>1, <3>1, <3>2
    <3>4. ~Closing
      BY <2>2 DEF Closing
    <3> QED BY <2>1, <3>3, <3>4 DEF Offering, Closing
  <2>3. CASE calling = <<"redraw", "error">>
    <3>1. calling' = <<"error">>
      BY <2>1, <2>3
    <3> QED BY <3>1 DEF Offering, Closing
  <2>4. CASE calling = <<"redraw", "finished">>
    <3>1. calling' = <<"finished">>
      BY <2>1, <2>4
    <3> QED BY <3>1 DEF Offering, Closing
  <2>5. ASSUME NEW w \in {"error", "finished"}, calling = <<w>> PROVE Offering'
    <3>1. Head(calling) = w /\ w \in Controls /\ Tail(calling) = <<>>
      BY <2>5 DEF Controls
    <3>2. calling' = <<>> /\ callbacks' = Append(callbacks, w)
      BY <2>1, <3>1
    <3>3. callbacks' # <<>> /\ callbacks'[Len(callbacks')] = w
      BY <2>1, <3>1, <3>2
    <3> QED BY <3>2, <3>3 DEF Offering
  <2> QED BY <2>1, <2>2, <2>3, <2>4, <2>5 DEF Offering
<1>4. CASE Joined
  BY <1>4 DEF Offering, Joined, window, runner, match, Click, At, Closing
<1>5. CASE Toggled
  BY <1>5 DEF Offering, Toggled, window, runner, match, Click, At, Closing
<1>6. CASE Join
  BY <1>6 DEF Offering, Join, window, runner, match, Click, At, Closing
<1>7. CASE Toggle
  BY <1>7 DEF Offering, Toggle, window, runner, match, Click, At, Closing
<1>8. CASE StepTurn
  BY <1>8 DEF Offering, StepTurn, window, runner, match, Click, At, Closing
<1>9. CASE LoopTop
  BY <1>9 DEF Offering, LoopTop, window, runner, match, Click, At, Closing
<1>10. CASE BeginTurn
  BY <1>10 DEF Offering, BeginTurn, window, runner, match, Click, At, Closing
<1>11. CASE Attempt
  BY <1>11 DEF Offering, Attempt, window, runner, match, Click, At, Closing
<1>12. CASE Push
  BY <1>12 DEF Offering, Push, window, runner, match, Click, At, Closing
<1>13. CASE Forfeit
  <2>1. calling' = <<"redraw", "error">>
    BY <1>13 DEF Forfeit, ForfeitCalls
  <2> QED BY <2>1 DEF Offering, Closing
<1>14. CASE Returned
  BY <1>14 DEF Offering, Returned, window, runner, match, Click, At, Closing
<1>15. CASE EndLoop
  <2>1. CASE calling' = <<"redraw", "finished">>
    BY <2>1 DEF Offering, Closing
  <2>2. CASE UNCHANGED <<state, calling>>
    BY <1>15, <2>2 DEF EndLoop, Offering, Closing, window
  <2> QED BY <1>15, <2>1, <2>2 DEF EndLoop
<1> QED BY <1>1, <1>2, <1>3, <1>4, <1>5, <1>6, <1>7, <1>8, <1>9, <1>10, <1>11, <1>12, <1>13, <1>14, <1>15 DEF ChessNext, Gui, User, Match

LEMMA ChessStart == ChessInit => ChessInv
<1> SUFFICES ASSUME ChessInit PROVE ChessInv
  OBVIOUS
<1>1. ChessTypes
  <2>1. turn = [ply |-> 0, attempt |-> 0, bad |-> 0] /\ MaxAttempts \in Nat /\ callbacks = <<"idle">>
    BY ChessConstants DEF ChessInit
  <2>2. turn \in Turn /\ turn.bad <= turn.attempt /\ turn.attempt <= MaxAttempts
    BY <2>1 DEF Turn
  <2>3. callbacks \in Seq(Controls)
    BY <2>1 DEF Controls
  <2> QED BY <2>2, <2>3 DEF ChessInit, ChessTypes, GameState, Controls, Labels
<1>2. Playing
  BY ChessConstants DEF ChessInit, Playing, MovesInTurn, ForfeitsLate
<1>3. Pausing /\ Offering
  BY DEF ChessInit, Pausing, Offering, Toggling, Joining, Closing
<1> QED BY <1>1, <1>2, <1>3 DEF ChessInv

LEMMA ChessStep == ChessInv /\ [ChessNext]_chessVars => ChessInv'
BY ChessTypesStep, PlayingStep, PausingStep, OfferingStep DEF ChessInv

LEMMA ChessKeepsInv == ChessSpec => []ChessInv
BY ChessStart, ChessStep, PTL DEF ChessSpec

LEMMA ChessTypesGiven == ChessInv => ChessTypeOK
BY ChessConstants DEF ChessInv, ChessTypes, Playing, ChessTypeOK, Turn

\* Every variable of the match has its type, with the ply and the attempts
\* within their bounds (game_controller.py).
THEOREM ChessTypeCorrect == ChessSpec => []ChessTypeOK
BY ChessTypesGiven, ChessKeepsInv, PTL

LEMMA ChessSuffices == ChessInv => TurnsHold
<1> SUFFICES ASSUME ChessInv PROVE TurnsHold
  OBVIOUS
<1>1. Enabled("reset") <=> control \in {"running", "paused", "finished", "error"}
  BY DEF Enabled
<1>2. ResetOffered
  BY <1>1 DEF ResetOffered, ChessInv, ChessTypes, Offering, Closing, Controls
<1> QED BY <1>2 DEF ChessInv, TurnsHold, Playing, Pausing, PauseHolds

\* Whatever the models answer and the user clicks, in any order with the
\* match thread, with any number of attempts and plies: a move answers the
\* position it is played in, a pause holds, nobody forfeits early, and what is
\* over can be reset (game_controller.py).
THEOREM ChessTurnsHold == ChessSpec => []TurnsHold
BY ChessSuffices, ChessKeepsInv, PTL

-----------------------------------------------------------------------------
(* The window's one-shot operations.  An answer is taken from the queue    *)
(* long after its thread was started; that it is still the one the window  *)
(* waits for rests on the flags: while an operation of a kind is under     *)
(* way, as a thread or as an unread answer, its flag stands, and there is  *)
(* no second one.                                                          *)

Message == [job : Job, ok : BOOLEAN]
OfFolders == {"tree", "index", "selection"}
Filed == [of : Folders \union {Unset}, from : Slots \union {Unset}]

BenchTypes ==
  /\ BenchTypeOK /\ (pending.type = "snapshot" => pending.snapshot \in Snapshots)
  /\ clicks \in Nat /\ ui_queue \in Seq(Message) /\ slot_selection \in [Slots -> Filed]
  /\ \A j \in jobs : j.kind \in OfFolders => j.of \in Folders
  /\ \A i \in 1..Len(ui_queue) : ui_queue[i].job.kind \in OfFolders => ui_queue[i].job.of \in Folders

\* Threads and unread answers of a kind with a flag: one altogether, and the flag stands.
Alone ==
  /\ \A j \in jobs : j.kind \in Exclusive =>
       /\ j.kind \in active
       /\ \A k \in jobs : k.kind = j.kind => k = j
       /\ \A i \in 1..Len(ui_queue) : ui_queue[i].job.kind # j.kind
  /\ \A i \in 1..Len(ui_queue) : ui_queue[i].job.kind \in Exclusive =>
       /\ ui_queue[i].job.kind \in active
       /\ \A k \in 1..Len(ui_queue) : ui_queue[k].job.kind = ui_queue[i].job.kind => k = i

\* While an index or a selection is under way the window has none.
Awaited ==
  /\ \A j \in jobs : (j.kind = "index" => index.of = Unset) /\ (j.kind = "selection" => selection.of = Unset)
  /\ \A i \in 1..Len(ui_queue) : /\ ui_queue[i].job.kind = "index" => index.of = Unset
                                 /\ ui_queue[i].job.kind = "selection" => selection.of = Unset

\* As long as no two loads of the tree met, every one under way is of the open folder.
TreeFresh ==
  ~crossed =>
    /\ tree \in {folder, Unset}
    /\ \A j \in jobs : j.kind = "tree" => j.of = folder
    /\ \A i \in 1..Len(ui_queue) : ui_queue[i].job.kind = "tree" => ui_queue[i].job.of = folder

BenchInv == BenchTypes /\ Alone /\ Awaited /\ TreeFresh /\ SelectionKeepsSlot

Begins(kind, of) ==
  /\ \E i \in 1..MaxActs : jobs' = jobs \union {[kind |-> kind, id |-> i, of |-> of, slot |-> slot]}
  /\ kind \in OfFolders => of \in Folders
  /\ ui_queue' = ui_queue
  /\ active' = IF kind \in Exclusive THEN active \union {kind} ELSE active
  /\ kind \in Exclusive => kind \notin active
  /\ IF kind = "index" THEN index'.of = Unset ELSE index' = index
  /\ IF kind = "selection" THEN selection'.of = Unset ELSE selection' = selection
  /\ IF kind = "tree" THEN tree' = Unset /\ folder' = of /\ crossed' = (crossed \/ InFlight("tree") # {})
     ELSE UNCHANGED <<folder, tree, crossed>>
Ends(j, ok) == Answer(j, ok) /\ UNCHANGED <<active, index, selection, folder, tree, crossed>>
Takes(kind) ==
  /\ ui_queue # <<>> /\ Head(ui_queue).job.kind = kind /\ ui_queue' = Tail(ui_queue)
  /\ jobs' = jobs /\ active' \in {active, active \ {kind}}
  /\ (kind # "index" => index' = index) /\ (kind # "selection" => selection' = selection)
  /\ UNCHANGED <<folder, crossed>> /\ (tree' = tree \/ (kind = "tree" /\ tree' = Head(ui_queue).job.of))

\* What a step does to threads and answers, and to what rests on them.
Moves ==
  \/ UNCHANGED <<jobs, ui_queue, active, index, selection, folder, tree, crossed>>
  \/ \E kind \in Exclusive \union ButtonOnly \union Free, of \in Folders \union Snapshots \union {Unset} : Begins(kind, of)
  \/ \E j \in jobs, ok \in BOOLEAN : Ends(j, ok)
  \/ \E kind \in Exclusive \union ButtonOnly \union Free : Takes(kind)

LEMMA BenchMoves == ASSUME BenchTypes, [BenchNext]_benchVars PROVE Moves
<1>k. /\ {"tree", "other", "index", "selection", "llm", "decompose", "compile_input", "restore"} \subseteq Exclusive \union ButtonOnly \union Free
      /\ OfFolders \subseteq Exclusive \union ButtonOnly \union Free
      /\ Exclusive = {"index", "selection", "restore", "llm"} /\ OfFolders = {"tree", "index", "selection"}
  BY DEF Exclusive, ButtonOnly, Free, OfFolders
<1>t. /\ folder \in Folders \union {Unset} /\ clicks \in Nat /\ MaxActs \in Nat /\ index.of \in Folders \union {Unset}
  BY BenchConstants DEF BenchTypes, BenchTypeOK, State
<1>a. UserActs => clicks' \in 1..MaxActs
  BY <1>t DEF UserActs
<1>1. CASE OpenFolder
  <2>1. PICK f \in Folders : folder' = f /\ LoadTree(f)
    BY <1>1 DEF OpenFolder
  <2>2. Begins("tree", f)
    BY <1>1, <1>k, <1>a, <2>1 DEF OpenFolder, LoadTree, TreeWhileLoading, Spawn, Begins, guards
  <2> QED BY <1>k, <2>2 DEF Moves
<1>2. CASE RefreshTree
  <2>1. Begins("tree", folder) /\ folder \in Folders
    BY <1>2, <1>k, <1>t, <1>a DEF RefreshTree, LoadTree, TreeWhileLoading, Spawn, Begins, guards, input
  <2> QED BY <1>k, <2>1 DEF Moves
<1>3. CASE StartFree
  <2>1. Begins("other", Unset)
    BY <1>3, <1>k, <1>a DEF StartFree, Spawn, Begins, guards, panes, input
  <2> QED BY <1>k, <2>1 DEF Moves
<1>4. CASE BuildIndex
  <2>1. Begins("index", folder) /\ folder \in Folders
    BY <1>4, <1>k, <1>t, <1>a DEF BuildIndex, Spawn, Begins, FlagClear, Restarted, input
  <2> QED BY <1>k, <2>1 DEF Moves
<1>5. CASE SelectFiles
  <2>1. Begins("selection", index.of) /\ index.of \in Folders
    BY <1>5, <1>k, <1>t, <1>a DEF SelectFiles, Spawn, Begins, FlagClear, Restarted, input
  <2> QED BY <1>k, <2>1 DEF Moves
<1>6. CASE RunLlm
  <2>1. Begins("llm", Unset)
    BY <1>6, <1>k, <1>a DEF RunLlm, Spawn, Begins, FlagClear, panes, input
  <2> QED BY <1>k, <2>1 DEF Moves
<1>7. CASE Decompose
  <2>1. Begins("decompose", Unset)
    BY <1>7, <1>k, <1>a DEF Decompose, Spawn, Begins, panes, input
  <2> QED BY <1>k, <2>1 DEF Moves
<1>8. CASE CompileInput
  <2>1. Begins("compile_input", Unset)
    BY <1>8, <1>k, <1>a DEF CompileInput, Spawn, Begins, panes, input
  <2> QED BY <1>k, <2>1 DEF Moves
<1>9. CASE ConfirmRestore
  <2>1. Begins("restore", pending.snapshot) /\ pending.snapshot \in Snapshots
    BY <1>9, <1>k, <1>a DEF ConfirmRestore, Spawn, Begins, FlagClear, BenchTypes, panes, input
  <2> QED BY <1>k, <2>1 DEF Moves
<1>10. CASE SelectSlot \/ PreviewSnapshotRestore \/ UNCHANGED benchVars
  BY <1>10 DEF SelectSlot, PreviewSnapshotRestore, benchVars, guards, panes, input, Moves
<1>11. CASE ThreadEnds \/ RestoreEnds
  BY <1>11 DEF ThreadEnds, RestoreEnds, guards, panes, input, Ends, Moves
<1>12. ASSUME NEW kind \in Exclusive \union ButtonOnly \union Free, Receive(kind), active' \in {active, active \ {kind}},
              kind # "index" => index' = index, kind # "selection" => selection' = selection,
              tree' = tree \/ (kind = "tree" /\ tree' = Head(ui_queue).job.of)
       PROVE  Moves
  BY <1>12 DEF Receive, Takes, Moves, input
<1>13. CASE TreeAnswer
  BY <1>12, <1>13, <1>k DEF TreeAnswer
<1>14. CASE FreeAnswer \/ DroppedAnswer
  BY <1>12, <1>14, <1>k DEF FreeAnswer, DroppedAnswer, panes
<1>15. CASE IndexAnswer
  BY <1>12, <1>15, <1>k DEF IndexAnswer, Released
<1>16. CASE SelectionAnswer
  BY <1>12, <1>16, <1>k DEF SelectionAnswer, Released
<1> QED BY <1>1, <1>2, <1>3, <1>4, <1>5, <1>6, <1>7, <1>8, <1>9, <1>10, <1>11, <1>13, <1>14, <1>15, <1>16 DEF BenchNext, WindowUser, Threads, HandleUiMessage

\* One more answer at the end of the queue, one less at its start.
LEMMA Queued ==
    ASSUME NEW R, NEW q \in Seq(R), NEW m \in R
    PROVE  /\ Append(q, m) \in Seq(R) /\ Len(Append(q, m)) = Len(q) + 1
           /\ \A i \in 1..(Len(q) + 1) : Append(q, m)[i] = IF i = Len(q) + 1 THEN m ELSE q[i]
OBVIOUS

LEMMA Unqueued ==
    ASSUME NEW R, NEW q \in Seq(R), q # <<>>
    PROVE  /\ Tail(q) \in Seq(R) /\ Len(Tail(q)) = Len(q) - 1 /\ Len(q) \in Nat /\ Len(q) >= 1 /\ Head(q) = q[1]
           /\ \A i \in 1..(Len(q) - 1) : Tail(q)[i] = q[i + 1]
OBVIOUS

\* What is under way keeps its type, and what is of a project keeps its project.
LEMMA MovesTyped ==
    ASSUME BenchTypes, Moves
    PROVE  /\ jobs' \subseteq Job /\ ui_queue' \in Seq(Message) /\ active' \subseteq Exclusive
           /\ \A j \in jobs' : j.kind \in OfFolders => j.of \in Folders
           /\ \A i \in 1..Len(ui_queue') : ui_queue'[i].job.kind \in OfFolders => ui_queue'[i].job.of \in Folders
<1>1. /\ jobs \subseteq Job /\ ui_queue \in Seq(Message) /\ active \subseteq Exclusive /\ slot \in Slots
      /\ \A j \in jobs : j.kind \in OfFolders => j.of \in Folders
      /\ \A i \in 1..Len(ui_queue) : ui_queue[i].job.kind \in OfFolders => ui_queue[i].job.of \in Folders
  BY DEF BenchTypes, BenchTypeOK
<1>2. CASE UNCHANGED <<jobs, ui_queue, active, index, selection, folder, tree, crossed>>
  BY <1>1, <1>2
<1>3. ASSUME NEW kind \in Exclusive \union ButtonOnly \union Free, NEW of \in Folders \union Snapshots \union {Unset}, Begins(kind, of)
      PROVE  /\ jobs' \subseteq Job /\ ui_queue' = ui_queue /\ active' \subseteq Exclusive
             /\ \A j \in jobs' : j.kind \in OfFolders => j.of \in Folders
  <2>0. PICK n \in 1..MaxActs : jobs' = jobs \union {[kind |-> kind, id |-> n, of |-> of, slot |-> slot]}
    BY <1>3 DEF Begins
  <2> DEFINE new == [kind |-> kind, id |-> n, of |-> of, slot |-> slot]
  <2>1. new \in Job /\ new.kind = kind /\ new.of = of
    BY <1>1, <1>3, <2>0 DEF Job, Begins
  <2>2. jobs' = jobs \union {new} /\ (kind \in OfFolders => of \in Folders) /\ ui_queue' = ui_queue /\ active' \subseteq Exclusive
    BY <1>1, <1>3, <2>0 DEF Begins
  <2> HIDE DEF new
  <2> QED BY <1>1, <2>1, <2>2
<1>4. ASSUME NEW j \in jobs, NEW ok \in BOOLEAN, Ends(j, ok)
      PROVE  /\ jobs' \subseteq jobs /\ active' = active /\ ui_queue' \in Seq(Message)
             /\ \A i \in 1..Len(ui_queue') : ui_queue'[i].job.kind \in OfFolders => ui_queue'[i].job.of \in Folders
  <2> DEFINE m == [job |-> j, ok |-> ok]
  <2>1. m \in Message /\ m.job = j
    BY <1>1 DEF Message
  <2>2. jobs' = jobs \ {j} /\ ui_queue' = Append(ui_queue, m) /\ active' = active
    BY <1>4 DEF Ends, Answer
  <2> HIDE DEF m
  <2>3. /\ ui_queue' \in Seq(Message) /\ Len(ui_queue') = Len(ui_queue) + 1
        /\ \A i \in 1..(Len(ui_queue) + 1) : ui_queue'[i] = IF i = Len(ui_queue) + 1 THEN m ELSE ui_queue[i]
    BY <1>1, <2>1, <2>2, Queued
  <2>4. ASSUME NEW i \in 1..Len(ui_queue'), ui_queue'[i].job.kind \in OfFolders PROVE ui_queue'[i].job.of \in Folders
    <3>1. CASE i = Len(ui_queue) + 1
      BY <1>1, <2>1, <2>3, <2>4, <3>1
    <3>2. CASE i # Len(ui_queue) + 1
      <4>1. i \in 1..Len(ui_queue) /\ ui_queue'[i] = ui_queue[i]
        BY <1>1, <2>3, <3>2
      <4> QED BY <1>1, <2>4, <4>1
    <3> QED BY <3>1, <3>2
  <2> QED BY <2>2, <2>3, <2>4
<1>5. ASSUME NEW kind, Takes(kind)
      PROVE  /\ jobs' = jobs /\ active' \subseteq Exclusive /\ ui_queue' \in Seq(Message)
             /\ \A i \in 1..Len(ui_queue') : ui_queue'[i].job.kind \in OfFolders => ui_queue'[i].job.of \in Folders
  <2>1. ui_queue # <<>> /\ ui_queue' = Tail(ui_queue) /\ jobs' = jobs /\ active' \subseteq Exclusive
    BY <1>1, <1>5 DEF Takes
  <2>2. /\ ui_queue' \in Seq(Message) /\ Len(ui_queue') = Len(ui_queue) - 1 /\ Len(ui_queue) \in Nat
        /\ \A i \in 1..(Len(ui_queue) - 1) : ui_queue'[i] = ui_queue[i + 1]
    BY <1>1, <2>1, Unqueued
  <2>3. ASSUME NEW i \in 1..Len(ui_queue'), ui_queue'[i].job.kind \in OfFolders PROVE ui_queue'[i].job.of \in Folders
    <3>1. i + 1 \in 1..Len(ui_queue) /\ ui_queue'[i] = ui_queue[i + 1]
      BY <2>2
    <3> QED BY <1>1, <2>3, <3>1
  <2> QED BY <2>1, <2>2, <2>3
<1> QED BY <1>1, <1>2, <1>3, <1>4, <1>5 DEF Moves

\* What the panes show, and what the user has chosen.
LEMMA PanesTyped ==
    ASSUME BenchTypes, Awaited, SelectionKeepsSlot, [BenchNext]_benchVars
    PROVE  /\ {index', selection'} \subseteq State(Folders)
           /\ \A s \in {index', selection'} : (s.of # Unset) = (s.status = "completed")
           /\ slot_selection' \in [Slots -> Filed] /\ SelectionKeepsSlot'
<1>1. /\ {index, selection} \subseteq State(Folders)
      /\ \A s \in {index, selection} : (s.of # Unset) = (s.status = "completed")
      /\ slot_selection \in [Slots -> Filed] /\ ui_queue \in Seq(Message) /\ Unset \notin Folders /\ Unset \notin Slots
  BY BenchConstants DEF BenchTypes, BenchTypeOK
<1>2. ASSUME NEW s \in {"building", "selecting", "failed"} PROVE [status |-> s, of |-> Unset] \in State(Folders)
  BY <1>2 DEF State
<1>3. ASSUME NEW f \in Folders PROVE [status |-> "completed", of |-> f] \in State(Folders)
  BY DEF State
<1>4. ASSUME NEW kind \in OfFolders, ui_queue # <<>>, Head(ui_queue).job.kind = kind
      PROVE  /\ Head(ui_queue).job \in Job /\ Head(ui_queue).job.of \in Folders /\ Head(ui_queue).job.slot \in Slots
             /\ kind = "index" => index.of = Unset
             /\ kind = "selection" => selection.of = Unset
  <2>1. Head(ui_queue) = ui_queue[1] /\ 1 \in 1..Len(ui_queue) /\ ui_queue[1] \in Message
    BY <1>1, <1>4, Unqueued
  <2>2. ui_queue[1].job \in Job
    BY <2>1 DEF Message
  <2>3. ui_queue[1].job.slot \in Slots
    BY <2>2 DEF Job
  <2> QED BY <1>4, <2>1, <2>2, <2>3 DEF BenchTypes, Awaited
<1>5. CASE UNCHANGED <<index, selection, slot_selection>>
  BY <1>1, <1>5 DEF SelectionKeepsSlot, State
<1>6. CASE BuildIndex
  BY <1>1, <1>2, <1>6 DEF BuildIndex, Restarted, SelectionKeepsSlot
<1>7. CASE SelectFiles
  BY <1>1, <1>2, <1>7 DEF SelectFiles, Restarted, SelectionKeepsSlot
<1>8. CASE IndexAnswer
  <2>1. /\ ui_queue # <<>> /\ Head(ui_queue).job.kind = "index" /\ UNCHANGED <<selection, slot_selection>>
        /\ index' = IF Head(ui_queue).ok THEN [status |-> "completed", of |-> Head(ui_queue).job.of] ELSE [index EXCEPT !.status = "failed"]
    BY <1>8 DEF IndexAnswer, Receive
  <2>2. Head(ui_queue).job.of \in Folders /\ index.of = Unset
    BY <1>4, <2>1 DEF OfFolders
  <2>3. [index EXCEPT !.status = "failed"] = [status |-> "failed", of |-> Unset]
    BY <1>1, <2>2 DEF State
  <2> QED BY <1>1, <1>2, <1>3, <2>1, <2>2, <2>3 DEF SelectionKeepsSlot
<1>9. CASE SelectionAnswer
  <2> DEFINE m == Head(ui_queue)
             filed == [slot_selection EXCEPT ![m.job.slot] = [of |-> m.job.of, from |-> m.job.slot]]
  <2>1. /\ ui_queue # <<>> /\ m.job.kind = "selection" /\ UNCHANGED index
        /\ selection' = IF m.ok THEN [status |-> "completed", of |-> m.job.of] ELSE [selection EXCEPT !.status = "failed"]
        /\ slot_selection' = IF m.ok THEN filed ELSE slot_selection
    BY <1>9 DEF SelectionAnswer, Receive, ResultSlot
  <2>2. m.job.of \in Folders /\ selection.of = Unset /\ m.job.slot \in Slots
    BY <1>4, <2>1 DEF OfFolders
  <2>3. [selection EXCEPT !.status = "failed"] = [status |-> "failed", of |-> Unset]
    BY <1>1, <2>2 DEF State
  <2>4. filed \in [Slots -> Filed] /\ \A s \in Slots : filed[s].from \in {s, Unset}
    <3>1. [of |-> m.job.of, from |-> m.job.slot] \in Filed
      BY <2>2 DEF Filed
    <3>2. \A s \in Slots : filed[s] = IF s = m.job.slot THEN [of |-> m.job.of, from |-> m.job.slot] ELSE slot_selection[s]
      BY <1>1, <2>2
    <3>3. filed \in [Slots -> Filed]
      BY <1>1, <2>2, <3>1
    <3> HIDE DEF filed
    <3> QED BY <3>2, <3>3 DEF SelectionKeepsSlot
  <2> HIDE DEF m, filed
  <2>5. slot_selection' \in [Slots -> Filed] /\ SelectionKeepsSlot'
    BY <1>1, <2>1, <2>4 DEF SelectionKeepsSlot
  <2> QED BY <1>1, <1>2, <1>3, <2>1, <2>2, <2>3, <2>5
<1> QED BY <1>5, <1>6, <1>7, <1>8, <1>9 DEF BenchNext, WindowUser, Threads, HandleUiMessage, benchVars, panes, OpenFolder, LoadTree, RefreshTree,
  SelectSlot, StartFree, RunLlm, Decompose, CompileInput, PreviewSnapshotRestore, ConfirmRestore, ThreadEnds, RestoreEnds, TreeAnswer, FreeAnswer, DroppedAnswer

LEMMA ChoicesTyped ==
    ASSUME BenchTypes, [BenchNext]_benchVars
    PROVE  /\ folder' \in Folders \union {Unset} /\ slot' \in Slots /\ tree' \in Folders \union {Unset} /\ clicks' \in Nat
           /\ disabled' \subseteq ButtonOnly /\ (pending'.type = "snapshot" => pending'.snapshot \in Snapshots)
<1>1. /\ folder \in Folders \union {Unset} /\ slot \in Slots /\ tree \in Folders \union {Unset} /\ clicks \in Nat
      /\ disabled \subseteq ButtonOnly /\ (pending.type = "snapshot" => pending.snapshot \in Snapshots)
      /\ ui_queue \in Seq(Message)
  BY DEF BenchTypes, BenchTypeOK
<1>2. UserActs => clicks' \in Nat
  BY <1>1 DEF UserActs
<1>3. CASE UNCHANGED <<input, tree, disabled, pending>> /\ (UserActs \/ UNCHANGED clicks)
  BY <1>1, <1>2, <1>3 DEF input
<1>4. CASE OpenFolder \/ RefreshTree
  BY <1>1, <1>2, <1>4 DEF OpenFolder, RefreshTree, LoadTree, TreeWhileLoading, guards, input
<1>5. CASE SelectSlot \/ Decompose \/ CompileInput
  BY <1>1, <1>2, <1>5 DEF SelectSlot, Decompose, CompileInput, ButtonOnly, input, panes, guards
<1>6. CASE PreviewSnapshotRestore
  BY <1>1, <1>2, <1>6 DEF PreviewSnapshotRestore, input, panes, guards
<1>7. CASE ConfirmRestore
  BY <1>1, <1>2, <1>7 DEF ConfirmRestore, NoRestore, input, panes
<1>8. CASE TreeAnswer
  <2>1. Head(ui_queue).job.of \in Folders
    <3>1. ui_queue # <<>> /\ Head(ui_queue).job.kind = "tree"
      BY <1>8 DEF TreeAnswer, Receive
    <3>2. Head(ui_queue) = ui_queue[1] /\ 1 \in 1..Len(ui_queue)
      BY <1>1, <3>1, Unqueued
    <3> QED BY <3>1, <3>2 DEF BenchTypes, OfFolders
  <2> QED BY <1>1, <1>8, <2>1 DEF TreeAnswer, Receive, input
<1> QED BY <1>3, <1>4, <1>5, <1>6, <1>7, <1>8 DEF BenchNext, WindowUser, Threads, HandleUiMessage, benchVars, panes, guards,
  StartFree, RunLlm, BuildIndex, SelectFiles, ThreadEnds, RestoreEnds, IndexAnswer, SelectionAnswer, FreeAnswer, DroppedAnswer, Receive

\* One operation of each kind stays one, and its flag stands.
LEMMA AloneStep == ASSUME BenchTypes, Alone, Moves PROVE Alone'
<1>1. ui_queue \in Seq(Message) /\ Len(ui_queue) \in Nat
  BY DEF BenchTypes
<1>2. CASE UNCHANGED <<jobs, ui_queue, active, index, selection, folder, tree, crossed>>
  BY <1>2 DEF Alone
<1>3. ASSUME NEW kind, NEW of, Begins(kind, of) PROVE Alone'
  <2>0. PICK n \in 1..MaxActs : jobs' = jobs \union {[kind |-> kind, id |-> n, of |-> of, slot |-> slot]}
    BY <1>3 DEF Begins
  <2> DEFINE new == [kind |-> kind, id |-> n, of |-> of, slot |-> slot]
  <2>1. /\ new.kind = kind /\ jobs' = jobs \union {new} /\ ui_queue' = ui_queue /\ (kind \in Exclusive => kind \notin active)
        /\ active' = IF kind \in Exclusive THEN active \union {kind} ELSE active
    BY <1>3, <2>0 DEF Begins
  <2> HIDE DEF new
  <2>2. active \subseteq active' /\ (kind \in Exclusive => kind \in active')
    BY <2>1
  <2>3. kind \in Exclusive => (\A j \in jobs : j.kind # kind) /\ (\A i \in 1..Len(ui_queue) : ui_queue[i].job.kind # kind)
    BY <2>1 DEF Alone
  <2>4. ASSUME NEW j \in jobs', j.kind \in Exclusive
        PROVE  /\ j.kind \in active'
               /\ \A k \in jobs' : k.kind = j.kind => k = j
               /\ \A i \in 1..Len(ui_queue) : ui_queue[i].job.kind # j.kind
    <3>1. CASE j \in jobs
      BY <2>1, <2>2, <2>3, <2>4, <3>1 DEF Alone
    <3>2. CASE j = new
      BY <2>1, <2>2, <2>3, <2>4, <3>2
    <3> QED BY <2>1, <3>1, <3>2
  <2>5. ASSUME NEW i \in 1..Len(ui_queue), ui_queue[i].job.kind \in Exclusive
        PROVE  /\ ui_queue[i].job.kind \in active'
               /\ \A k \in 1..Len(ui_queue) : ui_queue[k].job.kind = ui_queue[i].job.kind => k = i
    BY <2>2, <2>5 DEF Alone
  <2> QED BY <2>1, <2>4, <2>5 DEF Alone
<1>4. ASSUME NEW j \in jobs, NEW ok \in BOOLEAN, Ends(j, ok) PROVE Alone'
  <2> DEFINE m == [job |-> j, ok |-> ok]
  <2>1. m \in Message /\ m.job = j
    BY DEF Message, BenchTypes, BenchTypeOK
  <2>2. jobs' = jobs \ {j} /\ ui_queue' = Append(ui_queue, m) /\ active' = active
    BY <1>4 DEF Ends, Answer
  <2> HIDE DEF m
  <2>3. /\ Len(ui_queue') = Len(ui_queue) + 1
        /\ \A i \in 1..(Len(ui_queue) + 1) : ui_queue'[i] = IF i = Len(ui_queue) + 1 THEN m ELSE ui_queue[i]
    BY <1>1, <2>1, <2>2, Queued
  <2>4. \A i \in 1..Len(ui_queue') : ui_queue'[i].job = IF i = Len(ui_queue) + 1 THEN j ELSE ui_queue[i].job
    BY <2>1, <2>3
  <2>5. \A i \in 1..Len(ui_queue') : i = Len(ui_queue) + 1 \/ i \in 1..Len(ui_queue)
    BY <1>1, <2>3
  <2>6. ASSUME NEW k \in jobs', k.kind \in Exclusive
        PROVE  /\ k.kind \in active'
               /\ \A l \in jobs' : l.kind = k.kind => l = k
               /\ \A i \in 1..Len(ui_queue') : ui_queue'[i].job.kind # k.kind
    <3>1. k \in jobs /\ k # j /\ k.kind # j.kind
      BY <2>2, <2>6 DEF Alone
    <3>2. \A i \in 1..Len(ui_queue) : ui_queue[i].job.kind # k.kind
      BY <2>6, <3>1 DEF Alone
    <3> QED BY <2>2, <2>4, <2>5, <2>6, <3>1, <3>2 DEF Alone
  <2>7. ASSUME NEW i \in 1..Len(ui_queue'), ui_queue'[i].job.kind \in Exclusive
        PROVE  /\ ui_queue'[i].job.kind \in active'
               /\ \A k \in 1..Len(ui_queue') : ui_queue'[k].job.kind = ui_queue'[i].job.kind => k = i
    <3>1. CASE i = Len(ui_queue) + 1
      <4>1. ui_queue'[i].job = j
        BY <2>4, <3>1
      <4>2. j.kind \in active /\ \A k \in 1..Len(ui_queue) : ui_queue[k].job.kind # j.kind
        BY <2>7, <4>1 DEF Alone
      <4> QED BY <2>2, <2>4, <2>5, <3>1, <4>1, <4>2
    <3>2. CASE i \in 1..Len(ui_queue) /\ i # Len(ui_queue) + 1
      <4>1. ui_queue'[i].job = ui_queue[i].job
        BY <2>4, <3>2
      <4>2. /\ ui_queue[i].job.kind \in active /\ j.kind # ui_queue[i].job.kind
            /\ \A k \in 1..Len(ui_queue) : ui_queue[k].job.kind = ui_queue[i].job.kind => k = i
        BY <2>7, <3>2, <4>1 DEF Alone
      <4> QED BY <2>2, <2>4, <2>5, <4>1, <4>2
    <3> QED BY <2>5, <3>1, <3>2
  <2> QED BY <2>6, <2>7 DEF Alone
<1>5. ASSUME NEW kind, Takes(kind) PROVE Alone'
  <2>1. /\ ui_queue # <<>> /\ Head(ui_queue).job.kind = kind /\ ui_queue' = Tail(ui_queue)
        /\ jobs' = jobs /\ active' \in {active, active \ {kind}}
    BY <1>5 DEF Takes
  <2>2. /\ Len(ui_queue') = Len(ui_queue) - 1 /\ Len(ui_queue) >= 1 /\ Head(ui_queue) = ui_queue[1]
        /\ \A i \in 1..(Len(ui_queue) - 1) : ui_queue'[i] = ui_queue[i + 1]
    BY <1>1, <2>1, Unqueued
  <2>3. \A i \in 1..Len(ui_queue') : i + 1 \in 1..Len(ui_queue) /\ i + 1 # 1 /\ ui_queue'[i] = ui_queue[i + 1]
    BY <1>1, <2>2
  <2>4. ui_queue[1].job.kind = kind /\ 1 \in 1..Len(ui_queue)
    BY <1>1, <2>1, <2>2
  <2>5. kind \in Exclusive => (\A j \in jobs : j.kind # kind) /\ (\A i \in 1..Len(ui_queue) : i # 1 => ui_queue[i].job.kind # kind)
    BY <2>4 DEF Alone
  <2>6. ASSUME NEW j \in jobs, j.kind \in Exclusive
        PROVE  /\ j.kind \in active'
               /\ \A k \in jobs : k.kind = j.kind => k = j
               /\ \A i \in 1..Len(ui_queue') : ui_queue'[i].job.kind # j.kind
    BY <2>1, <2>3, <2>5, <2>6 DEF Alone
  <2>7. ASSUME NEW i \in 1..Len(ui_queue'), ui_queue'[i].job.kind \in Exclusive
        PROVE  /\ ui_queue'[i].job.kind \in active'
               /\ \A k \in 1..Len(ui_queue') : ui_queue'[k].job.kind = ui_queue'[i].job.kind => k = i
    <3>1. i + 1 \in 1..Len(ui_queue) /\ i + 1 # 1 /\ ui_queue'[i] = ui_queue[i + 1]
      BY <2>3
    <3>2. /\ ui_queue[i + 1].job.kind \in active /\ ui_queue[i + 1].job.kind # kind
          /\ \A k \in 1..Len(ui_queue) : ui_queue[k].job.kind = ui_queue[i + 1].job.kind => k = i + 1
      BY <2>5, <2>7, <3>1 DEF Alone
    <3>3. \A k \in 1..Len(ui_queue') : ui_queue'[k].job.kind = ui_queue'[i].job.kind => k + 1 = i + 1
      BY <2>3, <3>1, <3>2
    <3> QED BY <2>1, <3>1, <3>2, <3>3
  <2> QED BY <2>1, <2>6, <2>7 DEF Alone
<1> QED BY <1>2, <1>3, <1>4, <1>5 DEF Moves

\* An index and a selection wait for their own answer, and so does the tree while no two loads meet.
LEMMA AwaitedStep == ASSUME BenchTypes, Alone, Awaited, TreeFresh, Moves PROVE Awaited' /\ TreeFresh'
<1>1. ui_queue \in Seq(Message) /\ Len(ui_queue) \in Nat
  BY DEF BenchTypes
<1>2. CASE UNCHANGED <<jobs, ui_queue, active, index, selection, folder, tree, crossed>>
  BY <1>2 DEF Awaited, TreeFresh
<1>3. ASSUME NEW kind, NEW of, Begins(kind, of) PROVE Awaited' /\ TreeFresh'
  <2>0. PICK n \in 1..MaxActs : jobs' = jobs \union {[kind |-> kind, id |-> n, of |-> of, slot |-> slot]}
    BY <1>3 DEF Begins
  <2> DEFINE new == [kind |-> kind, id |-> n, of |-> of, slot |-> slot]
  <2>1. /\ new.kind = kind /\ new.of = of /\ jobs' = jobs \union {new} /\ ui_queue' = ui_queue
        /\ IF kind = "index" THEN index'.of = Unset ELSE index' = index
        /\ IF kind = "selection" THEN selection'.of = Unset ELSE selection' = selection
        /\ IF kind = "tree" THEN tree' = Unset /\ folder' = of /\ crossed' = (crossed \/ InFlight("tree") # {})
           ELSE UNCHANGED <<folder, tree, crossed>>
    BY <1>3, <2>0 DEF Begins
  <2> HIDE DEF new
  <2>2. Awaited'
    BY <2>1 DEF Awaited
  <2>3. CASE kind # "tree"
    <3>1. crossed' = crossed /\ folder' = folder /\ tree' = tree
      BY <2>1, <2>3
    <3>2. SUFFICES ASSUME ~crossed PROVE TreeFresh'
      BY <2>2, <3>1 DEF TreeFresh
    <3>3. /\ tree \in {folder, Unset} /\ \A j \in jobs : j.kind = "tree" => j.of = folder
          /\ \A i \in 1..Len(ui_queue) : ui_queue[i].job.kind = "tree" => ui_queue[i].job.of = folder
      BY <3>2 DEF TreeFresh
    <3>4. \A j \in jobs' : j.kind = "tree" => j.of = folder
      BY <2>1, <2>3, <3>3
    <3> QED BY <2>1, <3>1, <3>3, <3>4 DEF TreeFresh
  <2>4. CASE kind = "tree"
    <3>1. tree' = Unset /\ folder' = of /\ crossed' = (crossed \/ InFlight("tree") # {})
      BY <2>1, <2>4
    <3>2. InFlight("tree") = {} => /\ \A j \in jobs : j.kind # "tree"
                                   /\ \A i \in 1..Len(ui_queue) : ui_queue[i].job.kind # "tree"
      BY <1>1 DEF InFlight
    <3>3. SUFFICES ASSUME InFlight("tree") = {} PROVE TreeFresh'
      BY <2>2, <3>1 DEF TreeFresh
    <3>4. \A j \in jobs' : j.kind = "tree" => j.of = of
      BY <2>1, <3>2, <3>3
    <3> QED BY <2>1, <3>1, <3>2, <3>3, <3>4 DEF TreeFresh
  <2> QED BY <2>2, <2>3, <2>4
<1>4. ASSUME NEW j \in jobs, NEW ok \in BOOLEAN, Ends(j, ok) PROVE Awaited' /\ TreeFresh'
  <2> DEFINE m == [job |-> j, ok |-> ok]
  <2>1. m \in Message /\ m.job = j
    BY DEF Message, BenchTypes, BenchTypeOK
  <2>2. jobs' = jobs \ {j} /\ ui_queue' = Append(ui_queue, m) /\ UNCHANGED <<index, selection, folder, tree, crossed>>
    BY <1>4 DEF Ends, Answer
  <2> HIDE DEF m
  <2>3. /\ Len(ui_queue') = Len(ui_queue) + 1
        /\ \A i \in 1..(Len(ui_queue) + 1) : ui_queue'[i] = IF i = Len(ui_queue) + 1 THEN m ELSE ui_queue[i]
    BY <1>1, <2>1, <2>2, Queued
  <2>4. \A i \in 1..Len(ui_queue') : ui_queue'[i].job = j \/ (i \in 1..Len(ui_queue) /\ ui_queue'[i].job = ui_queue[i].job)
    BY <1>1, <2>1, <2>3
  <2> QED BY <2>2, <2>4 DEF Awaited, TreeFresh
<1>5. ASSUME NEW kind, Takes(kind) PROVE Awaited' /\ TreeFresh'
  <2>1. /\ ui_queue # <<>> /\ Head(ui_queue).job.kind = kind /\ ui_queue' = Tail(ui_queue) /\ jobs' = jobs
        /\ (kind # "index" => index' = index) /\ (kind # "selection" => selection' = selection)
        /\ UNCHANGED <<folder, crossed>> /\ (tree' = tree \/ (kind = "tree" /\ tree' = Head(ui_queue).job.of))
    BY <1>5 DEF Takes
  <2>2. /\ Len(ui_queue') = Len(ui_queue) - 1 /\ Len(ui_queue) >= 1 /\ Head(ui_queue) = ui_queue[1]
        /\ \A i \in 1..(Len(ui_queue) - 1) : ui_queue'[i] = ui_queue[i + 1]
    BY <1>1, <2>1, Unqueued
  <2>3. \A i \in 1..Len(ui_queue') : i + 1 \in 1..Len(ui_queue) /\ i + 1 # 1 /\ ui_queue'[i] = ui_queue[i + 1]
    BY <1>1, <2>2
  <2>4. ui_queue[1].job.kind = kind /\ 1 \in 1..Len(ui_queue)
    BY <1>1, <2>1, <2>2
  <2>5. kind \in Exclusive => (\A j \in jobs : j.kind # kind) /\ (\A i \in 1..Len(ui_queue) : i # 1 => ui_queue[i].job.kind # kind)
    BY <2>4 DEF Alone
  <2>6. Awaited'
    BY <2>1, <2>3, <2>5 DEF Awaited, Exclusive
  <2>7. TreeFresh'
    BY <2>1, <2>2, <2>3, <2>4 DEF TreeFresh
  <2> QED BY <2>6, <2>7
<1> QED BY <1>2, <1>3, <1>4, <1>5 DEF Moves

LEMMA BenchStart == BenchInit => BenchInv
<1> SUFFICES ASSUME BenchInit PROVE BenchInv
  OBVIOUS
<1>1. slot \in Slots /\ slot_selection \in [Slots -> Filed] /\ SelectionKeepsSlot
  BY BenchConstants DEF BenchInit, Filed, SelectionKeepsSlot
<1>2. ui_queue = <<>> /\ Len(ui_queue) = 0 /\ ui_queue \in Seq(Message) /\ jobs = {}
  BY DEF BenchInit
<1>3. index \in State(Folders) /\ selection \in State(Folders) /\ (index.of = Unset /\ index.status = "idle") /\ selection = index
  BY DEF BenchInit, Idle, State
<1>4. BenchTypes
  BY <1>1, <1>2, <1>3 DEF BenchInit, BenchTypes, BenchTypeOK, NoRestore
<1> QED BY <1>1, <1>2, <1>4 DEF BenchInit, BenchInv, Alone, Awaited, TreeFresh

LEMMA BenchStep == BenchInv /\ [BenchNext]_benchVars => BenchInv'
<1> SUFFICES ASSUME BenchInv, [BenchNext]_benchVars PROVE BenchInv'
  OBVIOUS
<1>1. BenchTypes /\ Alone /\ Awaited /\ TreeFresh /\ SelectionKeepsSlot
  BY DEF BenchInv
<1>2. Moves
  BY <1>1, BenchMoves
<1>3. Alone' /\ Awaited' /\ TreeFresh'
  BY <1>1, <1>2, AloneStep, AwaitedStep
<1>4. /\ jobs' \subseteq Job /\ ui_queue' \in Seq(Message) /\ active' \subseteq Exclusive
      /\ \A j \in jobs' : j.kind \in OfFolders => j.of \in Folders
      /\ \A i \in 1..Len(ui_queue') : ui_queue'[i].job.kind \in OfFolders => ui_queue'[i].job.of \in Folders
  BY <1>1, <1>2, MovesTyped
<1>5. /\ {index', selection'} \subseteq State(Folders)
      /\ \A s \in {index', selection'} : (s.of # Unset) = (s.status = "completed")
      /\ slot_selection' \in [Slots -> Filed] /\ SelectionKeepsSlot'
  BY <1>1, PanesTyped
<1>6. /\ folder' \in Folders \union {Unset} /\ slot' \in Slots /\ tree' \in Folders \union {Unset} /\ clicks' \in Nat
      /\ disabled' \subseteq ButtonOnly /\ (pending'.type = "snapshot" => pending'.snapshot \in Snapshots)
  BY <1>1, ChoicesTyped
<1>7. \A i \in DOMAIN ui_queue' : ui_queue'[i].job \in Job
  <2>1. \A i \in DOMAIN ui_queue' : ui_queue'[i] \in Message
    BY <1>4
  <2> QED BY <2>1 DEF Message
<1>8. BenchTypeOK'
  BY <1>4, <1>5, <1>6, <1>7 DEF BenchTypeOK
<1>9. BenchTypes'
  BY <1>4, <1>5, <1>6, <1>8 DEF BenchTypes
<1> QED BY <1>3, <1>5, <1>9 DEF BenchInv

LEMMA BenchKeepsInv == BenchSpec => []BenchInv
BY BenchStart, BenchStep, PTL DEF BenchSpec

LEMMA BenchTypesGiven == BenchInv => BenchTypeOK
BY DEF BenchInv, BenchTypes

\* Every variable of the window has its type, and an index or a selection has
\* a value just when it is completed (main_window.py, run_state_service.py).
THEOREM BenchTypeCorrect == BenchSpec => []BenchTypeOK
BY BenchTypesGiven, BenchKeepsInv, PTL

LEMMA BenchSuffices == BenchInv => PanelsAgree
<1> SUFFICES ASSUME BenchInv PROVE PanelsAgree
  OBVIOUS
<1>1. BenchTypes /\ Alone /\ TreeFresh /\ SelectionKeepsSlot /\ ui_queue \in Seq(Message)
  BY DEF BenchInv, BenchTypes
<1>2. ASSUME NEW kind \in Exclusive PROVE Cardinality(InFlight(kind)) <= 1 /\ (InFlight(kind) # {} => kind \in active)
  <2>1. \A x \in InFlight(kind) : (x \in jobs /\ x.kind = kind) \/ \E i \in 1..Len(ui_queue) : x = ui_queue[i].job /\ x.kind = kind
    BY <1>1 DEF InFlight
  <2>2. \A x, y \in InFlight(kind) : x = y
    BY <1>1, <2>1 DEF Alone
  <2>3. InFlight(kind) # {} => kind \in active
    BY <1>1, <2>1 DEF Alone
  <2>4. CASE InFlight(kind) = {}
    BY <2>3, <2>4, FS_EmptySet
  <2>5. ASSUME NEW x \in InFlight(kind) PROVE Cardinality(InFlight(kind)) <= 1
    <3>1. InFlight(kind) = {x}
      BY <2>2
    <3>2. Cardinality({x}) = 1
      BY FS_Singleton
    <3> QED BY <3>1, <3>2
  <2> QED BY <2>3, <2>4, <2>5
<1>3. TreeShowsFolder
  BY <1>1 DEF TreeFresh, TreeShowsFolder
<1> QED BY <1>1, <1>2, <1>3 DEF PanelsAgree, OneAtATime

\* For any projects, slots and snapshots and any number of clicks, whatever
\* order the threads end in: at most one operation of a kind is under way and
\* its flag stands, the tree is the open folder's unless two loads met, and a
\* selection is filed with its own slot (main_window.py).
THEOREM PanelsAlwaysAgree == BenchSpec => []PanelsAgree
BY BenchSuffices, BenchKeepsInv, PTL

-----------------------------------------------------------------------------
(* The page of the retrieval server.                                       *)
Awaits == [n : Nat, kind : {"load", "remove", "clear", "upload", "ask"}, at : {"act", "load"}, left : SUBSET (Page!Ids \union {1}),
           cur : Page!Ids \union {Page!None}, answer : {"pending", "ok", "failed"}, data : SUBSET Page!Ids]

PageTypes ==
  /\ corpus \subseteq Page!Ids /\ list \subseteq Page!Ids /\ selected \subseteq Page!Ids /\ removable \in BOOLEAN
  /\ mode \in {"document", "chat"} /\ chatDoc \in Page!Ids \union {Page!None} /\ label \in Page!Ids \union {Page!None}
  /\ handlers \subseteq Awaits /\ used \in Nat /\ count \in 0..Cardinality(Page!Ids)
  /\ \A h \in handlers : h.kind = "remove" /\ h.at = "act" => h.left \subseteq Page!Ids /\ h.cur \in Page!Ids

OneQuestion == \A h, g \in handlers : h.kind = "ask" /\ g.kind = "ask" => h = g

\* What an earlier change left to be counted is counted by a handler that has changed the selection, or by none.
Uncounted == \E h \in handlers : h.kind = "remove" \/ (h.kind = "clear" /\ h.at = "load")
CountShown == count # Cardinality(selected) => unloaded \/ Uncounted
LabelShown == mode = "chat" => label = chatDoc

PageInv == PageTypes /\ OneQuestion /\ CountShown /\ LabelShown /\ Page!SelectionListed

\* The numbers the page shows are the numbers of documents.
LEMMA PageCounts == \A set : Page!Cardinality(set) = Cardinality(set)
BY DEF Page!Cardinality, Cardinality

LEMMA SelectIs ==
    ASSUME IsFiniteSet(Page!Ids), NEW sel \in SUBSET Page!Ids, Page!Select(sel)
    PROVE  selected' = sel /\ count' \in 0..Cardinality(Page!Ids) /\ count' = Cardinality(selected') /\ removable' \in BOOLEAN
<1>1. Cardinality(sel) \in Nat /\ Cardinality(Page!Ids) \in Nat /\ Cardinality(sel) <= Cardinality(Page!Ids)
  BY FS_Subset, FS_CardinalityType
<1> QED BY <1>1, PageCounts DEF Page!Select, Page!ShowScope

LEMMA ShowChatIs ==
    ASSUME PageTypes, NEW doc, Page!ShowChat(doc) PROVE chatDoc' = label' /\ chatDoc' \in Page!Ids \union {Page!None}
BY DEF Page!ShowChat, PageTypes

LEMMA ReplaceKeeps ==
    ASSUME PageTypes, NEW h \in handlers, NEW g \in Awaits, Page!Replace(h, g), g.kind = h.kind,
           g.kind = "remove" /\ g.at = "act" => g.left \subseteq Page!Ids /\ g.cur \in Page!Ids
    PROVE  /\ handlers' \subseteq Awaits
           /\ \A x \in handlers' : x.kind = "remove" /\ x.at = "act" => x.left \subseteq Page!Ids /\ x.cur \in Page!Ids
           /\ OneQuestion => OneQuestion'
           /\ Uncounted /\ (g.at = h.at \/ g.at = "load") => Uncounted'
           /\ g \in handlers'
<1>1. handlers' = (handlers \ {h}) \union {g}
  BY DEF Page!Replace
<1>2. OneQuestion => OneQuestion'
  BY <1>1 DEF OneQuestion
<1>3. ASSUME Uncounted, g.at = h.at \/ g.at = "load" PROVE Uncounted'
  BY <1>1, <1>3 DEF Uncounted
<1> QED BY <1>1, <1>2, <1>3 DEF PageTypes

LEMMA EndKeeps ==
    ASSUME PageTypes, NEW h \in handlers, Page!End(h)
    PROVE  /\ handlers' \subseteq Awaits
           /\ \A x \in handlers' : x.kind = "remove" /\ x.at = "act" => x.left \subseteq Page!Ids /\ x.cur \in Page!Ids
           /\ OneQuestion => OneQuestion'
           /\ Uncounted /\ h.kind # "remove" /\ ~(h.kind = "clear" /\ h.at = "load") => Uncounted'
<1>1. handlers' = handlers \ {h}
  BY DEF Page!End
<1>2. OneQuestion => OneQuestion'
  BY <1>1 DEF OneQuestion
<1>3. ASSUME Uncounted, h.kind # "remove", ~(h.kind = "clear" /\ h.at = "load") PROVE Uncounted'
  BY <1>1, <1>3 DEF Uncounted
<1> QED BY <1>1, <1>2, <1>3 DEF PageTypes

LEMMA BeginKeeps ==
    ASSUME PageTypes, NEW kind \in {"load", "remove", "clear", "upload", "ask"}, NEW at \in {"act", "load"},
           NEW ids \in SUBSET (Page!Ids \union {1}), NEW doc \in Page!Ids \union {Page!None}, Page!Begin(kind, at, ids, doc),
           kind = "ask" => ~Page!Running("ask"), kind = "remove" /\ at = "act" => ids \subseteq Page!Ids /\ doc \in Page!Ids
    PROVE  /\ handlers' \subseteq Awaits
           /\ \A x \in handlers' : x.kind = "remove" /\ x.at = "act" => x.left \subseteq Page!Ids /\ x.cur \in Page!Ids
           /\ OneQuestion => OneQuestion'
           /\ Uncounted => Uncounted'
<1> DEFINE g == Page!Awaiting(kind, at, ids, doc)
<1>1. handlers' = handlers \union {g}
  BY DEF Page!Begin
<1>2. g \in Awaits /\ g.kind = kind /\ g.at = at /\ g.left = ids /\ g.cur = doc
  BY DEF Page!Awaiting, Awaits, PageTypes
<1> HIDE DEF g
<1>3. OneQuestion => OneQuestion'
  BY <1>1, <1>2 DEF OneQuestion, Page!Running
<1>4. Uncounted => Uncounted'
  BY <1>1 DEF Uncounted
<1> QED BY <1>1, <1>2, <1>3, <1>4 DEF PageTypes

LEMMA PageInitInv == IsFiniteSet(Page!Ids) /\ Page!Init => PageInv
<1> SUFFICES ASSUME IsFiniteSet(Page!Ids), Page!Init PROVE PageInv
  OBVIOUS
<1>1. Cardinality({}) = 0 /\ Cardinality(Page!Ids) \in Nat
  BY FS_EmptySet, FS_CardinalityType
<1>2. PageTypes
  <2> DEFINE h == [n |-> 0, kind |-> "load", at |-> "load", left |-> {}, cur |-> Page!None, answer |-> "pending", data |-> {}]
  <2>1. handlers = {h}
    BY DEF Page!Init
  <2>2. h \in Awaits /\ h.kind = "load"
    BY DEF Awaits
  <2> HIDE DEF h
  <2>3. handlers \subseteq Awaits /\ \A x \in handlers : x.kind = "remove" /\ x.at = "act" => x.left \subseteq Page!Ids /\ x.cur \in Page!Ids
    BY <2>1, <2>2
  <2>4. corpus \subseteq Page!Ids /\ count \in 0..Cardinality(Page!Ids)
    BY <1>1 DEF Page!Init, Page!Ids
  <2> QED BY <2>3, <2>4 DEF Page!Init, PageTypes
<1>3. OneQuestion /\ CountShown /\ LabelShown /\ Page!SelectionListed
  BY <1>1 DEF Page!Init, OneQuestion, CountShown, LabelShown, Page!SelectionListed
<1> QED BY <1>2, <1>3 DEF PageInv

\* A click.
LEMMA ClickKeepsPage ==
    ASSUME IsFiniteSet(Page!Ids), PageInv,
           \/ \E id \in Page!Ids : Page!Toggle(id)
           \/ Page!SelectAll \/ Page!ClearSelection \/ Page!ClearChatDoc \/ Page!Refresh \/ Page!RemoveSelected \/ Page!ClearCorpus \/ Page!Upload \/ Page!Ask
           \/ \E m \in {"document", "chat"} : Page!ChangeMode(m)
    PROVE  PageInv'
<1> USE DEF PageInv
<1>0. PageTypes /\ used' \in Nat
  <2>1. Page!Click
    BY DEF Page!Toggle, Page!SelectAll, Page!ClearSelection, Page!ClearChatDoc, Page!Refresh, Page!RemoveSelected, Page!ClearCorpus, Page!Upload, Page!Ask, Page!ChangeMode
  <2> QED BY <2>1 DEF Page!Click, PageTypes
<1>1. ASSUME NEW id \in Page!Ids, Page!Toggle(id) PROVE PageInv'
  <2>1. CASE mode = "chat"
    <3>1. Page!ShowChat(IF chatDoc = id THEN Page!None ELSE id) /\ UNCHANGED <<Page!panel, unloaded, corpus, list, mode, handlers>>
      BY <1>1, <2>1 DEF Page!Toggle
    <3>2. chatDoc' = label' /\ chatDoc' \in Page!Ids \union {Page!None}
      BY <3>1, <1>0, ShowChatIs
    <3> QED BY <1>0, <3>1, <3>2 DEF Page!panel, PageTypes, OneQuestion, CountShown, LabelShown, Page!SelectionListed, Uncounted
  <2>2. CASE mode # "chat"
    <3> DEFINE sel == IF id \in selected THEN selected \ {id} ELSE selected \union {id}
    <3>1. Page!Select(sel) /\ UNCHANGED <<chatDoc, label, corpus, list, mode, handlers>> /\ id \in list
      BY <1>1, <2>2 DEF Page!Toggle
    <3>2. sel \in SUBSET Page!Ids /\ sel \subseteq list
      BY <1>0, <3>1 DEF PageTypes, Page!SelectionListed
    <3> HIDE DEF sel
    <3>3. selected' = sel /\ count' \in 0..Cardinality(Page!Ids) /\ count' = Cardinality(selected') /\ removable' \in BOOLEAN
      BY <3>1, <3>2, SelectIs
    <3> QED BY <1>0, <3>1, <3>2, <3>3 DEF PageTypes, OneQuestion, CountShown, LabelShown, Page!SelectionListed
  <2> QED BY <2>1, <2>2
<1>2. ASSUME Page!SelectAll \/ Page!ClearSelection PROVE PageInv'
  <2>1. PICK sel \in {selected \union list, {}} : Page!Select(sel) /\ UNCHANGED <<corpus, list, Page!chat, handlers>>
    BY <1>2 DEF Page!SelectAll, Page!ClearSelection
  <2>2. sel \in SUBSET Page!Ids /\ sel \subseteq list
    BY <1>0, <2>1 DEF PageTypes, Page!SelectionListed
  <2>3. selected' = sel /\ count' \in 0..Cardinality(Page!Ids) /\ count' = Cardinality(selected') /\ removable' \in BOOLEAN
    BY <2>1, <2>2, SelectIs
  <2> QED BY <1>0, <2>1, <2>2, <2>3 DEF Page!chat, PageTypes, OneQuestion, CountShown, LabelShown, Page!SelectionListed
<1>3. ASSUME Page!ClearChatDoc PROVE PageInv'
  <2>1. chatDoc' = label' /\ chatDoc' \in Page!Ids \union {Page!None} /\ UNCHANGED <<corpus, list, Page!panel, mode, handlers, unloaded>>
    BY <1>3, <1>0, ShowChatIs DEF Page!ClearChatDoc
  <2> QED BY <1>0, <2>1 DEF Page!panel, PageTypes, OneQuestion, CountShown, LabelShown, Page!SelectionListed, Uncounted
<1>4. ASSUME NEW m \in {"document", "chat"}, Page!ChangeMode(m) PROVE PageInv'
  <2>1. UNCHANGED <<corpus, list, Page!panel, handlers, unloaded>> /\ mode' = m
    BY <1>4 DEF Page!ChangeMode
  <2>2. m = "chat" => chatDoc' = label' /\ chatDoc' \in Page!Ids \union {Page!None}
    BY <1>4, <1>0, ShowChatIs DEF Page!ChangeMode
  <2>3. m # "chat" => chatDoc' = chatDoc /\ label' = Page!None
    BY <1>4 DEF Page!ChangeMode
  <2> QED BY <1>0, <2>1, <2>2, <2>3 DEF Page!panel, PageTypes, OneQuestion, CountShown, LabelShown, Page!SelectionListed, Uncounted
<1>5. ASSUME Page!Refresh \/ Page!ClearCorpus \/ Page!Upload \/ Page!Ask PROVE PageInv'
  <2>1. /\ handlers' \subseteq Awaits
        /\ \A x \in handlers' : x.kind = "remove" /\ x.at = "act" => x.left \subseteq Page!Ids /\ x.cur \in Page!Ids
        /\ OneQuestion' /\ (Uncounted => Uncounted') /\ UNCHANGED <<corpus, list, Page!panel, Page!chat, unloaded>>
    <3>1. CASE Page!Refresh
      BY <3>1, <1>0, BeginKeeps DEF Page!Refresh
    <3>2. CASE Page!ClearCorpus
      BY <3>2, <1>0, BeginKeeps DEF Page!ClearCorpus
    <3>3. CASE Page!Upload
      BY <3>3, <1>0, BeginKeeps DEF Page!Upload
    <3>4. CASE Page!Ask
      <4>1. selected \in SUBSET (Page!Ids \union {1}) /\ (IF mode = "chat" THEN chatDoc ELSE Page!None) \in Page!Ids \union {Page!None}
        BY <1>0 DEF PageTypes
      <4> QED BY <3>4, <4>1, <1>0, BeginKeeps DEF Page!Ask
    <3> QED BY <1>5, <3>1, <3>2, <3>3, <3>4
  <2> QED BY <1>0, <2>1 DEF Page!panel, Page!chat, PageTypes, CountShown, LabelShown, Page!SelectionListed
<1>6. ASSUME Page!RemoveSelected PROVE PageInv'
  <2>1. PICK id \in selected : Page!Begin("remove", "act", selected \ {id}, id)
    BY <1>6 DEF Page!RemoveSelected
  <2>2. id \in Page!Ids /\ selected \ {id} \in SUBSET (Page!Ids \union {1}) /\ selected \ {id} \subseteq Page!Ids
    BY <1>0 DEF PageTypes
  <2>3. /\ handlers' \subseteq Awaits
        /\ \A x \in handlers' : x.kind = "remove" /\ x.at = "act" => x.left \subseteq Page!Ids /\ x.cur \in Page!Ids
        /\ OneQuestion' /\ (Uncounted => Uncounted')
    BY <1>0, <2>1, <2>2, BeginKeeps
  <2>4. UNCHANGED <<corpus, list, selected, count, Page!chat, unloaded>> /\ removable' = FALSE
    BY <1>6 DEF Page!RemoveSelected
  <2> QED BY <1>0, <2>3, <2>4 DEF Page!chat, PageTypes, CountShown, LabelShown, Page!SelectionListed
<1> QED BY <1>1, <1>2, <1>3, <1>4, <1>5, <1>6

\* The server acts and answers, or fails to.
LEMMA NetworkKeepsPage == ASSUME PageInv, Page!Network PROVE PageInv'
<1> USE DEF PageInv
<1>1. PICK h \in handlers : Page!Serve(h) \/ Page!Lose(h)
  BY DEF Page!Network
<1>2. h \in Awaits /\ (h.kind = "remove" /\ h.at = "act" => h.left \subseteq Page!Ids /\ h.cur \in Page!Ids) /\ corpus \subseteq Page!Ids
  BY <1>1 DEF PageTypes
<1>3. PICK answer \in {"ok", "failed"}, data \in SUBSET Page!Ids : Page!Replace(h, [h EXCEPT !.answer = answer, !.data = data])
  BY <1>1, <1>2 DEF Page!Serve, Page!Lose
<1> DEFINE g == [h EXCEPT !.answer = answer, !.data = data]
<1>4. g \in Awaits /\ g.kind = h.kind /\ g.at = h.at /\ g.left = h.left /\ g.cur = h.cur
  BY <1>2, <1>3 DEF Awaits
<1>5. Page!Replace(h, g)
  BY <1>3
<1> HIDE DEF g
<1>6. /\ handlers' \subseteq Awaits
      /\ \A x \in handlers' : x.kind = "remove" /\ x.at = "act" => x.left \subseteq Page!Ids /\ x.cur \in Page!Ids
      /\ OneQuestion' /\ (Uncounted => Uncounted')
  BY <1>2, <1>4, <1>5, ReplaceKeeps
<1>7. corpus' \subseteq Page!Ids
  <2>1. CASE Page!Lose(h)
    BY <1>2, <2>1 DEF Page!Lose
  <2>2. CASE Page!Serve(h)
    BY <1>2, <2>2 DEF Page!Serve, Page!After, Page!Ids
  <2> QED BY <1>1, <2>1, <2>2
<1>8. UNCHANGED <<list, Page!panel, Page!chat, unloaded, used>>
  BY <1>1 DEF Page!Serve, Page!Lose
<1> QED BY <1>6, <1>7, <1>8 DEF Page!panel, Page!chat, PageTypes, CountShown, LabelShown, Page!SelectionListed

\* A handler goes on with its answer.
LEMMA ResumeKeepsPage == ASSUME IsFiniteSet(Page!Ids), PageInv, Page!Resume PROVE PageInv'
<1> USE DEF PageInv
<1>1. PICK h \in handlers : Page!Loaded(h) \/ Page!RemovedOne(h) \/ Page!Cleared(h) \/ Page!UploadedOne(h) \/ Page!Answered(h)
  BY DEF Page!Resume
<1>2. h \in Awaits /\ (h.kind = "remove" /\ h.at = "act" => h.left \subseteq Page!Ids /\ h.cur \in Page!Ids)
  BY <1>1 DEF PageTypes
<1> DEFINE l == [h EXCEPT !.at = "load", !.left = {}, !.cur = Page!None, !.answer = "pending"]
<1>3. l \in Awaits /\ l.kind = h.kind /\ l.at = "load"
  BY <1>2 DEF Awaits
<1>4. Page!Load(h) => Page!Replace(h, l)
  BY DEF Page!Load
<1> HIDE DEF l
<1>5. Page!Load(h) => /\ handlers' \subseteq Awaits
                      /\ \A x \in handlers' : x.kind = "remove" /\ x.at = "act" => x.left \subseteq Page!Ids /\ x.cur \in Page!Ids
                      /\ OneQuestion' /\ (Uncounted => Uncounted') /\ l \in handlers'
  BY <1>2, <1>3, <1>4, ReplaceKeeps
<1>6. Page!End(h) => /\ handlers' \subseteq Awaits
                     /\ \A x \in handlers' : x.kind = "remove" /\ x.at = "act" => x.left \subseteq Page!Ids /\ x.cur \in Page!Ids
                     /\ OneQuestion' /\ (Uncounted /\ h.kind # "remove" /\ ~(h.kind = "clear" /\ h.at = "load") => Uncounted')
  BY EndKeeps
<1>7. CASE Page!Loaded(h)
  <2>1. Page!End(h) /\ UNCHANGED <<corpus, Page!chat, used>>
    BY <1>7 DEF Page!Loaded
  <2>2. CASE h.answer = "ok"
    <3>1. list' = h.data /\ Page!Select(selected \intersect h.data)
      BY <1>7, <2>2 DEF Page!Loaded, Page!Kept
    <3>2. h.data \subseteq Page!Ids /\ selected \intersect h.data \in SUBSET Page!Ids
      BY <1>2 DEF Awaits, PageTypes
    <3>3. selected' = selected \intersect h.data /\ count' \in 0..Cardinality(Page!Ids) /\ count' = Cardinality(selected') /\ removable' \in BOOLEAN
      BY <3>1, <3>2, SelectIs
    <3> QED BY <1>6, <2>1, <3>1, <3>2, <3>3 DEF Page!chat, PageTypes, CountShown, LabelShown, Page!SelectionListed
  <2>3. CASE h.answer # "ok"
    <3>1. UNCHANGED <<list, Page!panel>> /\ unloaded' = (unloaded \/ h.kind \in {"remove", "clear"})
      BY <1>7, <2>3 DEF Page!Loaded
    <3>2. unloaded \/ Uncounted => unloaded' \/ Uncounted'
      BY <1>6, <2>1, <3>1
    <3> QED BY <1>6, <2>1, <3>1, <3>2 DEF Page!panel, Page!chat, PageTypes, CountShown, LabelShown, Page!SelectionListed
  <2> QED BY <2>2, <2>3
<1>8. CASE Page!RemovedOne(h)
  <2>1. /\ h.kind = "remove" /\ h.at = "act" /\ selected' \subseteq selected
        /\ UNCHANGED <<corpus, list, count, removable, Page!chat, unloaded, used>>
    BY <1>8 DEF Page!RemovedOne
  <2>2. /\ handlers' \subseteq Awaits
        /\ \A x \in handlers' : x.kind = "remove" /\ x.at = "act" => x.left \subseteq Page!Ids /\ x.cur \in Page!Ids
        /\ OneQuestion' /\ Uncounted'
    <3>1. CASE h.left = {}
      <4>1. Page!Load(h)
        BY <1>8, <3>1 DEF Page!RemovedOne
      <4> QED BY <1>3, <1>5, <2>1, <4>1 DEF Uncounted
    <3>2. CASE h.left # {}
      <4>1. PICK id \in h.left : Page!Replace(h, [h EXCEPT !.left = @ \ {id}, !.cur = id, !.answer = "pending"])
        BY <1>8, <3>2 DEF Page!RemovedOne
      <4> DEFINE g == [h EXCEPT !.left = @ \ {id}, !.cur = id, !.answer = "pending"]
      <4>2. g \in Awaits /\ g.kind = h.kind /\ g.at = h.at /\ g.left \subseteq Page!Ids /\ g.cur \in Page!Ids
        BY <1>2, <2>1, <4>1 DEF Awaits
      <4>3. Page!Replace(h, g)
        BY <4>1
      <4> HIDE DEF g
      <4> QED BY <2>1, <4>2, <4>3, ReplaceKeeps DEF Uncounted
    <3> QED BY <3>1, <3>2
  <2> QED BY <2>1, <2>2 DEF Page!chat, PageTypes, CountShown, LabelShown, Page!SelectionListed
<1>9. CASE Page!Cleared(h)
  <2>1. h.kind = "clear" /\ h.at = "act" /\ UNCHANGED <<corpus, list, count, removable, Page!chat, unloaded, used>>
    BY <1>9 DEF Page!Cleared
  <2>2. CASE h.answer = "ok"
    <3>1. selected' = {} /\ Page!Load(h)
      BY <1>9, <2>2 DEF Page!Cleared
    <3>2. Uncounted'
      BY <1>3, <1>5, <2>1, <3>1 DEF Uncounted
    <3> QED BY <1>5, <2>1, <3>1, <3>2 DEF Page!chat, PageTypes, CountShown, LabelShown, Page!SelectionListed
  <2>3. CASE h.answer # "ok"
    <3>1. UNCHANGED selected /\ Page!End(h)
      BY <1>9, <2>3 DEF Page!Cleared
    <3>2. Uncounted => Uncounted'
      BY <1>6, <2>1, <3>1
    <3> QED BY <1>6, <2>1, <3>1, <3>2 DEF Page!chat, PageTypes, CountShown, LabelShown, Page!SelectionListed
  <2> QED BY <2>2, <2>3
<1>10. CASE Page!UploadedOne(h)
  <2>1. h.kind = "upload" /\ UNCHANGED <<corpus, list, Page!panel, Page!chat, unloaded, used>>
    BY <1>10 DEF Page!UploadedOne
  <2>2. /\ handlers' \subseteq Awaits
        /\ \A x \in handlers' : x.kind = "remove" /\ x.at = "act" => x.left \subseteq Page!Ids /\ x.cur \in Page!Ids
        /\ OneQuestion' /\ (Uncounted => Uncounted')
    <3>1. CASE h.left = {}
      <4>1. Page!Load(h)
        BY <1>10, <3>1 DEF Page!UploadedOne
      <4> QED BY <1>5, <4>1
    <3>2. CASE h.left # {}
      <4> DEFINE g == [h EXCEPT !.left = {}, !.answer = "pending"]
      <4>1. g \in Awaits /\ g.kind = h.kind /\ g.at = h.at
        BY <1>2 DEF Awaits
      <4>2. Page!Replace(h, g)
        BY <1>10, <3>2 DEF Page!UploadedOne
      <4> HIDE DEF g
      <4> QED BY <2>1, <4>1, <4>2, ReplaceKeeps
    <3> QED BY <3>1, <3>2
  <2> QED BY <2>1, <2>2 DEF Page!panel, Page!chat, PageTypes, CountShown, LabelShown, Page!SelectionListed
<1>11. CASE Page!Answered(h)
  <2>1. h.kind = "ask" /\ Page!End(h) /\ UNCHANGED <<corpus, list, Page!panel, Page!chat, unloaded, used>>
    BY <1>11 DEF Page!Answered
  <2> QED BY <1>6, <2>1 DEF Page!panel, Page!chat, PageTypes, CountShown, LabelShown, Page!SelectionListed
<1> QED BY <1>1, <1>7, <1>8, <1>9, <1>10, <1>11

LEMMA PageStep == IsFiniteSet(Page!Ids) /\ PageInv /\ [Page!Next]_(Page!vars) => PageInv'
<1> SUFFICES ASSUME IsFiniteSet(Page!Ids), PageInv, [Page!Next]_(Page!vars) PROVE PageInv'
  OBVIOUS
<1>1. CASE Page!Network
  BY <1>1, NetworkKeepsPage
<1>2. CASE Page!Resume
  BY <1>2, ResumeKeepsPage
<1>3. CASE UNCHANGED Page!vars
  BY <1>3 DEF Page!vars, Page!panel, Page!chat, PageInv, PageTypes, OneQuestion, CountShown, Uncounted, LabelShown, Page!SelectionListed
<1>4. CASE \/ \E id \in Page!Ids : Page!Toggle(id)
           \/ Page!SelectAll \/ Page!ClearSelection \/ Page!ClearChatDoc \/ Page!Refresh \/ Page!RemoveSelected \/ Page!ClearCorpus \/ Page!Upload \/ Page!Ask
           \/ \E m \in {"document", "chat"} : Page!ChangeMode(m)
  BY <1>4, ClickKeepsPage
<1> QED BY <1>1, <1>2, <1>3, <1>4 DEF Page!Next

LEMMA PageInvHolds == ASSUME IsFiniteSet(Page!Ids) PROVE Page!Init /\ [][Page!Next]_(Page!vars) => []PageInv
BY PageInitInv, PageStep, PTL

LEMMA PageTypesGiven == PageInv => Page!TypeOK
<1> SUFFICES ASSUME PageInv PROVE Page!TypeOK
  OBVIOUS
<1>1. PageTypes /\ OneQuestion
  BY DEF PageInv
<1> DEFINE questions == {h \in handlers : h.kind = "ask"}
<1>2. Cardinality(questions) <= 1
  <2>1. CASE questions = {}
    BY <2>1, FS_EmptySet
  <2>2. ASSUME NEW h \in questions PROVE Cardinality(questions) <= 1
    <3>1. questions = {h}
      BY <1>1, <2>2 DEF OneQuestion
    <3>2. Cardinality({h}) = 1
      BY FS_Singleton
    <3> QED BY <3>1, <3>2
  <2> QED BY <2>1, <2>2
<1>3. \A h \in handlers : h.at \in {"act", "load"} /\ h.answer \in {"pending", "ok", "failed"} /\ h.left \subseteq Page!Ids \union {1}
  BY <1>1 DEF PageTypes, Awaits
<1> QED BY <1>1, <1>2, <1>3, PageCounts DEF PageTypes, Page!TypeOK

\* The page's variables have their types, for any finite number of documents.
THEOREM PageTypeCorrect == ASSUME IsFiniteSet(Page!Ids) PROVE Page!Init /\ [][Page!Next]_(Page!vars) => []Page!TypeOK
BY PageTypesGiven, PageInvHolds, PTL

LEMMA PageSuffices == PageInv => Page!SelectionListed /\ Page!ScopeShown
BY PageCounts DEF PageInv, CountShown, LabelShown, Uncounted, Page!ScopeShown, Page!Running

\* Whatever the server answers and in whatever order, what is selected is listed, the label names the chat's document,
\* and the size shown is the working set's but for a removal that goes on or a list that did not arrive (toggleDocumentSelection,
\* removeSelectedBtn, clearCorpusBtn, loadIndexedDocs).
THEOREM PageShowsItsScope == ASSUME IsFiniteSet(Page!Ids) PROVE Page!Init /\ [][Page!Next]_(Page!vars) => [](Page!SelectionListed /\ Page!ScopeShown)
BY PageSuffices, PageInvHolds, PTL

-----------------------------------------------------------------------------
(* Sorting by rank: in a finite set with a strict total order, the one     *)
(* that has n before it comes at place n + 1.                              *)

StrictTotal(R, set) ==
  /\ \A x \in set : <<x, x>> \notin R
  /\ \A x, y \in set : x # y => <<x, y>> \in R \/ <<y, x>> \in R
  /\ \A x, y, z \in set : <<x, y>> \in R /\ <<y, z>> \in R => <<x, z>> \in R
Ahead(R, set, x) == {y \in set : <<y, x>> \in R}
SortedBy(R, set, seq) ==
  /\ seq \in [1..Cardinality(set) -> set]
  /\ \A i, j \in 1..Cardinality(set) : i < j => <<seq[i], seq[j]>> \in R
  /\ \A x \in set : \E i \in 1..Cardinality(set) : seq[i] = x

LEMMA RankGrows ==
  ASSUME NEW set, IsFiniteSet(set), NEW R, StrictTotal(R, set), NEW x \in set, NEW y \in set, <<x, y>> \in R
  PROVE  Cardinality(Ahead(R, set, x)) < Cardinality(Ahead(R, set, y))
<1>1. IsFiniteSet(Ahead(R, set, x)) /\ IsFiniteSet(Ahead(R, set, y)) /\ Cardinality(Ahead(R, set, x)) \in Nat /\ Cardinality(Ahead(R, set, y)) \in Nat
  BY FS_Subset, FS_CardinalityType DEF Ahead
<1>2. x \notin Ahead(R, set, x) /\ Ahead(R, set, x) \union {x} \subseteq Ahead(R, set, y)
  BY DEF Ahead, StrictTotal
<1>3. Cardinality(Ahead(R, set, x) \union {x}) = Cardinality(Ahead(R, set, x)) + 1
  BY <1>1, <1>2, FS_AddElement
<1>4. Cardinality(Ahead(R, set, x) \union {x}) <= Cardinality(Ahead(R, set, y))
  BY <1>1, <1>2, FS_Subset
<1> QED BY <1>1, <1>3, <1>4

LEMMA RankBelow ==
  ASSUME NEW set, IsFiniteSet(set), NEW R, StrictTotal(R, set), NEW x \in set
  PROVE  Cardinality(Ahead(R, set, x)) \in Nat /\ Cardinality(Ahead(R, set, x)) < Cardinality(set)
<1>1. IsFiniteSet(Ahead(R, set, x)) /\ Cardinality(Ahead(R, set, x)) \in Nat /\ Cardinality(set) \in Nat
  BY FS_Subset, FS_CardinalityType DEF Ahead
<1>2. x \notin Ahead(R, set, x) /\ Ahead(R, set, x) \union {x} \subseteq set
  BY DEF Ahead, StrictTotal
<1>3. Cardinality(Ahead(R, set, x) \union {x}) = Cardinality(Ahead(R, set, x)) + 1
  BY <1>1, <1>2, FS_AddElement
<1>4. Cardinality(Ahead(R, set, x) \union {x}) <= Cardinality(set)
  BY <1>2, FS_Subset
<1> QED BY <1>1, <1>3, <1>4

\* Every place is taken: the ranks are an injection into as many places, and so onto them.
LEMMA RanksTaken ==
  ASSUME NEW set, IsFiniteSet(set), NEW R, StrictTotal(R, set)
  PROVE  \A i \in 1..Cardinality(set) : \E x \in set : Cardinality(Ahead(R, set, x)) = i - 1
<1> DEFINE n == Cardinality(set)
           rank == [x \in set |-> Cardinality(Ahead(R, set, x)) + 1]
<1>1. n \in Nat /\ IsFiniteSet(1..n) /\ Cardinality(1..n) = n
  BY FS_CardinalityType, FS_Interval
<1>2. rank \in [set -> 1..n]
  BY <1>1, RankBelow
<1>3. \A x, y \in set : <<x, y>> \in R => rank[x] < rank[y]
  <2> TAKE x, y \in set
  <2> SUFFICES ASSUME <<x, y>> \in R PROVE rank[x] < rank[y]
    OBVIOUS
  <2>1. Cardinality(Ahead(R, set, x)) < Cardinality(Ahead(R, set, y))
    BY RankGrows
  <2>2. Cardinality(Ahead(R, set, x)) \in Nat /\ Cardinality(Ahead(R, set, y)) \in Nat
    BY RankBelow
  <2> QED BY <2>1, <2>2
<1>4. \A x \in set : Cardinality(Ahead(R, set, x)) = rank[x] - 1
  BY RankBelow
<1> HIDE DEF rank
<1>5. rank \in Injection(set, 1..n)
  <2>1. \A x, y \in set : x # y => rank[x] # rank[y]
    <3> SUFFICES ASSUME NEW x \in set, NEW y \in set, x # y PROVE rank[x] # rank[y]
      OBVIOUS
    <3>1. <<x, y>> \in R \/ <<y, x>> \in R
      BY DEF StrictTotal
    <3> QED BY <1>1, <1>2, <1>3, <3>1
  <2> QED BY <1>2, <2>1 DEF Injection, IsInjective
<1>6. rank \in Surjection(set, 1..n)
  BY <1>1, <1>5, FS_Injection
<1>7. \A i \in 1..n : \E x \in set : rank[x] = i
  BY <1>6 DEF Surjection
<1> QED BY <1>1, <1>2, <1>4, <1>7

LEMMA RankedIsSorted ==
  ASSUME NEW set, IsFiniteSet(set), NEW R, StrictTotal(R, set), NEW seq \in [1..Cardinality(set) -> set],
         \A i \in 1..Cardinality(set) : Cardinality(Ahead(R, set, seq[i])) = i - 1
  PROVE  SortedBy(R, set, seq)
<1> DEFINE n == Cardinality(set)
<1>1. n \in Nat
  BY FS_CardinalityType
<1>2. \A x, y \in set : Cardinality(Ahead(R, set, x)) < Cardinality(Ahead(R, set, y)) => <<x, y>> \in R
  <2> SUFFICES ASSUME NEW x \in set, NEW y \in set, Cardinality(Ahead(R, set, x)) < Cardinality(Ahead(R, set, y)), <<x, y>> \notin R
               PROVE  FALSE
    OBVIOUS
  <2>1. x = y \/ <<y, x>> \in R
    BY DEF StrictTotal
  <2>2. Cardinality(Ahead(R, set, x)) \in Nat /\ Cardinality(Ahead(R, set, y)) \in Nat
    BY RankBelow
  <2> QED BY <2>1, <2>2, RankGrows
<1>3. \A i, j \in 1..n : i < j => <<seq[i], seq[j]>> \in R
  BY <1>1, <1>2
<1>4. \A x \in set : \E i \in 1..n : seq[i] = x
  <2> SUFFICES ASSUME NEW x \in set PROVE \E i \in 1..n : seq[i] = x
    OBVIOUS
  <2> DEFINE i == Cardinality(Ahead(R, set, x)) + 1
  <2>1. Cardinality(Ahead(R, set, x)) \in Nat /\ Cardinality(Ahead(R, set, x)) < n
    BY RankBelow
  <2>2. i \in 1..n
    BY <1>1, <2>1
  <2>3. Cardinality(Ahead(R, set, seq[i])) = Cardinality(Ahead(R, set, x))
    BY <2>1, <2>2
  <2>4. seq[i] \in set
    BY <2>2
  <2>5. ~(<<seq[i], x>> \in R) /\ ~(<<x, seq[i]>> \in R)
    BY <2>1, <2>3, <2>4, RankGrows
  <2> QED BY <2>2, <2>4, <2>5 DEF StrictTotal
<1> QED BY <1>3, <1>4 DEF SortedBy

-----------------------------------------------------------------------------
(* The index of the retrieval server.                                      *)
DocumentRow == [id : Server!Ids, file : DOMAIN Files, count : Nat]
IngestSteps == {"hash", "extract", "document", "chunks", "failed"}
RemovalSteps == {"remove", "removed"}
HandlerState == [at : {"idle"} \union IngestSteps \union RemovalSteps, file : DOMAIN Files \union {0}, id : {0} \union Server!Ids, next : Nat]
ChunksOf(id) == {c \in chunks : c[1] = id}
FirstChunks(id, n) == {<<id, k>> : k \in 1..n}

IndexTypes ==
  /\ documents \subseteq DocumentRow /\ copies \subseteq Server!Ids /\ chunks \subseteq Server!Ids \X Nat /\ told \subseteq Server!Ids /\ job \in HandlerState
  /\ session \in [id : Nat, count : Nat] /\ resets \subseteq Nat /\ sessions \in Nat /\ uploads \in 0..MaxUploads
  /\ \A d \in documents : d.id <= uploads
  /\ \A id \in told : id <= uploads

Chunked == \A c \in chunks : \E d \in documents : d.id = c[1] /\ c[2] <= d.count
FilesOnce == \A d, e \in documents : d.id = e.id \/ d.file = e.file => d = e
ToldWhole == \A d \in documents : d.id \in told \ hurt => d.id \in copies /\ ChunksOf(d.id) = FirstChunks(d.id, d.count)

\* Where the handler that holds the event loop has come to.
Ingesting ==
  job.at \in IngestSteps =>
    /\ job.id = uploads /\ job.id \in Server!Ids /\ job.file \in DOMAIN Files /\ job.id \notin told
    /\ job.at \in {"hash", "extract", "document"} => job.next = 1 /\ \A d \in documents : d.id # job.id
    /\ job.at \in {"extract", "document"} => job.id \in copies /\ ~Server!Duplicate(job.file)
    /\ job.at = "chunks" =>
         /\ [id |-> job.id, file |-> job.file, count |-> Server!Count(job.file)] \in documents
         /\ job.id \in copies /\ job.next \in 1..Server!Count(job.file) + 1 /\ ChunksOf(job.id) = FirstChunks(job.id, job.next - 1)
Clearing ==
  job.at \in RemovalSteps => Server!Removed \subseteq hurt /\ (job.at = "removed" => \A c \in chunks : c[1] \notin Server!Removed)

IndexInv == IndexTypes /\ Chunked /\ FilesOnce /\ ToldWhole /\ Ingesting /\ Clearing

LEMMA JobMoves ==
    ASSUME job \in HandlerState, NEW at \in {"idle"} \union IngestSteps \union RemovalSteps, Server!Job(at)
    PROVE  job' \in HandlerState /\ job'.at = at /\ job'.file = job.file /\ job'.id = job.id /\ job'.next = job.next
BY DEF Server!Job, HandlerState

LEMMA IdleJob == Server!Idle \in HandlerState /\ Server!Idle.at = "idle"
BY DEF Server!Idle, HandlerState

LEMMA IndexInitInv == Server!FilesInPieces /\ Server!Init => IndexInv
<1> SUFFICES ASSUME Server!FilesInPieces, Server!Init PROVE IndexInv
  OBVIOUS
<1>1. IndexTypes
  BY IdleJob DEF Server!Init, IndexTypes, Server!FilesInPieces
<1>2. Ingesting /\ Clearing
  BY IdleJob DEF Server!Init, Ingesting, Clearing, IngestSteps, RemovalSteps
<1> QED BY <1>1, <1>2 DEF Server!Init, IndexInv, Chunked, FilesOnce, ToldWhole

\* A handler that leaves the index alone, and is over or begins.
LEMMA RestKeepsIndex ==
    ASSUME Server!FilesInPieces, IndexInv, UNCHANGED <<documents, chunks, copies, Server!history>>, job' \in HandlerState, job'.at = "idle",
           session' \in [id : Nat, count : Nat], resets' \subseteq Nat, sessions' \in Nat, uploads' \in 0..MaxUploads, uploads <= uploads'
    PROVE  IndexInv'
<1>1. IndexTypes'
  <2>1. IndexTypes /\ Server!Ids \subseteq Nat /\ uploads \in Nat /\ uploads' \in Nat
    BY DEF IndexInv, IndexTypes, Server!Ids, Server!FilesInPieces
  <2>2. (\A d \in documents : d.id <= uploads') /\ \A id \in told : id <= uploads'
    <3>1. \A id \in Server!Ids : id <= uploads => id <= uploads'
      BY <2>1
    <3>2. \A d \in documents : d.id \in Server!Ids
      BY <2>1 DEF IndexTypes, DocumentRow
    <3> QED BY <2>1, <3>1, <3>2 DEF IndexTypes
  <2> QED BY <2>1, <2>2 DEF IndexTypes, Server!history
<1>2. Chunked' /\ FilesOnce' /\ ToldWhole'
  BY DEF IndexInv, Chunked, FilesOnce, ToldWhole, ChunksOf, FirstChunks, Server!history
<1>3. Ingesting' /\ Clearing'
  BY DEF Ingesting, Clearing, IngestSteps, RemovalSteps
<1> QED BY <1>1, <1>2, <1>3 DEF IndexInv

LEMMA UploadKeepsIndex == ASSUME Server!FilesInPieces, IndexInv, NEW f \in DOMAIN Files, Server!Upload(f) PROVE IndexInv'
<1>0. /\ UNCHANGED <<Server!store, session, resets, sessions, Server!history>> /\ uploads' = uploads + 1 /\ uploads < MaxUploads /\ IndexTypes /\ MaxUploads \in Nat
      /\ job = Server!Idle
  BY DEF Server!Upload, IndexInv, Server!FilesInPieces, Server!Free
<1>1. uploads \in Nat /\ uploads' \in Server!Ids /\ uploads' \in 0..MaxUploads /\ Server!Ids \subseteq Nat
  BY <1>0 DEF IndexTypes, Server!Ids
<1>2. CASE Files[f].kind = "unsupported"
  <2>1. job' = Server!Idle
    BY <1>0, <1>2 DEF Server!Upload
  <2> QED BY <1>0, <1>1, <2>1, IdleJob, RestKeepsIndex DEF Server!store, IndexTypes
<1>3. CASE Files[f].kind # "unsupported"
  <2>1. job' = [at |-> "hash", file |-> f, id |-> uploads', next |-> 1]
    BY <1>3 DEF Server!Upload
  <2>2. job' \in HandlerState
    BY <1>1, <2>1 DEF HandlerState, IngestSteps
  <2>3. IndexTypes'
    <3>1. (\A d \in documents : d.id <= uploads') /\ \A id \in told : id <= uploads'
      <4>1. \A id \in Server!Ids : id <= uploads => id <= uploads'
        BY <1>0, <1>1
      <4>2. \A d \in documents : d.id \in Server!Ids
        BY <1>0 DEF IndexTypes, DocumentRow
      <4> QED BY <1>0, <4>1, <4>2 DEF IndexTypes
    <3> QED BY <1>0, <1>1, <2>2, <3>1 DEF Server!store, Server!history, IndexTypes
  <2>4. \A d \in documents : d.id # uploads'
    BY <1>0, <1>1 DEF IndexTypes, DocumentRow
  <2>5. uploads' \notin told
    BY <1>0, <1>1 DEF IndexTypes
  <2>6. Ingesting'
    BY <1>0, <1>1, <2>1, <2>4, <2>5 DEF Ingesting, Server!store, Server!history
  <2>7. Chunked' /\ FilesOnce' /\ ToldWhole' /\ Clearing'
    BY <1>0, <2>1 DEF IndexInv, Chunked, FilesOnce, ToldWhole, ChunksOf, FirstChunks, Clearing, RemovalSteps, Server!store, Server!history
  <2> QED BY <2>3, <2>6, <2>7 DEF IndexInv
<1> QED BY <1>2, <1>3

\* One step of an ingestion that leaves the documents and the chunks alone.
LEMMA StepsKeepIndex ==
    ASSUME Server!FilesInPieces, IndexInv, Server!CheckAndCopy \/ Server!Extract \/ Server!TakeBack PROVE IndexInv'
<1>0. /\ IndexTypes /\ job \in HandlerState /\ Ingesting /\ job.at \in {"hash", "extract", "failed"}
      /\ UNCHANGED <<documents, chunks, session, resets, Server!history, Server!bounds>>
  BY DEF IndexInv, IndexTypes, Server!CheckAndCopy, Server!Extract, Server!TakeBack, Server!store
<1>1. ASSUME job' = Server!Idle, copies' \subseteq copies, copies \ copies' \subseteq {job.id} PROVE IndexInv'
  <2>1. IndexTypes'
    BY <1>0, <1>1, IdleJob DEF IndexTypes, Server!history, Server!bounds
  <2>2. ToldWhole'
    <3>1. job.id \notin told
      BY <1>0 DEF Ingesting, IngestSteps
    <3> QED BY <1>0, <1>1, <3>1 DEF IndexInv, ToldWhole, ChunksOf, Server!history
  <2>3. Chunked' /\ FilesOnce' /\ Ingesting' /\ Clearing'
    BY <1>0, <1>1, IdleJob DEF IndexInv, Chunked, FilesOnce, Ingesting, Clearing, IngestSteps, RemovalSteps
  <2> QED BY <2>1, <2>2, <2>3 DEF IndexInv
<1>2. ASSUME NEW at \in {"extract", "document", "failed"}, Server!Job(at), copies \subseteq copies', copies' \subseteq Server!Ids,
             at = "extract" => job.at = "hash" /\ ~Server!Duplicate(job.file) /\ job.id \in copies',
             at = "document" => job.at = "extract"
      PROVE  IndexInv'
  <2>1. job' \in HandlerState /\ job'.at = at /\ job'.file = job.file /\ job'.id = job.id /\ job'.next = job.next
    BY <1>0, <1>2, JobMoves DEF IngestSteps
  <2>2. IndexTypes'
    BY <1>0, <1>2, <2>1 DEF IndexTypes, Server!history, Server!bounds
  <2>3. Ingesting'
    BY <1>0, <1>2, <2>1 DEF Ingesting, IngestSteps, Server!Duplicate, Server!history, Server!bounds
  <2>4. Chunked' /\ FilesOnce' /\ ToldWhole' /\ Clearing'
    BY <1>0, <1>2, <2>1 DEF IndexInv, Chunked, FilesOnce, ToldWhole, ChunksOf, Clearing, RemovalSteps, Server!history
  <2> QED BY <2>2, <2>3, <2>4 DEF IndexInv
<1>3. CASE Server!CheckAndCopy
  <2>1. CASE Server!Duplicate(job.file)
    BY <1>1, <1>3, <2>1 DEF Server!CheckAndCopy
  <2>2. CASE ~Server!Duplicate(job.file)
    <3>1. Server!Job("extract") /\ copies' = copies \union {job.id} /\ job.at = "hash"
      BY <1>3, <2>2 DEF Server!CheckAndCopy
    <3>2. copies' \subseteq Server!Ids
      BY <1>0, <3>1 DEF IndexTypes, Ingesting, IngestSteps
    <3> QED BY <1>2, <2>2, <3>1, <3>2
  <2> QED BY <2>1, <2>2
<1>4. CASE Server!Extract
  <2>1. (Server!Job("document") \/ Server!Job("failed")) /\ UNCHANGED copies /\ job.at = "extract"
    BY <1>4 DEF Server!Extract, Server!store
  <2> QED BY <1>0, <1>2, <2>1 DEF IndexTypes
<1>5. CASE Server!TakeBack
  BY <1>1, <1>5 DEF Server!TakeBack
<1> QED BY <1>3, <1>4, <1>5

LEMMA InsertDocumentKeepsIndex == ASSUME Server!FilesInPieces, IndexInv, Server!InsertDocument PROVE IndexInv'
<1>0. /\ IndexTypes /\ job \in HandlerState /\ Ingesting /\ job.at = "document"
      /\ UNCHANGED <<chunks, copies, session, resets, Server!history, Server!bounds>>
  BY DEF IndexInv, IndexTypes, Server!InsertDocument
<1>1. /\ job.id = uploads /\ job.id \in Server!Ids /\ job.file \in DOMAIN Files /\ job.id \notin told /\ job.next = 1
      /\ (\A d \in documents : d.id # job.id) /\ job.id \in copies /\ ~Server!Duplicate(job.file)
  BY <1>0 DEF Ingesting, IngestSteps
<1>2. CASE Server!Job("failed") /\ UNCHANGED documents
  <2>1. job' \in HandlerState /\ job'.at = "failed" /\ job'.file = job.file /\ job'.id = job.id
    BY <1>0, <1>2, JobMoves DEF IngestSteps
  <2>2. IndexTypes'
    BY <1>0, <1>2, <2>1 DEF IndexTypes, Server!history, Server!bounds
  <2>3. Ingesting'
    BY <1>0, <1>1, <2>1 DEF Ingesting, Server!history, Server!bounds
  <2>4. Chunked' /\ FilesOnce' /\ ToldWhole' /\ Clearing'
    BY <1>0, <1>2, <2>1 DEF IndexInv, Chunked, FilesOnce, ToldWhole, ChunksOf, Clearing, RemovalSteps, Server!history
  <2> QED BY <2>2, <2>3, <2>4 DEF IndexInv
<1>3. CASE ~(Server!Job("failed") /\ UNCHANGED documents)
  <2> DEFINE row == [id |-> job.id, file |-> job.file, count |-> Server!Count(job.file)]
  <2>1. documents' = documents \union {row} /\ Server!Job("chunks")
    BY <1>3 DEF Server!InsertDocument
  <2>2. row \in DocumentRow /\ row.id = job.id /\ row.file = job.file /\ row.count = Server!Count(job.file) /\ Server!Count(job.file) \in Nat
    BY <1>1 DEF DocumentRow, Server!Count, Server!FilesInPieces
  <2> HIDE DEF row
  <2>3. job' \in HandlerState /\ job'.at = "chunks" /\ job'.file = job.file /\ job'.id = job.id /\ job'.next = 1
    BY <1>0, <1>1, <2>1, JobMoves DEF IngestSteps
  <2>4. IndexTypes'
    <3>1. uploads \in Nat
      BY <1>0 DEF IndexTypes
    <3> QED BY <1>0, <1>1, <2>1, <2>2, <2>3, <3>1 DEF IndexTypes, Server!history, Server!bounds
  <2>5. Chunked' /\ Clearing'
    BY <1>0, <2>1, <2>3 DEF IndexInv, Chunked, Clearing, RemovalSteps
  <2>6. FilesOnce'
    BY <1>1, <2>1, <2>2 DEF IndexInv, FilesOnce, Server!Duplicate
  <2>7. ToldWhole'
    BY <1>0, <1>1, <2>1, <2>2 DEF IndexInv, ToldWhole, ChunksOf, Server!history
  <2>8. \A c \in chunks : c[1] # job.id
    BY <1>1 DEF IndexInv, Chunked
  <2>9. ChunksOf(job.id)' = {} /\ FirstChunks(job.id, 1 - 1) = {}
    BY <1>0, <2>3, <2>8 DEF ChunksOf, FirstChunks
  <2>10. [id |-> job.id, file |-> job.file, count |-> Server!Count(job.file)] \in documents'
    BY <2>1 DEF row
  <2>11. Ingesting'
    <3>1. 1 \in 1..Server!Count(job.file) + 1
      BY <2>2
    <3> QED BY <1>0, <1>1, <2>3, <2>9, <2>10, <3>1 DEF Ingesting, Server!history, Server!bounds, Server!Count
  <2> QED BY <2>4, <2>5, <2>6, <2>7, <2>11 DEF IndexInv
<1> QED BY <1>2, <1>3

LEMMA InsertChunkKeepsIndex == ASSUME Server!FilesInPieces, IndexInv, Server!InsertChunk PROVE IndexInv'
<1>0. /\ IndexTypes /\ job \in HandlerState /\ Ingesting /\ job.at = "chunks" /\ job.next <= Server!Count(job.file)
      /\ UNCHANGED <<documents, copies, session, resets, Server!history, Server!bounds>>
  BY DEF IndexInv, IndexTypes, Server!InsertChunk
<1> DEFINE row == [id |-> job.id, file |-> job.file, count |-> Server!Count(job.file)]
<1>1. /\ job.id = uploads /\ job.id \in Server!Ids /\ job.file \in DOMAIN Files /\ job.id \notin told /\ job.id \in copies
      /\ row \in documents /\ job.next \in 1..Server!Count(job.file) + 1 /\ ChunksOf(job.id) = FirstChunks(job.id, job.next - 1)
  BY <1>0 DEF Ingesting, IngestSteps
<1>2. Server!Count(job.file) \in Nat /\ row.id = job.id /\ row.count = Server!Count(job.file) /\ job.next \in Nat
  BY <1>1 DEF Server!Count, Server!FilesInPieces
<1>3. CASE Server!Job("failed") /\ UNCHANGED chunks
  <2>1. job' \in HandlerState /\ job'.at = "failed" /\ job'.file = job.file /\ job'.id = job.id
    BY <1>0, <1>3, JobMoves DEF IngestSteps
  <2>2. IndexTypes'
    BY <1>0, <1>3, <2>1 DEF IndexTypes, Server!history, Server!bounds
  <2>3. Ingesting'
    BY <1>0, <1>1, <2>1 DEF Ingesting, Server!history, Server!bounds
  <2>4. Chunked' /\ FilesOnce' /\ ToldWhole' /\ Clearing'
    BY <1>0, <1>3, <2>1 DEF IndexInv, Chunked, FilesOnce, ToldWhole, ChunksOf, Clearing, RemovalSteps, Server!history
  <2> QED BY <2>2, <2>3, <2>4 DEF IndexInv
<1>4. CASE ~(Server!Job("failed") /\ UNCHANGED chunks)
  <2> HIDE DEF row
  <2>1. chunks' = chunks \union {<<job.id, job.next>>} /\ job' = [job EXCEPT !.next = @ + 1]
    BY <1>4 DEF Server!InsertChunk
  <2>2. job' \in HandlerState /\ job'.at = "chunks" /\ job'.file = job.file /\ job'.id = job.id /\ job'.next = job.next + 1
    BY <1>0, <2>1 DEF HandlerState
  <2>3. IndexTypes'
    BY <1>0, <1>1, <1>2, <2>1, <2>2 DEF IndexTypes, Server!history, Server!bounds
  <2>4. Chunked'
    BY <1>0, <1>1, <1>2, <2>1 DEF IndexInv, Chunked
  <2>5. FilesOnce' /\ Clearing'
    BY <1>0, <2>2 DEF IndexInv, FilesOnce, Clearing, RemovalSteps
  <2>6. \A id : id # job.id => ChunksOf(id)' = ChunksOf(id)
    BY <2>1 DEF ChunksOf
  <2>7. ToldWhole'
    BY <1>0, <1>1, <2>6 DEF IndexInv, ToldWhole, Server!history
  <2>8. ChunksOf(job.id)' = ChunksOf(job.id) \union {<<job.id, job.next>>}
    BY <2>1, <2>2 DEF ChunksOf
  <2>9. FirstChunks(job.id, job.next - 1) \union {<<job.id, job.next>>} = FirstChunks(job.id, job.next)
    <3>1. 1..job.next = (1..job.next - 1) \union {job.next}
      BY <1>1, <1>2
    <3> QED BY <3>1 DEF FirstChunks
  <2>10. ChunksOf(job.id)' = FirstChunks(job.id, job'.next - 1)
    BY <1>2, <1>1, <2>2, <2>8, <2>9
  <2>11. job'.next \in 1..Server!Count(job.file) + 1
    BY <1>0, <1>1, <1>2, <2>2
  <2>12. [id |-> job.id, file |-> job.file, count |-> Server!Count(job.file)] \in documents'
    BY <1>0, <1>1 DEF row
  <2>13. Ingesting'
    <3>1. Server!Count(job.file)' = Server!Count(job.file)
      BY <2>2 DEF Server!Count
    <3>2. FirstChunks(job.id, job.next - 1)' = FirstChunks(job.id, job'.next - 1)
      BY <2>2 DEF FirstChunks
    <3> QED BY <1>0, <1>1, <2>2, <2>10, <2>11, <2>12, <3>1, <3>2 DEF Ingesting, Server!history, Server!bounds
  <2> QED BY <2>3, <2>4, <2>5, <2>7, <2>13 DEF IndexInv
<1> QED BY <1>3, <1>4

\* The last chunk is in: the document is whole.
LEMMA ReportKeepsIndex == ASSUME Server!FilesInPieces, IndexInv, Server!Report PROVE IndexInv'
<1>0. /\ IndexTypes /\ job \in HandlerState /\ Ingesting /\ job.at = "chunks" /\ job.next > Server!Count(job.file) /\ job' = Server!Idle
      /\ told' = told \union {job.id} /\ UNCHANGED <<Server!store, session, resets, hurt, Server!bounds>>
  BY DEF IndexInv, IndexTypes, Server!Report, Server!Indexed
<1> DEFINE row == [id |-> job.id, file |-> job.file, count |-> Server!Count(job.file)]
<1>1. /\ job.id = uploads /\ job.id \in Server!Ids /\ job.file \in DOMAIN Files /\ job.id \in copies
      /\ row \in documents /\ job.next \in 1..Server!Count(job.file) + 1 /\ ChunksOf(job.id) = FirstChunks(job.id, job.next - 1)
  BY <1>0 DEF Ingesting, IngestSteps
<1>2. Server!Count(job.file) \in Nat /\ row.id = job.id /\ row.count = Server!Count(job.file)
  BY <1>1 DEF Server!Count, Server!FilesInPieces
<1>3. ChunksOf(job.id) = FirstChunks(job.id, Server!Count(job.file))
  <2>1. job.next - 1 = Server!Count(job.file)
    BY <1>0, <1>1, <1>2
  <2> QED BY <1>1, <2>1
<1> HIDE DEF row
<1>4. IndexTypes'
  <2>1. uploads \in Nat
    BY <1>0 DEF IndexTypes
  <2> QED BY <1>0, <1>1, <2>1, IdleJob DEF IndexTypes, Server!store, Server!bounds
<1>5. Chunked' /\ FilesOnce' /\ Ingesting' /\ Clearing'
  BY <1>0, IdleJob DEF IndexInv, Chunked, FilesOnce, Ingesting, Clearing, IngestSteps, RemovalSteps, Server!store
<1>6. ToldWhole'
  <2> SUFFICES ASSUME NEW d \in documents, d.id \in told' \ hurt
               PROVE  d.id \in copies /\ ChunksOf(d.id) = FirstChunks(d.id, d.count)
    BY <1>0 DEF ToldWhole, Server!store, ChunksOf
  <2>1. CASE d.id = job.id
    <3>1. d = row
      BY <1>1, <1>2, <2>1 DEF IndexInv, FilesOnce
    <3> QED BY <1>1, <1>2, <1>3, <3>1
  <2>2. CASE d.id # job.id
    BY <1>0, <2>2 DEF IndexInv, ToldWhole
  <2> QED BY <2>1, <2>2
<1> QED BY <1>4, <1>5, <1>6 DEF IndexInv

LEMMA StartRemovalKeepsIndex == ASSUME Server!FilesInPieces, IndexInv, NEW id \in {0} \union Server!Live, Server!StartRemoval(id) PROVE IndexInv'
<1>0. /\ IndexTypes /\ job = Server!Idle /\ job' = [Server!Idle EXCEPT !.at = "remove", !.id = id]
      /\ hurt' = hurt \union (IF id = 0 THEN {d.id : d \in documents} ELSE {id})
      /\ UNCHANGED <<Server!store, session, resets, sessions, told, uploads>>
  BY DEF IndexInv, Server!StartRemoval, Server!Free
<1>1. Server!Live \subseteq Server!Ids
  BY <1>0 DEF Server!Live, IndexTypes, DocumentRow
<1>2. job' \in HandlerState /\ job'.at = "remove" /\ job'.id = id
  BY <1>0, <1>1 DEF Server!Idle, HandlerState, RemovalSteps
<1>3. IndexTypes'
  BY <1>0, <1>2 DEF IndexTypes, Server!store
<1>4. Chunked' /\ FilesOnce' /\ ToldWhole' /\ Ingesting'
  BY <1>0, <1>2 DEF IndexInv, Chunked, FilesOnce, ToldWhole, ChunksOf, Ingesting, IngestSteps, Server!store
<1>5. Clearing'
  BY <1>0, <1>2 DEF Clearing, Server!Removed, RemovalSteps, Server!store
<1> QED BY <1>3, <1>4, <1>5 DEF IndexInv

LEMMA DeleteChunksKeepsIndex == ASSUME Server!FilesInPieces, IndexInv, Server!DeleteChunks PROVE IndexInv'
<1>0. /\ IndexTypes /\ job \in HandlerState /\ job.at = "remove" /\ Server!Job("removed") /\ Clearing
      /\ chunks' = {c \in chunks : c[1] \notin Server!Removed} /\ UNCHANGED <<documents, copies, session, resets, Server!history, Server!bounds>>
  BY DEF IndexInv, IndexTypes, Server!DeleteChunks
<1>1. job' \in HandlerState /\ job'.at = "removed" /\ job'.id = job.id
  BY <1>0, JobMoves DEF RemovalSteps
<1>2. Server!Removed' = Server!Removed /\ Server!Removed \subseteq hurt
  BY <1>0, <1>1 DEF Server!Removed, Clearing, RemovalSteps
<1>3. IndexTypes'
  BY <1>0, <1>1 DEF IndexTypes, Server!history, Server!bounds
<1>4. Chunked' /\ FilesOnce' /\ Ingesting' /\ Clearing'
  BY <1>0, <1>1, <1>2 DEF IndexInv, Chunked, FilesOnce, Ingesting, Clearing, IngestSteps, Server!history
<1>5. ToldWhole'
  <2> SUFFICES ASSUME NEW d \in documents, d.id \in told \ hurt
               PROVE  d.id \in copies /\ ChunksOf(d.id)' = FirstChunks(d.id, d.count)
    BY <1>0 DEF ToldWhole, Server!history, ChunksOf
  <2>1. d.id \notin Server!Removed
    BY <1>2
  <2>2. ChunksOf(d.id)' = ChunksOf(d.id)
    BY <1>0, <2>1 DEF ChunksOf
  <2> QED BY <2>2 DEF IndexInv, ToldWhole
<1> QED BY <1>3, <1>4, <1>5 DEF IndexInv

LEMMA DeleteDocumentsKeepsIndex == ASSUME Server!FilesInPieces, IndexInv, Server!DeleteDocuments PROVE IndexInv'
<1>0. /\ IndexTypes /\ job.at = "removed" /\ job' = Server!Idle /\ Clearing
      /\ documents' = {d \in documents : d.id \notin Server!Removed} /\ UNCHANGED <<chunks, copies, session, resets, Server!history, Server!bounds>>
  BY DEF IndexInv, Server!DeleteDocuments
<1>1. \A c \in chunks : c[1] \notin Server!Removed
  BY <1>0 DEF Clearing, RemovalSteps
<1>2. IndexTypes'
  BY <1>0, IdleJob DEF IndexTypes, Server!history, Server!bounds
<1>3. Chunked'
  BY <1>0, <1>1 DEF IndexInv, Chunked
<1>4. FilesOnce' /\ ToldWhole' /\ Ingesting' /\ Clearing'
  BY <1>0, IdleJob DEF IndexInv, FilesOnce, ToldWhole, ChunksOf, Ingesting, Clearing, IngestSteps, RemovalSteps, Server!history
<1> QED BY <1>2, <1>3, <1>4 DEF IndexInv

\* Everything else goes on while no handler holds the loop, or ends what holds it.
LEMMA OthersKeepIndex ==
    ASSUME Server!FilesInPieces, IndexInv, Server!Ask \/ Server!Answer \/ Server!Reset \/ Server!EndReset \/ Server!Crash PROVE IndexInv'
<1>1. IndexTypes /\ session \in [id : Nat, count : Nat] /\ uploads \in 0..MaxUploads /\ uploads <= uploads
  BY DEF IndexInv, IndexTypes
<1>2. job' = Server!Idle /\ UNCHANGED <<documents, chunks, copies, Server!history>> /\ uploads' = uploads
  BY DEF Server!Ask, Server!Answer, Server!Reset, Server!EndReset, Server!Crash, Server!Free, Server!store, Server!bounds
<1>3. [session EXCEPT !.count = @ + 1] \in [id : Nat, count : Nat]
  BY <1>1
<1>4. session' \in [id : Nat, count : Nat] /\ resets' \subseteq Nat /\ sessions' \in Nat
  <2>1. CASE Server!Ask
    <3>1. UNCHANGED session \/ session' = [session EXCEPT !.count = @ + 1]
      <4>1. CASE Server!AskDocuments
        BY <4>1 DEF Server!AskDocuments, Server!Send, Server!Skip
      <4>2. CASE Server!Chat
        BY <4>2 DEF Server!Chat, Server!Send, Server!Skip
      <4>3. CASE Server!AskPersonal
        BY <4>3 DEF Server!AskPersonal
      <4> QED BY <2>1, <4>1, <4>2, <4>3 DEF Server!Ask
    <3> QED BY <1>1, <1>3, <2>1, <3>1 DEF Server!Ask, IndexTypes
  <2>2. CASE Server!Answer
    BY <1>1, <1>3, <2>2 DEF Server!Answer, Server!bounds, IndexTypes
  <2>3. CASE Server!Reset
    BY <1>1, <2>3 DEF Server!Reset, IndexTypes
  <2>4. CASE Server!EndReset
    BY <1>1, <2>4 DEF Server!EndReset, Server!bounds, IndexTypes
  <2>5. CASE Server!Crash
    BY <1>1, <2>5 DEF Server!Crash, IndexTypes
  <2> QED BY <2>1, <2>2, <2>3, <2>4, <2>5
<1> QED BY <1>1, <1>2, <1>4, IdleJob, RestKeepsIndex

LEMMA IndexStep == Server!FilesInPieces /\ IndexInv /\ [Server!Next]_(Server!vars) => IndexInv'
<1> SUFFICES ASSUME Server!FilesInPieces, IndexInv, [Server!Next]_(Server!vars) PROVE IndexInv'
  OBVIOUS
<1>1. CASE \E f \in DOMAIN Files : Server!Upload(f)
  BY <1>1, UploadKeepsIndex
<1>2. CASE \E id \in {0} \union Server!Live : Server!StartRemoval(id)
  BY <1>2, StartRemovalKeepsIndex
<1>3. CASE Server!Step
  <2>1. CASE Server!CheckAndCopy \/ Server!Extract \/ Server!TakeBack
    BY <2>1, StepsKeepIndex
  <2>2. CASE Server!InsertDocument \/ Server!InsertChunk \/ Server!Report
    BY <2>2, InsertDocumentKeepsIndex, InsertChunkKeepsIndex, ReportKeepsIndex
  <2>3. CASE Server!DeleteChunks \/ Server!DeleteDocuments
    BY <2>3, DeleteChunksKeepsIndex, DeleteDocumentsKeepsIndex
  <2> QED BY <1>3, <2>1, <2>2, <2>3 DEF Server!Step
<1>4. CASE Server!Ask \/ Server!Answer \/ Server!Reset \/ Server!EndReset \/ Server!Crash
  BY <1>4, OthersKeepIndex
<1>5. CASE UNCHANGED Server!vars
  <2>1. UNCHANGED <<documents, chunks, copies, job, session, resets, told, hurt, uploads, sessions>>
    BY <1>5 DEF Server!vars, Server!store, Server!history, Server!bounds
  <2>2. IndexTypes' /\ Chunked' /\ FilesOnce' /\ ToldWhole'
    BY <2>1 DEF IndexInv, IndexTypes, Chunked, FilesOnce, ToldWhole, ChunksOf
  <2>3. Ingesting' /\ Clearing'
    BY <2>1 DEF IndexInv, Ingesting, Clearing, ChunksOf, Server!Duplicate, Server!Removed
  <2> QED BY <2>2, <2>3 DEF IndexInv
<1> QED BY <1>1, <1>2, <1>3, <1>4, <1>5 DEF Server!Next

LEMMA IndexInvHolds == ASSUME Server!FilesInPieces PROVE Server!Spec => []IndexInv
BY IndexInitInv, IndexStep, PTL DEF Server!Spec

LEMMA ServerTypesGiven == IndexInv => Server!TypeOK
BY DEF IndexInv, IndexTypes, DocumentRow, HandlerState, Server!TypeOK

\* The server's variables have their types, for any uploads in finitely many pieces.
THEOREM ServerTypeCorrect == ASSUME Server!FilesInPieces PROVE Server!Spec => []Server!TypeOK
BY ServerTypesGiven, IndexInvHolds, PTL

LEMMA ServerCounts == \A set : Server!Cardinality(set) = Cardinality(set)
BY DEF Server!Cardinality, Cardinality

LEMMA FirstChunksCount == ASSUME NEW id, NEW n \in Nat PROVE Cardinality(FirstChunks(id, n)) = n
<1> DEFINE f == [k \in 1..n |-> <<id, k>>]
<1>1. f \in Bijection(1..n, FirstChunks(id, n))
  BY DEF FirstChunks, Bijection, Injection, Surjection, IsInjective
<1>2. IsFiniteSet(1..n) /\ Cardinality(1..n) = n
  BY FS_Interval
<1>3. ExistsBijection(1..n, FirstChunks(id, n))
  BY <1>1 DEF ExistsBijection
<1>4. \A A, T : IsFiniteSet(A) /\ ExistsBijection(A, T) => Cardinality(T) = Cardinality(A)
  BY FS_Bijection
<1> QED BY <1>2, <1>3, <1>4

LEMMA IndexSuffices == IndexInv => Server!IndexSound
<1> SUFFICES ASSUME IndexInv PROVE Server!IndexSound
  OBVIOUS
<1>1. ASSUME NEW d \in documents, d.id \in told \ hurt
      PROVE  d.id \in copies /\ Cardinality({c \in chunks : c[1] = d.id}) = d.count
  <2>1. d.id \in copies /\ ChunksOf(d.id) = FirstChunks(d.id, d.count) /\ d.count \in Nat
    BY <1>1 DEF IndexInv, ToldWhole, IndexTypes, DocumentRow
  <2> QED BY <2>1, FirstChunksCount DEF ChunksOf
<1>2. \A d \in documents : d.id \in told \ hurt =>
        d.id \in copies /\ Server!Cardinality({c \in chunks : c[1] = d.id}) = d.count
  BY <1>1, ServerCounts
<1>3. (\A c \in chunks : \E d \in documents : d.id = c[1] /\ c[2] <= d.count)
      /\ \A d, e \in documents : d.file = e.file => d = e
  BY DEF IndexInv, Chunked, FilesOnce
<1> QED BY <1>2, <1>3 DEF Server!IndexSound

\* For any uploads, failures and crashes between two statements: no chunk without its document, no file twice, and what was
\* reported as indexed is complete until its removal is begun (ingest_file, delete_document, clear_corpus).
THEOREM IndexIsSound == ASSUME Server!FilesInPieces PROVE Server!Spec => []Server!IndexSound
BY IndexSuffices, IndexInvHolds, PTL

-----------------------------------------------------------------------------
(* What a question is answered from.                                       *)

\* Rows that are there have pieces behind them.
Pieced ==
  /\ IsFiniteSet(chunks) /\ \A c \in chunks : c[2] # 0
  /\ \A d \in documents : d.count = Server!Count(d.file)

LEMMA PiecedInit == Server!Init => Pieced
BY FS_EmptySet DEF Server!Init, Pieced

LEMMA PiecedStep == ASSUME Server!FilesInPieces, IndexInv, Pieced, [Server!Next]_(Server!vars) PROVE Pieced'
<1>1. \/ chunks' \subseteq chunks
      \/ Server!InsertChunk /\ job.at = "chunks" /\ chunks' = chunks \union {<<job.id, job.next>>}
  BY DEF Server!Next, Server!vars, Server!store, Server!Upload, Server!StartRemoval, Server!Step, Server!Ask, Server!Answer, Server!Reset,
         Server!EndReset, Server!Crash, Server!CheckAndCopy, Server!Extract, Server!InsertDocument, Server!InsertChunk, Server!Report,
         Server!TakeBack, Server!DeleteChunks, Server!DeleteDocuments
<1>2. \/ documents' \subseteq documents
      \/ documents' = documents \union {[id |-> job.id, file |-> job.file, count |-> Server!Count(job.file)]}
  BY DEF Server!Next, Server!vars, Server!store, Server!Upload, Server!StartRemoval, Server!Step, Server!Ask, Server!Answer, Server!Reset,
         Server!EndReset, Server!Crash, Server!CheckAndCopy, Server!Extract, Server!InsertDocument, Server!InsertChunk, Server!Report,
         Server!TakeBack, Server!DeleteChunks, Server!DeleteDocuments
<1>3. \A d \in documents' : d.count = Server!Count(d.file)
  BY <1>2 DEF Pieced
<1>4. IsFiniteSet(chunks') /\ \A c \in chunks' : c[2] # 0
  <2>1. CASE chunks' \subseteq chunks
    BY <2>1, FS_Subset DEF Pieced
  <2>2. CASE job.at = "chunks" /\ chunks' = chunks \union {<<job.id, job.next>>}
    <3>1. job.next # 0
      <4>1. job.next \in 1..Server!Count(job.file) + 1 /\ Server!Count(job.file) \in Nat
        BY <2>2 DEF IndexInv, Ingesting, IngestSteps, Server!Count, Server!FilesInPieces
      <4> QED BY <4>1
    <3>2. IsFiniteSet(chunks')
      BY <2>2, FS_AddElement DEF Pieced
    <3>3. \A c \in chunks' : c \in chunks \/ c[2] = job.next
      BY <2>2
    <3> QED BY <3>1, <3>2, <3>3 DEF Pieced
  <2> QED BY <1>1, <2>1, <2>2
<1> QED BY <1>3, <1>4 DEF Pieced, Server!Count

LEMMA PieceTyped ==
  ASSUME Server!FilesInPieces, Server!QuestionsAllowed, IndexInv, Pieced, NEW c \in chunks
  PROVE  Server!Piece(c).strong \in BOOLEAN /\ Server!Piece(c).score \in Int
<1> DEFINE d == CHOOSE d \in documents : d.id = c[1]
<1>1. PICK e \in documents : e.id = c[1] /\ c[2] <= e.count
  BY DEF IndexInv, Chunked
<1>2. d \in documents /\ d.id = c[1]
  BY <1>1
<1>3. d = e
  BY <1>1, <1>2 DEF IndexInv, FilesOnce
<1> HIDE DEF d
<1>4. d.file \in DOMAIN Files /\ c[2] \in Nat /\ c[2] # 0 /\ d.count = Server!Count(d.file) /\ d.count \in Nat
  BY <1>2 DEF IndexInv, IndexTypes, DocumentRow, Pieced
<1>5. c[2] \in 1..Len(Files[d.file].pieces)
  BY <1>1, <1>3, <1>4 DEF Server!Count
<1>6. Server!Piece(c) = Files[d.file].pieces[c[2]]
  BY DEF Server!Piece, d
<1> QED BY <1>4, <1>5, <1>6 DEF Server!QuestionsAllowed

RankOrder(cs) == {r \in cs \X cs : Server!Before(r[1], r[2])}

LEMMA BeforeIs ==
  ASSUME Server!FilesInPieces, Server!QuestionsAllowed, IndexInv, Pieced, NEW cs, cs \subseteq chunks
  PROVE  StrictTotal(RankOrder(cs), cs)
<1> DEFINE strong(c) == Server!Piece(c).strong
           score(c) == Server!Piece(c).score
<1>1. \A c \in cs : strong(c) \in BOOLEAN /\ score(c) \in Int /\ c[1] \in Int /\ c[2] \in Int
  BY PieceTyped DEF IndexInv, IndexTypes, Server!Ids
<1>2. \A c, d \in cs : c # d => c[1] # d[1] \/ c[2] # d[2]
  BY DEF IndexInv, IndexTypes
<1>3. \A c, d \in cs : <<c, d>> \in RankOrder(cs) <=>
        IF strong(c) # strong(d) THEN strong(c)
        ELSE score(c) > score(d) \/ (score(c) = score(d) /\ (c[1] < d[1] \/ (c[1] = d[1] /\ c[2] < d[2])))
  BY DEF RankOrder, Server!Before, Server!Nearer, Server!Older
<1> HIDE DEF strong, score
<1>4. \A c \in cs : <<c, c>> \notin RankOrder(cs)
  BY <1>1, <1>3
<1>5. \A c, d \in cs : c # d => <<c, d>> \in RankOrder(cs) \/ <<d, c>> \in RankOrder(cs)
  BY <1>1, <1>2, <1>3
<1>6. \A c, d, e \in cs : <<c, d>> \in RankOrder(cs) /\ <<d, e>> \in RankOrder(cs) => <<c, e>> \in RankOrder(cs)
  BY <1>1, <1>3
<1> QED BY <1>4, <1>5, <1>6 DEF StrictTotal

LEMMA RankedSorts ==
  ASSUME NEW cs, IsFiniteSet(cs), StrictTotal(RankOrder(cs), cs)
  PROVE  SortedBy(RankOrder(cs), cs, Server!Ranked(cs))
<1> DEFINE seq == Server!Ranked(cs)
<1>1. \A c \in cs : Ahead(RankOrder(cs), cs, c) = {d \in cs : Server!Before(d, c)}
  BY DEF Ahead, RankOrder
<1>2. \A i \in 1..Cardinality(cs) : \E c \in cs : Cardinality({d \in cs : Server!Before(d, c)}) = i - 1
  BY <1>1, RanksTaken
<1>3. \A i \in 1..Cardinality(cs) : seq[i] \in cs /\ Cardinality({d \in cs : Server!Before(d, seq[i])}) = i - 1
  BY <1>2, ServerCounts DEF Server!Ranked
<1>4. seq \in [1..Cardinality(cs) -> cs]
  BY <1>3, ServerCounts DEF Server!Ranked
<1> HIDE DEF seq
<1>5. \A i \in 1..Cardinality(cs) : Cardinality(Ahead(RankOrder(cs), cs, seq[i])) = i - 1
  BY <1>1, <1>3
<1> QED BY <1>4, <1>5, RankedIsSorted DEF seq

\* A cut of what is ranked, no document with fewer than least.
Leading(cut, ids, m, least) ==
  \E pool, cap : /\ cap \in Nat /\ least <= cap
                 /\ \E k \in 0..Cardinality(Server!Within(Server!Candidates(ids, m, pool), cap)) :
                      cut = SubSeq(Server!Ranked(Server!Within(Server!Candidates(ids, m, pool), cap)), 1, k)

LEMMA WithinChunks == ASSUME NEW ids, NEW m, NEW pool, NEW cap
  PROVE  /\ Server!Within(Server!Candidates(ids, m, pool), cap) \subseteq Server!Candidates(ids, m, pool)
         /\ Server!Candidates(ids, m, pool) \subseteq Server!Eligible(ids, m) /\ Server!Eligible(ids, m) \subseteq chunks
BY DEF Server!Within, Server!Candidates, Server!Near, Server!Eligible, Server!InScope

LEMMA LeadingIs ==
  ASSUME Server!FilesInPieces, Server!QuestionsAllowed, IndexInv, Pieced, NEW cs, cs \subseteq chunks,
         NEW k \in 0..Cardinality(cs), NEW cut, cut = SubSeq(Server!Ranked(cs), 1, k)
  PROVE  /\ IsFiniteSet(cs) /\ Cardinality(cs) \in Nat /\ SortedBy(RankOrder(cs), cs, Server!Ranked(cs))
         /\ cut \in [1..k -> cs] /\ Len(cut) = k /\ \A i \in 1..k : cut[i] = Server!Ranked(cs)[i]
<1>1. IsFiniteSet(cs) /\ Cardinality(cs) \in Nat
  BY FS_Subset, FS_CardinalityType DEF Pieced
<1>2. SortedBy(RankOrder(cs), cs, Server!Ranked(cs))
  BY <1>1, BeforeIs, RankedSorts
<1> DEFINE r == Server!Ranked(cs)
<1>3. r \in [1..Cardinality(cs) -> cs]
  BY <1>2 DEF SortedBy
<1> HIDE DEF r
<1>4. r \in Seq(cs) /\ Len(r) = Cardinality(cs)
  BY <1>1, <1>3
<1>5. /\ cut \in [1..k -> cs] /\ Len(cut) = k /\ \A i \in 1..k : cut[i] = r[i]
  <2>1. cut = SubSeq(r, 1, k) /\ k \in Nat /\ k <= Len(r)
    BY <1>1, <1>4 DEF r
  <2>2. cut = [i \in 1..k |-> r[i]]
    BY <1>4, <2>1
  <2>3. \A i \in 1..k : r[i] \in cs
    BY <1>1, <1>3
  <2>4. Len(cut) = k
    BY <2>1, <2>2
  <2> QED BY <2>2, <2>3, <2>4
<1> QED BY <1>1, <1>2, <1>5 DEF r

\* Those of a document that come before a strong hit which is beyond the cap: the first of them are within it.
LEMMA CapIsFull ==
  ASSUME Server!FilesInPieces, Server!QuestionsAllowed, IndexInv, Pieced, NEW cs, cs \subseteq chunks, NEW cap \in Nat,
         NEW c \in cs, c \notin Server!Within(cs, cap), Server!Piece(c).strong
  PROVE  \E first \in [1..cap -> Server!Within(cs, cap)] :
           /\ \A i \in 1..cap : first[i][1] = c[1] /\ Server!Piece(first[i]).strong
           /\ \A i, j \in 1..cap : first[i] = first[j] => i = j
<1> DEFINE B == {d \in cs : d[1] = c[1] /\ Server!Before(d, c)}
           R == RankOrder(cs)
           Q == RankOrder(B)
<1>1. IsFiniteSet(B) /\ Cardinality(B) \in Nat /\ B \subseteq cs
  BY FS_Subset, FS_CardinalityType DEF Pieced
<1>2. cap <= Cardinality(B)
  BY <1>1, ServerCounts DEF Server!Within
<1>3. StrictTotal(R, cs) /\ StrictTotal(Q, B)
  BY <1>1, BeforeIs
<1>4. \A x, y \in cs : <<x, y>> \in R <=> Server!Before(x, y)
  BY DEF RankOrder
<1>5. \A x \in B : Ahead(Q, B, x) = {d \in cs : d[1] = x[1] /\ Server!Before(d, x)}
  <2> SUFFICES ASSUME NEW x \in B, NEW d \in cs, d[1] = x[1], Server!Before(d, x) PROVE d \in B
    BY DEF Ahead, RankOrder
  <2>1. <<d, x>> \in R /\ <<x, c>> \in R
    BY <1>4
  <2>2. <<d, c>> \in R
    BY <1>1, <1>3, <2>1 DEF StrictTotal
  <2> QED BY <1>4, <2>2
<1>6. \A d \in B : Server!Piece(d).strong
  BY PieceTyped DEF Server!Before
<1> HIDE DEF B
<1> DEFINE first == [i \in 1..cap |-> CHOOSE x \in B : Cardinality(Ahead(Q, B, x)) = i - 1]
<1>7. \A i \in 1..cap : first[i] \in B /\ Cardinality(Ahead(Q, B, first[i])) = i - 1
  BY <1>1, <1>2, <1>3, RanksTaken
<1> HIDE DEF first
<1>8. \A i \in 1..cap : first[i] \in Server!Within(cs, cap)
  <2> SUFFICES ASSUME NEW i \in 1..cap PROVE first[i] \in Server!Within(cs, cap)
    OBVIOUS
  <2>1. first[i] \in B /\ Cardinality({d \in cs : d[1] = first[i][1] /\ Server!Before(d, first[i])}) < cap
    <3>1. first[i] \in B /\ Cardinality(Ahead(Q, B, first[i])) = i - 1 /\ i - 1 < cap
      BY <1>7
    <3>2. Ahead(Q, B, first[i]) = {d \in cs : d[1] = first[i][1] /\ Server!Before(d, first[i])}
      BY <1>5, <3>1
    <3> QED BY <3>1, <3>2
  <2> QED BY <1>1, <2>1, ServerCounts DEF Server!Within
<1>9. first \in [1..cap -> Server!Within(cs, cap)]
  BY <1>8 DEF first
<1>10. \A i \in 1..cap : first[i][1] = c[1] /\ Server!Piece(first[i]).strong
  BY <1>6, <1>7 DEF B
<1>11. \A i, j \in 1..cap : first[i] = first[j] => i = j
  BY <1>7
<1> QED BY <1>9, <1>10, <1>11

LEMMA LeadingIsSound ==
  ASSUME Server!FilesInPieces, Server!QuestionsAllowed, IndexInv, Pieced, NEW ids, NEW m, NEW least \in Nat, NEW cut, Leading(cut, ids, m, least)
  PROVE  /\ Server!ToSet(cut) \subseteq Server!Eligible(ids, m) /\ Cardinality(Server!ToSet(cut)) = Len(cut)
         /\ \A c \in Server!Eligible(ids, m) : Server!Piece(c).strong /\ c \notin Server!ToSet(cut) =>
              \/ \A i \in DOMAIN cut : Server!Piece(cut[i]).strong
              \/ Cardinality(Server!OfDocument(cut, c[1])) >= least
<1>1. PICK pool, cap : /\ cap \in Nat /\ least <= cap
                       /\ \E k \in 0..Cardinality(Server!Within(Server!Candidates(ids, m, pool), cap)) :
                            cut = SubSeq(Server!Ranked(Server!Within(Server!Candidates(ids, m, pool), cap)), 1, k)
  BY DEF Leading
<1> DEFINE cs == Server!Candidates(ids, m, pool)
           w == Server!Within(cs, cap)
           r == Server!Ranked(w)
<1>2. PICK k \in 0..Cardinality(w) : cut = SubSeq(r, 1, k)
  BY <1>1
<1>3. w \subseteq cs /\ cs \subseteq Server!Eligible(ids, m) /\ Server!Eligible(ids, m) \subseteq chunks
  BY WithinChunks
<1>4. /\ IsFiniteSet(w) /\ Cardinality(w) \in Nat /\ SortedBy(RankOrder(w), w, r)
      /\ cut \in [1..k -> w] /\ Len(cut) = k /\ \A i \in 1..k : cut[i] = r[i]
  BY <1>2, <1>3, LeadingIs
<1>5. StrictTotal(RankOrder(w), w)
  BY <1>3, BeforeIs
<1>6. Server!ToSet(cut) = {cut[i] : i \in 1..k}
  BY <1>4 DEF Server!ToSet
<1>c. \A c \in Server!Eligible(ids, m) : Server!Piece(c).strong => c \in cs
  BY DEF Server!Candidates
<1> HIDE DEF w, cs, r
<1>7. \A i, j \in 1..k : cut[i] = cut[j] => i = j
  <2> SUFFICES ASSUME NEW i \in 1..k, NEW j \in 1..k, i < j PROVE cut[i] # cut[j]
    BY <1>4
  <2>1. <<cut[i], cut[j]>> \in RankOrder(w)
    BY <1>4 DEF SortedBy
  <2>2. cut[i] \in w
    BY <1>4
  <2> QED BY <1>5, <2>1, <2>2 DEF StrictTotal
<1>8. Cardinality(Server!ToSet(cut)) = k
  <2>1. cut \in Bijection(1..k, Server!ToSet(cut))
    BY <1>4, <1>6, <1>7 DEF Bijection, Injection, Surjection, IsInjective
  <2>2. ExistsBijection(1..k, Server!ToSet(cut))
    BY <2>1 DEF ExistsBijection
  <2>3. IsFiniteSet(1..k) /\ Cardinality(1..k) = k
    BY FS_Interval
  <2> QED BY <2>2, <2>3, FS_Bijection
<1>9. ASSUME NEW c \in Server!Eligible(ids, m), Server!Piece(c).strong, c \notin Server!ToSet(cut),
             NEW i \in DOMAIN cut, ~Server!Piece(cut[i]).strong
      PROVE  Cardinality(Server!OfDocument(cut, c[1])) >= least
  <2>1. i \in 1..k /\ cut[i] \in w
    BY <1>4
  <2>2. ASSUME NEW d \in w, Server!Piece(d).strong PROVE \E j \in 1..k : cut[j] = d
    <3>1. PICK j \in 1..Cardinality(w) : r[j] = d
      BY <1>4 DEF SortedBy
    <3>2. <<d, cut[i]>> \in RankOrder(w)
      BY <1>3, <1>9, <2>1, <2>2, PieceTyped DEF RankOrder, Server!Before
    <3>3. <<cut[i], d>> \notin RankOrder(w)
      BY <1>5, <2>1, <3>2 DEF StrictTotal
    <3>4. d # cut[i]
      BY <1>9, <2>2
    <3>5. ~(i < j) /\ i # j
      BY <1>4, <2>1, <3>1, <3>3, <3>4 DEF SortedBy
    <3> QED BY <1>4, <2>1, <3>1, <3>5
  <2>3. c \in cs /\ c \notin w
    BY <1>c, <1>6, <1>9, <2>2
  <2>4. PICK first \in [1..cap -> w] :
           /\ \A n \in 1..cap : first[n][1] = c[1] /\ Server!Piece(first[n]).strong
           /\ \A n, l \in 1..cap : first[n] = first[l] => n = l
    <3>1. cs \subseteq chunks
      BY <1>3
    <3>2. c \notin Server!Within(cs, cap)
      BY <2>3 DEF w
    <3>3. \E first \in [1..cap -> Server!Within(cs, cap)] :
           /\ \A n \in 1..cap : first[n][1] = c[1] /\ Server!Piece(first[n]).strong
           /\ \A n, l \in 1..cap : first[n] = first[l] => n = l
      <4>1. cap \in Nat /\ c \in cs /\ Server!Piece(c).strong
        BY <1>1, <1>9, <2>3
      <4> QED BY <3>1, <3>2, <4>1, CapIsFull
    <3> QED BY <3>3 DEF w
  <2> DEFINE at == [n \in 1..cap |-> CHOOSE j \in 1..k : cut[j] = first[n]]
  <2>5. \A n \in 1..cap : at[n] \in 1..k /\ cut[at[n]] = first[n]
    BY <2>2, <2>4
  <2>6. at \in Injection(1..cap, Server!OfDocument(cut, c[1]))
    <3>1. at \in [1..cap -> Server!OfDocument(cut, c[1])]
      BY <1>4, <2>4, <2>5 DEF Server!OfDocument
    <3> HIDE DEF at
    <3>2. \A n, l \in 1..cap : at[n] = at[l] => n = l
      BY <2>4, <2>5
    <3> QED BY <3>1, <3>2 DEF Injection, IsInjective
  <2>7. IsFiniteSet(Server!OfDocument(cut, c[1])) /\ Cardinality(Server!OfDocument(cut, c[1])) \in Nat
    <3>1. Server!OfDocument(cut, c[1]) \subseteq 1..k /\ IsFiniteSet(1..k)
      BY <1>4, FS_Interval DEF Server!OfDocument
    <3> QED BY <3>1, FS_Subset, FS_CardinalityType
  <2>8. Cardinality(1..cap) = cap /\ Cardinality(1..cap) <= Cardinality(Server!OfDocument(cut, c[1]))
    BY <1>1, <2>6, <2>7, FS_Injection, FS_Interval
  <2> QED BY <1>1, <2>7, <2>8
<1>10. Server!ToSet(cut) \subseteq Server!Eligible(ids, m)
  BY <1>3, <1>4, <1>6
<1> QED BY <1>4, <1>8, <1>9, <1>10

LEMMA PrefixIs ==
  ASSUME NEW set, NEW seq \in Seq(set), NEW n \in Nat
  PROVE  \E k \in 0..Len(seq) : k <= n /\ Server!Prefix(seq, n) = SubSeq(seq, 1, k)
BY DEF Server!Prefix

\* What is cut off a cut is a shorter one.
LEMMA CutsLead ==
  ASSUME Server!FilesInPieces, Server!QuestionsAllowed, IndexInv, Pieced, NEW ids, NEW m, NEW least \in Nat, NEW cut, Leading(cut, ids, m, least),
         NEW k \in 0..Len(cut)
  PROVE  Leading(SubSeq(cut, 1, k), ids, m, least)
<1>1. PICK pool, cap : /\ cap \in Nat /\ least <= cap
                       /\ \E n \in 0..Cardinality(Server!Within(Server!Candidates(ids, m, pool), cap)) :
                            cut = SubSeq(Server!Ranked(Server!Within(Server!Candidates(ids, m, pool), cap)), 1, n)
  BY DEF Leading
<1> DEFINE w == Server!Within(Server!Candidates(ids, m, pool), cap)
           r == Server!Ranked(w)
<1>2. PICK n \in 0..Cardinality(w) : cut = SubSeq(r, 1, n)
  BY <1>1
<1>3. w \subseteq chunks
  BY WithinChunks
<1>4. /\ IsFiniteSet(w) /\ Cardinality(w) \in Nat /\ SortedBy(RankOrder(w), w, r)
      /\ cut \in [1..n -> w] /\ Len(cut) = n /\ \A i \in 1..n : cut[i] = r[i]
  BY <1>2, <1>3, LeadingIs
<1> HIDE DEF w, r
<1>5. k \in 0..Cardinality(w) /\ r \in [1..Cardinality(w) -> w] /\ k <= n
  BY <1>4 DEF SortedBy
<1>6. SubSeq(cut, 1, k) = SubSeq(r, 1, k)
  <2>1. SubSeq(cut, 1, k) = [i \in 1..k |-> cut[i]]
    BY <1>4, <1>5
  <2>2. SubSeq(r, 1, k) = [i \in 1..k |-> r[i]]
    BY <1>4, <1>5
  <2> QED BY <1>4, <1>5, <2>1, <2>2
<1> QED BY <1>1, <1>5, <1>6 DEF Leading, w, r

LEMMA ThisMany == ASSUME NEW a \in Nat, NEW n \in Nat \ {0} PROVE a * n \in Nat /\ a <= a * n /\ 2 * a * n \in Nat
<1>1. a * n = a * (n - 1) + a /\ n - 1 \in Nat /\ a * (n - 1) \in Nat /\ 2 * a \in Nat
  OBVIOUS
<1>2. 2 * a * n \in Nat
  BY <1>1
<1> QED BY <1>1, <1>2

LEMMA AttemptLeads ==
  ASSUME Server!FilesInPieces, Server!QuestionsAllowed, IndexInv, Pieced, NEW ids, NEW m \in Modes, NEW n \in 1..m.attempts
  PROVE  Leading(Server!Attempt(ids, m, n), ids, m, Server!Greater(m.cap, m.top))
<1> DEFINE top == Server!Lesser(IF m.coverage THEN m.most ELSE m.top, 2 * m.top * n)
           cap == Server!Greater(m.cap, IF m.coverage THEN m.top * n ELSE m.top)
           pool == Server!Pools(m)[n]
           w == Server!Within(Server!Candidates(ids, m, pool), cap)
           r == Server!Ranked(w)
<1>1. m.top \in Nat /\ m.cap \in Nat /\ m.most \in Nat /\ n \in Nat \ {0}
  BY DEF Server!QuestionsAllowed
<1>2. m.top * n \in Nat /\ m.top <= m.top * n /\ 2 * m.top * n \in Nat
  BY <1>1, ThisMany
<1>3. top \in Nat /\ cap \in Nat /\ Server!Greater(m.cap, m.top) <= cap
  BY <1>1, <1>2 DEF Server!Lesser, Server!Greater
<1>4. w \subseteq chunks
  BY WithinChunks
<1>5. IsFiniteSet(w) /\ Cardinality(w) \in Nat
  BY <1>4, FS_Subset, FS_CardinalityType DEF Pieced
<1>6. SortedBy(RankOrder(w), w, r)
  BY <1>4, <1>5, BeforeIs, RankedSorts
<1>7. Server!Attempt(ids, m, n) = Server!Prefix(r, top)
  BY DEF Server!Attempt, Server!Search
<1> HIDE DEF r, w, top, cap, pool
<1>8. r \in Seq(w) /\ Len(r) = Cardinality(w)
  BY <1>5, <1>6 DEF SortedBy
<1>9. \E k \in 0..Cardinality(w) : Server!Prefix(r, top) = SubSeq(r, 1, k)
  BY <1>3, <1>8, PrefixIs
<1> QED BY <1>3, <1>7, <1>9 DEF Leading, r, w

LEMMA LeadingIsList ==
  ASSUME Server!FilesInPieces, Server!QuestionsAllowed, IndexInv, Pieced, NEW ids, NEW m, NEW least \in Nat, NEW cut, Leading(cut, ids, m, least)
  PROVE  cut \in Seq(chunks)
<1>1. PICK pool, cap : /\ cap \in Nat /\ least <= cap
                       /\ \E n \in 0..Cardinality(Server!Within(Server!Candidates(ids, m, pool), cap)) :
                            cut = SubSeq(Server!Ranked(Server!Within(Server!Candidates(ids, m, pool), cap)), 1, n)
  BY DEF Leading
<1> DEFINE w == Server!Within(Server!Candidates(ids, m, pool), cap)
<1>2. PICK n \in 0..Cardinality(w) : cut = SubSeq(Server!Ranked(w), 1, n)
  BY <1>1
<1>3. w \subseteq chunks
  BY WithinChunks
<1>4. Cardinality(w) \in Nat /\ cut \in [1..n -> w]
  BY <1>2, <1>3, LeadingIs
<1> HIDE DEF w
<1> QED BY <1>3, <1>4

LEMMA CutLeads ==
  ASSUME Server!FilesInPieces, Server!QuestionsAllowed, IndexInv, Pieced, NEW ids, NEW m \in Modes, NEW n \in 1..m.attempts
  PROVE  /\ Leading(Server!Cut(Server!Attempt(ids, m, n), m), ids, m, Server!Greater(m.cap, m.top))
         /\ Len(Server!Cut(Server!Attempt(ids, m, n), m)) <= IF m.coverage THEN m.most ELSE m.top
<1> DEFINE b == Server!Attempt(ids, m, n)
           least == Server!Greater(m.cap, m.top)
<1>1. m.top \in Nat /\ m.cap \in Nat /\ m.most \in Nat /\ least \in Nat
  BY DEF Server!QuestionsAllowed, Server!Greater
<1>2. Leading(b, ids, m, least)
  BY AttemptLeads
<1> HIDE DEF b
<1>3. b \in Seq(chunks)
  BY <1>1, <1>2, LeadingIsList
<1>4. \E k \in 0..Len(b) : k <= (IF m.coverage THEN m.most ELSE m.top) /\ Server!Cut(b, m) = SubSeq(b, 1, k)
  <2>1. CASE ~m.coverage
    BY <1>1, <1>3, <2>1, PrefixIs DEF Server!Cut
  <2>2. CASE m.coverage
    <3> DEFINE whole == {i \in DOMAIN b : \A j \in 1..i : Server!Useful(b, j)}
    <3>1. Server!Cardinality(whole) \in Nat
      <4>1. whole \subseteq 1..Len(b) /\ IsFiniteSet(1..Len(b))
        BY <1>3, FS_Interval
      <4> QED BY <4>1, FS_Subset, FS_CardinalityType, ServerCounts
    <3>2. Server!Lesser(m.most, Server!Cardinality(whole)) \in Nat /\ Server!Lesser(m.most, Server!Cardinality(whole)) <= m.most
      BY <1>1, <3>1 DEF Server!Lesser
    <3>3. Server!Cut(b, m) = Server!Prefix(b, Server!Lesser(m.most, Server!Cardinality(whole)))
      BY <2>2 DEF Server!Cut, Server!Stable
    <3> HIDE DEF whole
    <3>4. PICK k \in 0..Len(b) : k <= Server!Lesser(m.most, Server!Cardinality(whole)) /\ Server!Cut(b, m) = SubSeq(b, 1, k)
      BY <1>3, <3>2, <3>3, PrefixIs
    <3> QED BY <1>1, <2>2, <3>2, <3>4
  <2> QED BY <2>1, <2>2
<1>5. PICK k \in 0..Len(b) : k <= (IF m.coverage THEN m.most ELSE m.top) /\ Server!Cut(b, m) = SubSeq(b, 1, k)
  BY <1>4
<1>6. Leading(SubSeq(b, 1, k), ids, m, least)
  BY <1>1, <1>2, CutsLead
<1>7. Len(SubSeq(b, 1, k)) = k
  BY <1>3
<1> HIDE DEF least
<1> QED BY <1>5, <1>6, <1>7 DEF least, b

LEMMA EvidenceSuffices == Server!FilesInPieces /\ Server!QuestionsAllowed /\ IndexInv /\ Pieced => Server!EvidenceSound
<1> SUFFICES ASSUME Server!FilesInPieces, Server!QuestionsAllowed, IndexInv, Pieced,
                    NEW ids \in SUBSET (1..uploads), NEW m \in Modes, NEW n \in 1..m.attempts
             PROVE  LET cut == Server!Cut(Server!Attempt(ids, m, n), m) IN
                      /\ \A c \in Server!ToSet(cut) : c \in chunks /\ (ids = {} \/ c[1] \in ids) /\ ~(m.rows /\ Server!Piece(c).block)
                      /\ Server!Cardinality(Server!ToSet(cut)) = Len(cut) /\ Len(cut) <= (IF m.coverage THEN m.most ELSE m.top)
                      /\ \A c \in Server!Eligible(ids, m) : Server!Piece(c).strong /\ c \notin Server!ToSet(cut) =>
                           \/ \A i \in DOMAIN cut : Server!Piece(cut[i]).strong
                           \/ Server!Cardinality(Server!OfDocument(cut, c[1])) >= Server!Greater(m.cap, m.top)
  BY DEF Server!EvidenceSound
<1> DEFINE cut == Server!Cut(Server!Attempt(ids, m, n), m)
<1>1. Leading(cut, ids, m, Server!Greater(m.cap, m.top)) /\ Len(cut) <= IF m.coverage THEN m.most ELSE m.top
  BY CutLeads
<1>2. Server!Greater(m.cap, m.top) \in Nat
  BY DEF Server!QuestionsAllowed, Server!Greater
<1> HIDE DEF cut
<1>3. /\ Server!ToSet(cut) \subseteq Server!Eligible(ids, m) /\ Cardinality(Server!ToSet(cut)) = Len(cut)
      /\ \A c \in Server!Eligible(ids, m) : Server!Piece(c).strong /\ c \notin Server!ToSet(cut) =>
           \/ \A i \in DOMAIN cut : Server!Piece(cut[i]).strong
           \/ Cardinality(Server!OfDocument(cut, c[1])) >= Server!Greater(m.cap, m.top)
  BY <1>1, <1>2, LeadingIsSound
<1>4. \A c \in Server!Eligible(ids, m) : c \in chunks /\ (ids = {} \/ c[1] \in ids) /\ ~(m.rows /\ Server!Piece(c).block)
  BY DEF Server!Eligible, Server!InScope
<1> QED BY <1>1, <1>3, <1>4, ServerCounts DEF cut

\* For any files, scores, modes and failures, and every set of documents: what a question is answered from is of those
\* documents, no piece twice, no more than its mode allows, and a piece that holds what was asked is left out only for
\* others that hold it or because its document is at its cap (get_rag_context, search).
THEOREM EvidenceIsSound == ASSUME Server!FilesInPieces, Server!QuestionsAllowed PROVE Server!Spec => []Server!EvidenceSound
<1>1. Server!Init => IndexInv /\ Pieced
  BY IndexInitInv, PiecedInit
<1>2. IndexInv /\ Pieced /\ [Server!Next]_(Server!vars) => (IndexInv /\ Pieced)'
  BY IndexStep, PiecedStep
<1>3. IndexInv /\ Pieced => Server!EvidenceSound
  BY EvidenceSuffices
<1> QED BY <1>1, <1>2, <1>3, PTL DEF Server!Spec

-----------------------------------------------------------------------------
(* The personal store.                                                     *)
Texts == Said \union {First, Second}
Memory == [text : Texts, category : {"user_input", "fact"}]

StoreTypes ==
  /\ person \in BOOLEAN /\ text \in Said \union {First} /\ memories \in Seq(Memory)
  /\ doing \in {"off", "person", "first", "second", "idle", "fact", "search"}
  /\ reply.status \in {"none", "records_found", "no_entity", "no_fact"}

\* How far the bootstrap has come, over all starts of the program.
Bootstrapped ==
  /\ memories # <<>> => \E i \in DOMAIN memories : memories[i].text.person
  /\ doing = "first" => memories = <<>>
  /\ doing = "second" => memories = <<[text |-> First, category |-> "fact"]>>
  /\ doing \in {"idle", "fact", "search"} => memories # <<>>

FactsOnce == \A i, j \in Personal!Facts : memories[i].text.key = memories[j].text.key => i = j
ToldKept == recalled \subseteq {memories[i].text.key : i \in Personal!Facts}
BeingTold == doing = "search" /\ ~text.question => \E i \in Personal!Facts : memories[i].text.key = text.key

StoreInv == StoreTypes /\ Bootstrapped /\ FactsOnce /\ ToldKept /\ BeingTold

\* What an INSERT does: the memories before it stand, and one follows them.
LEMMA InsertIs ==
    ASSUME memories \in Seq(Memory), NEW what \in Texts, NEW category \in {"user_input", "fact"}, Personal!Insert(what, category)
    PROVE  \E n \in Nat :
           /\ memories' \in Seq(Memory) /\ DOMAIN memories' = DOMAIN memories \union {n} /\ n \notin DOMAIN memories
           /\ (\A i \in DOMAIN memories : memories'[i] = memories[i])
           /\ memories'[n].text = what
           /\ Personal!Facts' = Personal!Facts \union (IF category = "fact" THEN {n} ELSE {})
<1> DEFINE n == Len(memories) + 1
<1> DEFINE m == [text |-> what, category |-> category]
<1>1. m \in Memory /\ m.category = category /\ m.text = what
  BY DEF Memory
<1>2. memories' = Append(memories, m)
  BY DEF Personal!Insert
<1> HIDE DEF m
<1>3. memories' \in Seq(Memory) /\ DOMAIN memories' = 1..n /\ DOMAIN memories = 1..Len(memories) /\ Len(memories) \in Nat
  BY <1>1, <1>2
<1>4. DOMAIN memories' = DOMAIN memories \union {n} /\ n \notin DOMAIN memories
  BY <1>3
<1>5. \A i \in DOMAIN memories : memories'[i] = memories[i]
  BY <1>1, <1>2, <1>3
<1>6. memories'[n] = m
  BY <1>1, <1>2, <1>3
<1>7. Personal!Facts' = Personal!Facts \union (IF category = "fact" THEN {n} ELSE {})
  BY <1>1, <1>4, <1>5, <1>6 DEF Personal!Facts
<1>8. n \in Nat
  BY <1>3
<1> HIDE DEF n
<1> QED BY <1>1, <1>3, <1>4, <1>5, <1>6, <1>7, <1>8

LEMMA StoreInitInv == Personal!Init => StoreInv
<1> SUFFICES ASSUME Personal!Init PROVE StoreInv
  OBVIOUS
<1>1. StoreTypes
  <2>1. memories \in Seq(Memory)
    BY DEF Personal!Init
  <2>2. reply.status = "none"
    BY DEF Personal!Init, Personal!NoReply
  <2> QED BY <2>1, <2>2 DEF Personal!Init, StoreTypes
<1>2. Bootstrapped /\ BeingTold
  BY DEF Personal!Init, Bootstrapped, BeingTold
<1>3. Personal!Facts = {}
  BY DEF Personal!Init, Personal!Facts
<1> QED BY <1>1, <1>2, <1>3 DEF Personal!Init, StoreInv, FactsOnce, ToldKept

\* A memory more: a fact that is new, or what the user typed.
LEMMA InsertKeeps ==
    ASSUME StoreInv, NEW what \in Texts, NEW category \in {"user_input", "fact"}, Personal!Insert(what, category),
           category = "fact" => ~Personal!FactAlreadyExists(what), UNCHANGED recalled
    PROVE  /\ memories' \in Seq(Memory) /\ FactsOnce' /\ ToldKept' /\ memories' # <<>>
           /\ memories # <<>> \/ what.person => \E i \in DOMAIN memories' : memories'[i].text.person
           /\ category = "fact" => \E i \in Personal!Facts' : memories'[i].text.key = what.key
<1>1. PICK n \in Nat :
      /\ memories' \in Seq(Memory) /\ DOMAIN memories' = DOMAIN memories \union {n} /\ n \notin DOMAIN memories
      /\ (\A i \in DOMAIN memories : memories'[i] = memories[i])
      /\ memories'[n].text = what
      /\ Personal!Facts' = Personal!Facts \union (IF category = "fact" THEN {n} ELSE {})
  <2>1. memories \in Seq(Memory)
    BY DEF StoreInv, StoreTypes
  <2> QED BY <2>1, InsertIs
<1>2. Personal!Facts \subseteq DOMAIN memories
  BY DEF Personal!Facts
<1>3. FactsOnce'
  BY <1>1, <1>2 DEF StoreInv, FactsOnce, Personal!FactAlreadyExists
<1>4. ToldKept'
  BY <1>1, <1>2 DEF StoreInv, ToldKept
<1>5. memories' # <<>>
  BY <1>1
<1>6. memories # <<>> \/ what.person => \E i \in DOMAIN memories' : memories'[i].text.person
  BY <1>1 DEF StoreInv, Bootstrapped
<1> QED BY <1>1, <1>3, <1>4, <1>5, <1>6

LEMMA BootstrapKeepsStore == ASSUME Personal!BootstrapFacts, StoreInv, Personal!BootstrapMemories PROVE StoreInv'
<1>0. StoreTypes /\ Bootstrapped /\ UNCHANGED <<person, text, reply, recalled>>
  BY DEF StoreInv, Personal!BootstrapMemories
<1>1. CASE doing = "first" /\ Personal!Insert(First, "fact") /\ doing' = "second"
  <2>1. memories = <<>> /\ Personal!Facts = {}
    BY <1>0, <1>1 DEF Bootstrapped, Personal!Facts
  <2>2. memories' = <<[text |-> First, category |-> "fact"]>>
    BY <1>1, <2>1 DEF Personal!Insert
  <2>3. First \in Texts /\ ~Personal!FactAlreadyExists(First)
    BY <2>1 DEF Texts, Personal!FactAlreadyExists
  <2>4. memories' \in Seq(Memory) /\ FactsOnce' /\ ToldKept' /\ \E i \in DOMAIN memories' : memories'[i].text.person
    BY <1>0, <1>1, <2>3, InsertKeeps DEF Personal!BootstrapFacts
  <2> QED BY <1>0, <1>1, <2>2, <2>4 DEF StoreInv, StoreTypes, Bootstrapped, BeingTold
<1>2. CASE doing = "second" /\ Personal!Insert(Second, "fact") /\ doing' = "idle"
  <2>1. memories = <<[text |-> First, category |-> "fact"]>>
    BY <1>0, <1>2 DEF Bootstrapped
  <2>2. ~Personal!FactAlreadyExists(Second)
    <3>1. \A i \in DOMAIN memories : memories[i].text = First
      BY <2>1
    <3> QED BY <3>1 DEF Personal!FactAlreadyExists, Personal!Facts, Personal!BootstrapFacts
  <2>3. memories # <<>> /\ Second \in Texts
    BY <2>1 DEF Texts
  <2>4. memories' \in Seq(Memory) /\ FactsOnce' /\ ToldKept' /\ memories' # <<>> /\ \E i \in DOMAIN memories' : memories'[i].text.person
    BY <1>0, <1>2, <2>2, <2>3, InsertKeeps
  <2> QED BY <1>0, <1>2, <2>4 DEF StoreInv, StoreTypes, Bootstrapped, BeingTold
<1> QED BY <1>1, <1>2 DEF Personal!BootstrapMemories

LEMMA UserInputKeepsStore == ASSUME StoreInv, Personal!PersistUserInput PROVE StoreInv'
<1>0. StoreTypes /\ Bootstrapped /\ UNCHANGED <<person, reply, recalled>> /\ doing = "idle" /\ doing' = "fact"
  BY DEF StoreInv, Personal!PersistUserInput
<1>1. PICK what \in Said : text' = what /\ Personal!Insert(what, "user_input")
  BY DEF Personal!PersistUserInput
<1>2. memories # <<>> /\ what \in Texts
  BY <1>0 DEF Bootstrapped, Texts
<1>3. memories' \in Seq(Memory) /\ FactsOnce' /\ ToldKept' /\ memories' # <<>> /\ \E i \in DOMAIN memories' : memories'[i].text.person
  BY <1>0, <1>1, <1>2, InsertKeeps
<1> QED BY <1>0, <1>1, <1>3 DEF StoreInv, StoreTypes, Bootstrapped, BeingTold

LEMMA StoreFactKeepsStore == ASSUME StoreInv, Personal!StoreFactIfStatement PROVE StoreInv'
<1>0. StoreTypes /\ Bootstrapped /\ UNCHANGED <<person, text, reply, recalled>> /\ doing = "fact" /\ doing' = "search"
  BY DEF StoreInv, Personal!StoreFactIfStatement
<1>1. CASE text.question \/ Personal!FactAlreadyExists(text)
  <2>1. UNCHANGED memories
    BY <1>1 DEF Personal!StoreFactIfStatement
  <2> QED BY <1>0, <1>1, <2>1 DEF StoreInv, StoreTypes, Bootstrapped, FactsOnce, ToldKept, BeingTold, Personal!Facts, Personal!FactAlreadyExists
<1>2. CASE ~(text.question \/ Personal!FactAlreadyExists(text))
  <2>1. Personal!Insert(text, "fact") /\ text \in Texts /\ memories # <<>>
    BY <1>0, <1>2 DEF Personal!StoreFactIfStatement, StoreTypes, Texts, Bootstrapped
  <2>2. /\ memories' \in Seq(Memory) /\ FactsOnce' /\ ToldKept' /\ memories' # <<>>
        /\ (\E i \in DOMAIN memories' : memories'[i].text.person) /\ \E i \in Personal!Facts' : memories'[i].text.key = text.key
    BY <1>0, <1>2, <2>1, InsertKeeps
  <2> QED BY <1>0, <2>2 DEF StoreInv, StoreTypes, Bootstrapped, BeingTold
<1> QED BY <1>1, <1>2

\* The other steps leave the memories alone.
LEMMA RestKeepsStore == ASSUME StoreInv, Personal!Start \/ Personal!BootstrapPerson \/ Personal!Answer \/ Personal!Stop \/ UNCHANGED Personal!vars PROVE StoreInv'
<1>0. StoreTypes /\ Bootstrapped /\ FactsOnce /\ ToldKept /\ BeingTold /\ UNCHANGED <<memories, text>>
  BY DEF StoreInv, Personal!Start, Personal!BootstrapPerson, Personal!Answer, Personal!Stop, Personal!vars
<1>1. FactsOnce' /\ Personal!Facts' = Personal!Facts
  BY <1>0 DEF FactsOnce, Personal!Facts
<1>2. CASE Personal!Start \/ UNCHANGED Personal!vars
  BY <1>0, <1>1, <1>2 DEF Personal!Start, Personal!vars, StoreInv, StoreTypes, Bootstrapped, ToldKept, BeingTold
<1>3. CASE Personal!BootstrapPerson
  BY <1>0, <1>1, <1>3 DEF Personal!BootstrapPerson, StoreInv, StoreTypes, Bootstrapped, ToldKept, BeingTold
<1>4. CASE Personal!Answer
  <2>1. doing = "search" /\ doing' = "idle" /\ UNCHANGED person /\ reply' = Personal!Retrieve(text)
        /\ recalled' = (IF text.question THEN recalled ELSE recalled \union {text.key})
    BY <1>4 DEF Personal!Answer
  <2>2. reply'.status \in {"none", "records_found", "no_entity", "no_fact"}
    BY <2>1 DEF Personal!Retrieve
  <2>3. ToldKept'
    BY <1>0, <1>1, <2>1 DEF ToldKept, BeingTold
  <2> QED BY <1>0, <1>1, <2>1, <2>2, <2>3 DEF StoreInv, StoreTypes, Bootstrapped, BeingTold
<1>5. CASE Personal!Stop
  BY <1>0, <1>1, <1>5 DEF Personal!Stop, Personal!NoReply, StoreInv, StoreTypes, Bootstrapped, ToldKept, BeingTold
<1> QED BY <1>2, <1>3, <1>4, <1>5

LEMMA StoreStep == Personal!BootstrapFacts /\ StoreInv /\ [Personal!Next]_(Personal!vars) => StoreInv'
BY BootstrapKeepsStore, UserInputKeepsStore, StoreFactKeepsStore, RestKeepsStore DEF Personal!Next, Personal!Work

LEMMA StoreInvHolds == ASSUME Personal!BootstrapFacts PROVE Personal!Init /\ [][Personal!Next]_(Personal!vars) => []StoreInv
BY StoreInitInv, StoreStep, PTL

LEMMA StoreTypesGiven == StoreInv => Personal!TypeOK
<1>1. memories \in Seq(Memory) => \A i \in DOMAIN memories : memories[i] \in Memory
  OBVIOUS
<1>2. \A m \in Memory : m.category \in {"user_input", "fact"}
  BY DEF Memory
<1> QED BY <1>1, <1>2 DEF StoreInv, StoreTypes, Personal!TypeOK

\* The personal store's variables have their types, whatever is said and wherever the program is ended.
THEOREM StoreTypeCorrect == ASSUME Personal!BootstrapFacts PROVE Personal!Init /\ [][Personal!Next]_(Personal!vars) => []Personal!TypeOK
BY StoreTypesGiven, StoreInvHolds, PTL

LEMMA StoreSuffices == StoreInv => Personal!RemembersOnce
BY DEF StoreInv, FactsOnce, ToldKept, Personal!RemembersOnce

\* For anything that may be said and any stops between two INSERTs: what was answered as a statement is a fact, and no fact is
\* there twice (persist_user_input, bootstrap_personal_data).
THEOREM StatementsAreKeptOnce == ASSUME Personal!BootstrapFacts PROVE Personal!Init /\ [][Personal!Next]_(Personal!vars) => []Personal!RemembersOnce
BY StoreSuffices, StoreInvHolds, PTL

\* An answer that stands is what the store finds for what was last said; before anything is asked there is none.
Replied ==
  /\ doing \in {"off", "person", "first", "second"} => reply = Personal!NoReply
  /\ doing = "idle" /\ reply # Personal!NoReply => reply = Personal!Retrieve(text)

LEMMA RepliedInit == Personal!Init => Replied
BY DEF Personal!Init, Replied

LEMMA RepliedStep == Replied /\ [Personal!Next]_(Personal!vars) => Replied'
<1> SUFFICES ASSUME Replied, [Personal!Next]_(Personal!vars) PROVE Replied'
  OBVIOUS
<1>1. UNCHANGED <<person, memories>> => \A what : Personal!Retrieve(what)' = Personal!Retrieve(what)
  BY DEF Personal!Retrieve, Personal!FilterRelevant, Personal!Relevant, Personal!Facts, Personal!OfEntity, Personal!StrongMatch, Personal!Overlap,
         Personal!Resolved, Personal!Before, Personal!Score
<1>2. CASE Personal!Start \/ UNCHANGED Personal!vars
  BY <1>1, <1>2 DEF Personal!Start, Personal!vars, Replied
<1>3. CASE Personal!BootstrapPerson \/ Personal!BootstrapMemories
  BY <1>3 DEF Personal!BootstrapPerson, Personal!BootstrapMemories, Replied
<1>4. CASE Personal!PersistUserInput \/ Personal!StoreFactIfStatement
  BY <1>4 DEF Personal!PersistUserInput, Personal!StoreFactIfStatement, Replied
<1>5. CASE Personal!Answer
  <2>1. UNCHANGED <<person, memories, text>> /\ doing' = "idle" /\ reply' = Personal!Retrieve(text)
    BY <1>5 DEF Personal!Answer
  <2>2. reply' = Personal!Retrieve(text)'
    BY <1>1, <2>1
  <2> QED BY <2>1, <2>2 DEF Replied
<1>6. CASE Personal!Stop
  BY <1>6 DEF Personal!Stop, Replied, Personal!NoReply
<1> QED BY <1>2, <1>3, <1>4, <1>5, <1>6 DEF Personal!Next, Personal!Work

LEMMA StoreCounts == \A set : Personal!Cardinality(set) = Cardinality(set)
BY DEF Personal!Cardinality, Cardinality

Bonus(i) == IF Personal!Resolved(text) /\ PersonTerms \intersect memories[i].text.words # {} THEN 2 ELSE 0
ScoreOrder == {r \in Personal!Relevant(text) \X Personal!Relevant(text) : Personal!Before(text, r[1], r[2])}

LEMMA ScoresAre ==
  ASSUME Personal!TextsAreFinite, StoreTypes, NEW i
  PROVE  /\ Personal!Score(text, i) = Cardinality(Personal!Overlap(text, i)) + Bonus(i) /\ Bonus(i) \in {0, 2}
         /\ Cardinality(Personal!Overlap(text, i)) \in Nat /\ Cardinality(text.words) \in Nat /\ IsFiniteSet(text.words)
         /\ Cardinality(Personal!Overlap(text, i)) <= Cardinality(text.words)
         /\ Cardinality(Personal!Overlap(text, i)) = Cardinality(text.words) => Personal!Overlap(text, i) = text.words
<1>1. IsFiniteSet(text.words)
  <2>1. text \in Said \union {First, Second}
    BY DEF StoreTypes
  <2> QED BY <2>1 DEF Personal!TextsAreFinite, Personal!IsFiniteSet, IsFiniteSet
<1>2. Personal!Overlap(text, i) \subseteq text.words
  BY DEF Personal!Overlap
<1>3. Personal!Score(text, i) = Cardinality(Personal!Overlap(text, i)) + Bonus(i) /\ Bonus(i) \in {0, 2}
  BY StoreCounts DEF Personal!Score, Bonus
<1> QED BY <1>1, <1>2, <1>3, FS_Subset, FS_CardinalityType

LEMMA ScoreOrderIs ==
  ASSUME Personal!TextsAreFinite, StoreTypes
  PROVE  /\ IsFiniteSet(Personal!Relevant(text)) /\ Cardinality(Personal!Relevant(text)) \in Nat /\ Personal!Relevant(text) \subseteq Nat
         /\ StrictTotal(ScoreOrder, Personal!Relevant(text))
<1> DEFINE set == Personal!Relevant(text)
           score(i) == Personal!Score(text, i)
<1>1. set \subseteq 1..Len(memories) /\ Len(memories) \in Nat
  BY DEF StoreTypes, Personal!Relevant, Personal!Facts
<1>2. IsFiniteSet(set) /\ Cardinality(set) \in Nat
  <2>1. IsFiniteSet(1..Len(memories))
    BY <1>1, FS_Interval
  <2> QED BY <1>1, <2>1, FS_Subset, FS_CardinalityType
<1>3. \A i \in set : score(i) \in Int
  BY ScoresAre
<1>4. \A i, j \in set : <<i, j>> \in ScoreOrder <=> score(i) > score(j) \/ (score(i) = score(j) /\ i > j)
  BY DEF ScoreOrder, Personal!Before
<1>5. set \subseteq Nat
  BY <1>1
<1> HIDE DEF set, score
<1>6. StrictTotal(ScoreOrder, set)
  BY <1>3, <1>4, <1>5 DEF StrictTotal
<1> QED BY <1>2, <1>5, <1>6 DEF set

LEMMA FoundLeads ==
  ASSUME Personal!TextsAreFinite, StoreTypes
  PROVE  \E seq : /\ SortedBy(ScoreOrder, Personal!Relevant(text), seq)
                  /\ LET n == Cardinality(Personal!Relevant(text)) IN
                       Personal!FilterRelevant(text) = [i \in 1..(IF TopK < n THEN TopK ELSE n) |-> seq[i]]
<1> DEFINE set == Personal!Relevant(text)
           n == Cardinality(set)
           seq == [i \in 1..n |-> CHOOSE x \in set : Cardinality({y \in set : Personal!Before(text, y, x)}) = i - 1]
<1>1. IsFiniteSet(set) /\ n \in Nat /\ StrictTotal(ScoreOrder, set) /\ TopK \in Nat
  BY ScoreOrderIs DEF Personal!TextsAreFinite
<1>2. \A x \in set : Ahead(ScoreOrder, set, x) = {y \in set : Personal!Before(text, y, x)}
  BY DEF Ahead, ScoreOrder
<1>3. Personal!FilterRelevant(text) = [i \in 1..(IF TopK < n THEN TopK ELSE n) |-> seq[i]]
  <2>1. Personal!FilterRelevant(text) = [i \in 1..(IF TopK < n THEN TopK ELSE n) |->
           CHOOSE x \in set : Cardinality({y \in set : Personal!Before(text, y, x)}) = i - 1]
    <3>1. Personal!Cardinality(set) = n
      BY StoreCounts
    <3>2. \A i \in 1..(IF TopK < n THEN TopK ELSE n), x \in set :
            Personal!Cardinality({y \in set : Personal!Before(text, y, x)}) = Cardinality({y \in set : Personal!Before(text, y, x)})
      BY StoreCounts
    <3>3. Personal!FilterRelevant(text) = [i \in 1..(IF TopK < Personal!Cardinality(set) THEN TopK ELSE Personal!Cardinality(set)) |->
             CHOOSE x \in set : Personal!Cardinality({y \in set : Personal!Before(text, y, x)}) = i - 1]
      BY DEF Personal!FilterRelevant
    <3> HIDE DEF set
    <3> QED BY <3>1, <3>2, <3>3
  <2> HIDE DEF set
  <2>2. \A i \in 1..(IF TopK < n THEN TopK ELSE n) : i \in 1..n
    BY <1>1
  <2> QED BY <2>1, <2>2
<1> HIDE DEF set
<1>4. \A i \in 1..n : \E x \in set : Cardinality({y \in set : Personal!Before(text, y, x)}) = i - 1
  <2>1. \A i \in 1..n : \E x \in set : Cardinality(Ahead(ScoreOrder, set, x)) = i - 1
    BY <1>1, RanksTaken
  <2> QED BY <1>2, <2>1
<1>5. \A i \in 1..n : seq[i] \in set /\ Cardinality({y \in set : Personal!Before(text, y, seq[i])}) = i - 1
  BY <1>4
<1>6. seq \in [1..n -> set]
  BY <1>5
<1> HIDE DEF seq
<1>7. \A i \in 1..n : Cardinality(Ahead(ScoreOrder, set, seq[i])) = i - 1
  BY <1>2, <1>5
<1>8. SortedBy(ScoreOrder, set, seq)
  BY <1>1, <1>6, <1>7, RankedIsSorted
<1> QED BY <1>3, <1>8 DEF set

\* Of those that match, one that holds all that was asked for scores as many as any, so that only newer ones go before it.
LEMMA RecallSuffices == ASSUME Personal!TextsAreFinite, StoreTypes, Replied PROVE Personal!RecallsBest
<1> SUFFICES ASSUME doing = "idle", reply # Personal!NoReply, NEW i \in Personal!Facts, Personal!Holds(text, i), Personal!OfEntity(text, i),
                    i \notin Personal!ToSet(reply.memories)
             PROVE  Len(reply.memories) = TopK /\ \A j \in Personal!ToSet(reply.memories) : Personal!Holds(text, j) /\ j > i
  BY DEF Personal!RecallsBest
<1> DEFINE set == Personal!Relevant(text)
           n == Cardinality(set)
           k == IF TopK < n THEN TopK ELSE n
           found == reply.memories
<1>1. found = Personal!FilterRelevant(text)
  BY DEF Replied, Personal!Retrieve
<1>2. PICK seq : SortedBy(ScoreOrder, set, seq) /\ found = [x \in 1..k |-> seq[x]]
  BY <1>1, FoundLeads
<1>3. i \in set
  BY DEF Personal!Relevant, Personal!StrongMatch, Personal!Holds, Personal!Overlap
<1>4. n \in Nat /\ TopK \in Nat /\ k \in Nat /\ set \subseteq Nat /\ StrictTotal(ScoreOrder, set)
  BY ScoreOrderIs DEF Personal!TextsAreFinite
<1>5. \A j \in set : Personal!OfEntity(text, j)
  BY DEF Personal!Relevant
<1>s. Personal!ToSet(found) = {found[x] : x \in DOMAIN found}
  BY DEF Personal!ToSet
<1> HIDE DEF set, found
<1>6. Len(found) = k /\ DOMAIN found = 1..k /\ \A x \in 1..k : found[x] = seq[x]
  BY <1>2, <1>4
<1>7. PICK at \in 1..n : seq[at] = i
  BY <1>2, <1>3 DEF SortedBy
<1>8. at > k /\ k = TopK
  <2>1. at \notin 1..k
    <3>1. i \notin Personal!ToSet(found)
      BY DEF found
    <3> QED BY <1>6, <1>7, <1>s, <3>1
  <2> QED BY <1>4, <2>1
<1>9. ASSUME NEW j \in Personal!ToSet(found) PROVE Personal!Holds(text, j) /\ j > i
  <2>1. PICK x \in 1..k : j = seq[x]
    BY <1>6, <1>9, <1>s
  <2>2. x \in 1..n /\ x < at
    BY <1>4, <1>8, <2>1
  <2>3. j \in set /\ <<j, i>> \in ScoreOrder
    BY <1>2, <1>7, <2>1, <2>2 DEF SortedBy
  <2>4. Personal!Score(text, j) > Personal!Score(text, i) \/ (Personal!Score(text, j) = Personal!Score(text, i) /\ j > i)
    BY <2>3 DEF ScoreOrder, Personal!Before
  <2>5. Bonus(i) = Bonus(j)
    BY <1>3, <1>5, <2>3 DEF Bonus, Personal!OfEntity
  <2>6. Personal!Overlap(text, i) = text.words
    BY DEF Personal!Holds, Personal!Overlap
  <2>7. Cardinality(Personal!Overlap(text, j)) = Cardinality(text.words) /\ j > i
    <3>1. /\ Personal!Score(text, j) = Cardinality(Personal!Overlap(text, j)) + Bonus(j) /\ Bonus(j) \in {0, 2}
          /\ Cardinality(Personal!Overlap(text, j)) \in Nat /\ Cardinality(text.words) \in Nat
          /\ Cardinality(Personal!Overlap(text, j)) <= Cardinality(text.words)
      BY ScoresAre
    <3>2. Personal!Score(text, i) = Cardinality(text.words) + Bonus(i)
      BY <2>6, ScoresAre
    <3> QED BY <2>4, <2>5, <3>1, <3>2
  <2>8. Personal!Overlap(text, j) = text.words
    BY <2>7, ScoresAre
  <2>9. text.words # {}
    BY DEF Personal!Holds
  <2>10. Personal!Holds(text, j)
    BY <2>8, <2>9 DEF Personal!Holds, Personal!Overlap
  <2> QED BY <2>7, <2>10
<1> QED BY <1>6, <1>8, <1>9 DEF found

\* For anything that may be said, and any number of memories: a fact that holds all a question asks for is told, or TopK newer
\* facts that hold it too are (retrieve_personal_store_records).
THEOREM RecallIsBest == ASSUME Personal!BootstrapFacts, Personal!TextsAreFinite
                        PROVE  Personal!Init /\ [][Personal!Next]_(Personal!vars) => []Personal!RecallsBest
<1>1. Personal!Init => StoreInv /\ Replied
  BY StoreInitInv, RepliedInit
<1>2. StoreInv /\ Replied /\ [Personal!Next]_(Personal!vars) => (StoreInv /\ Replied)'
  BY StoreStep, RepliedStep
<1>3. StoreInv /\ Replied => Personal!RecallsBest
  BY RecallSuffices DEF StoreInv
<1> QED BY <1>1, <1>2, <1>3, PTL

-----------------------------------------------------------------------------
(* The messaging assistant.                                                *)
Places == {"search", "chat", "box", "type", "enter", "clear", "read"}
Operation == [id : Nat \ {0}, kind : {"send", "history"}, to : Contacts, at : Places, next : 1..Length + 1]
TypedChar == (Nat \ {0}) \X (1..Length)
Note == [by : Nat \ {0}, to : Contacts, text : Seq(TypedChar)]
History == [by : Nat \ {0}, of : Contacts]

MessengerTypes ==
  /\ search \in Contacts \union {Nobody, Assistant!Stray} /\ open \in Contacts \union {Nobody} /\ focus \in {Nobody, "search", "box"}
  /\ box \in [Contacts -> Seq(TypedChar)] /\ ops \subseteq Operation /\ ordered \in Seq(Contacts)
  /\ sent \subseteq Note /\ histories \subseteq History
  /\ reported \subseteq DOMAIN ordered /\ crossedOps \subseteq DOMAIN ordered
  /\ \A op \in ops : op.id \in DOMAIN ordered
  /\ \A h \in histories : h.by \in DOMAIN ordered

\* Where the keys go there is a box: the chat of an operation that is past its search is open.
ChatOpen ==
  /\ focus = "box" => open \in Contacts
  /\ \A op \in ops : op.at \in {"box", "type", "enter", "read"} => open \in Contacts
  /\ \A op \in ops : (op.at = "type" => op.next <= Length) /\ (op.at \in {"search", "chat", "box"} => op.next = 1)

\* What is typed of an operation stands at the end of its box, after what crossed ones left there.
EndsWith(t, op) ==
  LET k == Len(t) - (op.next - 1) IN
  /\ k \in Nat /\ \A n \in 1..k : t[n][1] \in crossedOps
  /\ \A n \in 1..op.next - 1 : t[k + n] = <<op.id, n>>
OnlyCrossed(t) == \A n \in DOMAIN t : t[n][1] \in crossedOps

\* An operation that is not crossed is the only one, and the page is as it left it.
AloneOnPage == \A op \in ops : op.id \notin crossedOps =>
  /\ ops = {op} /\ op.to = ordered[op.id]
  /\ op.at \in {"box", "type", "enter", "read"} => open = op.to
  /\ op.at \in {"type", "enter"} => focus = "box" /\ EndsWith(box[open], op)
  /\ op.at = "enter" => op.next = Length + 1
\* All other boxes hold only what crossed operations typed.
Leftovers == \A c \in Contacts : OnlyCrossed(box[c]) \/ \E op \in ops : op.id \notin crossedOps /\ op.at \in {"type", "enter"} /\ c = open

Arrived(id) == \E m \in sent :
  /\ m.by = id /\ m.to = ordered[id]
  /\ \E k \in 0..Len(m.text) : SubSeq(m.text, k + 1, Len(m.text)) = Assistant!Whole(id) /\ \A n \in 1..k : m.text[n][1] \in crossedOps
Arrivals == \A id \in reported \ crossedOps : Arrived(id)
Looks == \A h \in histories : h.by \notin crossedOps => h.of = ordered[h.by]

AssistantInv == MessengerTypes /\ ChatOpen /\ AloneOnPage /\ Leftovers /\ Arrivals /\ Looks

LEMMA MessengerInitInv == Assistant!MessagesAreTexts /\ Assistant!Init => AssistantInv
<1> SUFFICES ASSUME Assistant!MessagesAreTexts, Assistant!Init PROVE AssistantInv
  OBVIOUS
<1>1. MessengerTypes
  BY DEF Assistant!Init, MessengerTypes, Assistant!Stray
<1>2. ChatOpen /\ AloneOnPage /\ Leftovers /\ Arrivals /\ Looks
  <2>1. \A c \in Contacts : box[c] = <<>>
    BY DEF Assistant!Init
  <2>2. Leftovers
    BY <2>1 DEF Leftovers, OnlyCrossed
  <2> QED BY <2>2 DEF Assistant!Init, Assistant!MessagesAreTexts, ChatOpen, AloneOnPage, Arrivals, Looks
<1> QED BY <1>1, <1>2 DEF AssistantInv

\* A click crosses those that are under way with the new one.
LEMMA ClickKeepsAssistant ==
    ASSUME Assistant!MessagesAreTexts, AssistantInv, NEW kind \in {"send", "history"}, NEW c \in Contacts, Assistant!Click(kind, c) PROVE AssistantInv'
<1> DEFINE new == [id |-> Len(ordered) + 1, kind |-> kind, to |-> c, at |-> "search", next |-> 1]
<1>0. /\ MessengerTypes /\ ordered' = Append(ordered, c) /\ ops' = ops \union {new} /\ UNCHANGED <<Assistant!page, Assistant!results>>
      /\ crossedOps' = IF ops = {} THEN crossedOps ELSE crossedOps \union {o.id : o \in ops'}
  BY DEF Assistant!Click, AssistantInv
<1>1. /\ new \in Operation /\ new.id = Len(ordered) + 1 /\ new.to = c /\ new.at = "search" /\ new.next = 1 /\ new.id \notin DOMAIN ordered
  BY <1>0 DEF Operation, Places, Assistant!MessagesAreTexts, MessengerTypes
<1> HIDE DEF new
<1>2. /\ ordered' \in Seq(Contacts) /\ DOMAIN ordered' = DOMAIN ordered \union {new.id} /\ (\A i \in DOMAIN ordered : ordered'[i] = ordered[i])
      /\ ordered'[new.id] = c
  BY <1>0, <1>1 DEF MessengerTypes
<1>3. crossedOps \subseteq crossedOps' /\ crossedOps' \subseteq DOMAIN ordered' /\ (ops # {} => \A o \in ops' : o.id \in crossedOps')
  BY <1>0, <1>1, <1>2 DEF MessengerTypes
<1>4. MessengerTypes'
  BY <1>0, <1>1, <1>2, <1>3 DEF MessengerTypes, Assistant!page, Assistant!results
<1>5. ChatOpen'
  BY <1>0, <1>1 DEF AssistantInv, ChatOpen, Assistant!page
<1>6. AloneOnPage'
  <2>1. CASE ops = {}
    BY <1>0, <1>1, <1>2, <2>1 DEF AloneOnPage
  <2>2. CASE ops # {}
    BY <1>3, <2>2 DEF AloneOnPage
  <2> QED BY <2>1, <2>2
<1>7. Leftovers'
  <2>1. \A d \in Contacts : OnlyCrossed(box[d]) => OnlyCrossed(box[d])'
    BY <1>0, <1>3 DEF OnlyCrossed, Assistant!page
  <2>2. CASE ops = {}
    BY <1>0, <2>1, <2>2 DEF AssistantInv, Leftovers
  <2>3. ASSUME ops # {}, NEW d \in Contacts PROVE OnlyCrossed(box[d])'
    <3>1. CASE OnlyCrossed(box[d])
      BY <2>1, <3>1
    <3>2. ASSUME NEW op \in ops, op.id \notin crossedOps, op.at \in {"type", "enter"}, d = open PROVE OnlyCrossed(box[d])'
      <4>1. EndsWith(box[d], op) /\ op \in Operation
        BY <3>2, <1>0 DEF AssistantInv, AloneOnPage, MessengerTypes
      <4>2. box[d] \in Seq(TypedChar) /\ op.next \in Nat /\ op.next >= 1
        BY <1>0, <4>1 DEF MessengerTypes, Operation
      <4>3. op.id \in crossedOps'
        BY <1>0, <1>3, <2>3, <3>2
      <4>4. \A n \in DOMAIN box[d] : box[d][n][1] \in crossedOps \/ box[d][n][1] = op.id
        <5> DEFINE k == Len(box[d]) - (op.next - 1)
        <5>1. k \in Nat /\ (\A n \in 1..k : box[d][n][1] \in crossedOps) /\ \A n \in 1..op.next - 1 : box[d][k + n] = <<op.id, n>>
          BY <4>1 DEF EndsWith
        <5>2. DOMAIN box[d] = 1..Len(box[d]) /\ Len(box[d]) \in Nat
          BY <4>2
        <5> SUFFICES ASSUME NEW n \in 1..Len(box[d]), n \notin 1..k PROVE box[d][n] = <<op.id, n - k>>
          BY <5>1, <5>2
        <5>3. n - k \in 1..op.next - 1 /\ k + (n - k) = n
          BY <4>2, <5>1, <5>2
        <5> HIDE DEF k
        <5> QED BY <5>1, <5>3
      <4>5. \A n \in DOMAIN box[d] : box[d][n][1] \in crossedOps'
        BY <1>3, <4>3, <4>4
      <4> QED BY <1>0, <4>5 DEF OnlyCrossed, Assistant!page
    <3> QED BY <3>1, <3>2 DEF AssistantInv, Leftovers
  <2> QED BY <2>2, <2>3 DEF Leftovers
<1>8. Arrivals'
  <2> SUFFICES ASSUME NEW id \in reported \ crossedOps' PROVE Arrived(id)'
    BY <1>0 DEF Arrivals, Assistant!results
  <2>1. Arrived(id) /\ id \in DOMAIN ordered
    BY <1>0, <1>3 DEF AssistantInv, Arrivals, MessengerTypes
  <2> QED BY <1>0, <1>2, <1>3, <2>1 DEF Arrived, Assistant!results, Assistant!Whole
<1>9. Looks'
  BY <1>0, <1>2, <1>3 DEF AssistantInv, Looks, Assistant!results, MessengerTypes
<1> QED BY <1>4, <1>5, <1>6, <1>7, <1>8, <1>9 DEF AssistantInv

\* A step of an operation: it goes on, or it is over.
GoesOn(op, g) ==
  /\ ops' = (ops \ {op}) \union {g} /\ g \in Operation /\ g.id = op.id /\ g.to = op.to /\ g.kind = op.kind
IsOver(op) == ops' = ops \ {op}

LEMMA OnwardGoes ==
    ASSUME MessengerTypes, NEW op \in ops, NEW at \in Places, Assistant!Onward(op, at)
    PROVE  \E g : GoesOn(op, g) /\ g.at = at /\ g.next = op.next
<1> DEFINE g == [op EXCEPT !.at = at]
<1>1. op \in Operation
  BY DEF MessengerTypes
<1>2. g \in Operation /\ g.id = op.id /\ g.to = op.to /\ g.kind = op.kind /\ g.at = at /\ g.next = op.next
  BY <1>1 DEF Operation
<1>3. ops' = (ops \ {op}) \union {g}
  BY DEF Assistant!Onward
<1> HIDE DEF g
<1> QED BY <1>2, <1>3 DEF GoesOn

\* While no operation types by itself, every box holds only what crossed ones left.
LEMMA AllClean ==
    ASSUME AssistantInv, NEW op \in ops, op.id \in crossedOps \/ op.at \notin {"type", "enter"} PROVE \A c \in Contacts : OnlyCrossed(box[c])
BY DEF AssistantInv, Leftovers, AloneOnPage

\* Crossed operations are not alone, whatever they do.
LEMMA CrossedKeepAlone ==
    ASSUME AssistantInv, NEW op \in ops, op.id \in crossedOps, UNCHANGED crossedOps, \A x \in ops' : \E y \in ops : x.id = y.id PROVE AloneOnPage'
<1>1. \A x \in ops : x.id \in crossedOps
  BY DEF AssistantInv, AloneOnPage
<1> QED BY <1>1 DEF AloneOnPage

LEMMA CleanKept ==
    ASSUME UNCHANGED crossedOps, NEW c \in Contacts, OnlyCrossed(box[c]), box'[c] = box[c] \/ box'[c] = <<>> PROVE OnlyCrossed(box[c])'
BY DEF OnlyCrossed

LEMMA ResultsKept == ASSUME AssistantInv, UNCHANGED <<ordered, crossedOps, Assistant!results>> PROVE Arrivals' /\ Looks'
<1>1. Arrivals /\ Looks /\ UNCHANGED <<ordered, crossedOps, sent, histories, reported>>
  BY DEF AssistantInv, Assistant!results
<1>2. Looks'
  BY <1>1 DEF Looks
<1>3. \A id : Arrived(id)' <=> Arrived(id)
  BY <1>1 DEF Arrived, Assistant!Whole
<1> QED BY <1>1, <1>2, <1>3 DEF Arrivals

\* The types, after a step that leaves the results alone.
LEMMA StepTypes ==
    ASSUME MessengerTypes, NEW op \in ops, IsOver(op) \/ \E g : GoesOn(op, g), UNCHANGED <<ordered, crossedOps>>
    PROVE  ops' \subseteq Operation /\ (\A x \in ops' : x.id \in DOMAIN ordered' /\ \E y \in ops : x.id = y.id)
BY DEF MessengerTypes, GoesOn, IsOver

\* Steps that type nothing and send nothing.
LEMMA PageStepKeepsAssistant ==
    ASSUME Assistant!MessagesAreTexts, AssistantInv, NEW op \in ops, Assistant!Search(op) \/ Assistant!ClickChat(op) \/ Assistant!ClickBox(op) \/ Assistant!ClearSearch(op) \/ Assistant!TimeOut(op)
    PROVE  AssistantInv'
<1>0. MessengerTypes /\ ChatOpen /\ AloneOnPage /\ UNCHANGED <<ordered, crossedOps, Assistant!results, box>> /\ op \in Operation
  BY DEF AssistantInv, MessengerTypes, Assistant!Search, Assistant!ClickChat, Assistant!ClickBox, Assistant!ClearSearch, Assistant!TimeOut, Assistant!page, Assistant!results
<1>1. op.at \notin {"type", "enter"} /\ op.to \in Contacts
  BY <1>0 DEF Assistant!Search, Assistant!ClickChat, Assistant!ClickBox, Assistant!ClearSearch, Assistant!TimeOut, Operation
<1>2. \A c \in Contacts : OnlyCrossed(box[c])
  BY <1>1, AllClean
<1>3. Leftovers'
  BY <1>0, <1>2 DEF Leftovers, OnlyCrossed
<1>4. Arrivals' /\ Looks'
  BY <1>0, ResultsKept
<1>5. ASSUME IsOver(op) \/ \E g : GoesOn(op, g), search' \in Contacts \union {Nobody, Assistant!Stray}, open' \in Contacts \union {Nobody},
             focus' \in {Nobody, "search", "box"}, ChatOpen', op.id \notin crossedOps => AloneOnPage'
      PROVE  AssistantInv'
  <2>1. ops' \subseteq Operation /\ (\A x \in ops' : x.id \in DOMAIN ordered' /\ \E y \in ops : x.id = y.id)
    BY <1>0, <1>5, StepTypes
  <2>2. MessengerTypes'
    BY <1>0, <1>5, <2>1 DEF MessengerTypes, Assistant!results
  <2>3. AloneOnPage'
    BY <1>0, <1>5, <2>1, CrossedKeepAlone
  <2> QED BY <1>3, <1>4, <1>5, <2>2, <2>3 DEF AssistantInv
<1>6. CASE Assistant!Search(op)
  <2>1. op.at = "search" /\ search' = op.to /\ focus' = "search" /\ Assistant!Onward(op, "chat") /\ open' = open
    BY <1>6 DEF Assistant!Search
  <2>2. PICK g : GoesOn(op, g) /\ g.at = "chat" /\ g.next = op.next
    BY <1>0, <2>1, OnwardGoes DEF Places
  <2>3. ChatOpen'
    BY <1>0, <2>1, <2>2 DEF ChatOpen, GoesOn
  <2>4. op.id \notin crossedOps => AloneOnPage'
    BY <1>0, <2>1, <2>2 DEF AloneOnPage, GoesOn
  <2> QED BY <1>0, <1>1, <1>5, <2>1, <2>2, <2>3, <2>4 DEF MessengerTypes
<1>7. CASE Assistant!ClickChat(op)
  <2>1. /\ op.at = "chat" /\ open' = op.to /\ focus' \in {Nobody, "box"} /\ Assistant!Onward(op, IF op.kind = "send" THEN "box" ELSE "read")
        /\ search' = search
    BY <1>7 DEF Assistant!ClickChat
  <2>2. PICK g : GoesOn(op, g) /\ g.at = (IF op.kind = "send" THEN "box" ELSE "read") /\ g.next = op.next
    BY <1>0, <2>1, OnwardGoes DEF Places
  <2>3. ChatOpen'
    BY <1>0, <1>1, <2>1, <2>2 DEF ChatOpen, GoesOn
  <2>4. op.id \notin crossedOps => AloneOnPage'
    BY <1>0, <2>1, <2>2 DEF AloneOnPage, GoesOn
  <2> QED BY <1>0, <1>1, <1>5, <2>1, <2>2, <2>3, <2>4 DEF MessengerTypes
<1>8. CASE Assistant!ClickBox(op)
  <2>1. op.at = "box" /\ focus' = "box" /\ Assistant!Onward(op, "type") /\ UNCHANGED <<search, open>>
    BY <1>8 DEF Assistant!ClickBox, Assistant!BoxFocus
  <2>2. PICK g : GoesOn(op, g) /\ g.at = "type" /\ g.next = op.next
    BY <1>0, <2>1, OnwardGoes DEF Places
  <2>3. open \in Contacts /\ op.next = 1 /\ 1 <= Length
    BY <1>0, <2>1 DEF ChatOpen, Assistant!MessagesAreTexts
  <2>4. ChatOpen'
    BY <1>0, <2>1, <2>2, <2>3 DEF ChatOpen, GoesOn
  <2>5. EndsWith(box[open], g)'
    <3>1. box[open] \in Seq(TypedChar) /\ OnlyCrossed(box[open])
      BY <1>0, <1>2, <2>3 DEF MessengerTypes
    <3>2. Len(box[open]) \in Nat /\ Len(box[open]) - (1 - 1) = Len(box[open]) /\ \A n \in 1..Len(box[open]) : box[open][n][1] \in crossedOps
      BY <3>1 DEF OnlyCrossed
    <3>3. g.next - 1 = 0 /\ box'[open'] = box[open] /\ crossedOps' = crossedOps
      BY <1>0, <2>1, <2>2, <2>3
    <3>4. Len(box[open]) - 0 = Len(box[open])
      BY <3>2
    <3> QED BY <3>2, <3>3, <3>4 DEF EndsWith
  <2>7. op.id \notin crossedOps => AloneOnPage'
    BY <1>0, <2>1, <2>2, <2>5 DEF AloneOnPage, GoesOn
  <2> QED BY <1>0, <1>5, <2>1, <2>2, <2>4, <2>7 DEF MessengerTypes
<1>9. CASE Assistant!ClearSearch(op) \/ Assistant!TimeOut(op)
  <2>1. IsOver(op) /\ search' \in {Nobody, search} /\ open' = open /\ focus' \in {"search", focus}
    BY <1>9 DEF Assistant!ClearSearch, Assistant!TimeOut, Assistant!Over, IsOver, Assistant!page
  <2>2. ChatOpen'
    BY <1>0, <2>1 DEF ChatOpen, IsOver
  <2>3. op.id \notin crossedOps => AloneOnPage'
    BY <1>0, <2>1 DEF AloneOnPage, IsOver
  <2> QED BY <1>0, <1>5, <2>1, <2>2, <2>3 DEF MessengerTypes
<1> QED BY <1>6, <1>7, <1>8, <1>9

\* One character.
LEMMA TypeKeepsAssistant == ASSUME Assistant!MessagesAreTexts, AssistantInv, NEW op \in ops, Assistant!Type(op) PROVE AssistantInv'
<1>0. /\ MessengerTypes /\ ChatOpen /\ AloneOnPage /\ Leftovers /\ UNCHANGED <<open, focus, Assistant!results, ordered, crossedOps>> /\ op \in Operation
      /\ op.at = "type"
  BY DEF AssistantInv, MessengerTypes, Assistant!Type
<1> DEFINE g == [op EXCEPT !.at = IF op.next = Length THEN "enter" ELSE "type", !.next = @ + 1]
<1>1. op.next \in 1..Length /\ op.id \in Nat \ {0} /\ Length \in Nat
  BY <1>0 DEF ChatOpen, Operation, Assistant!MessagesAreTexts
<1>2. /\ g \in Operation /\ g.id = op.id /\ g.to = op.to /\ g.kind = op.kind /\ g.next = op.next + 1
      /\ g.at = IF op.next = Length THEN "enter" ELSE "type"
  <2>1. (IF op.next = Length THEN "enter" ELSE "type") \in Places /\ op.next + 1 \in 1..Length + 1
    BY <1>1 DEF Places
  <2> QED BY <1>0, <2>1 DEF Operation
<1>3. ops' = (ops \ {op}) \union {g}
  BY DEF Assistant!Type
<1> HIDE DEF g
<1>4. GoesOn(op, g)
  BY <1>2, <1>3 DEF GoesOn
<1>5. ops' \subseteq Operation /\ (\A x \in ops' : x.id \in DOMAIN ordered' /\ \E y \in ops : x.id = y.id)
  BY <1>0, <1>4, StepTypes
<1>6. open \in Contacts
  BY <1>0 DEF ChatOpen
<1> DEFINE t == box[open]
<1> DEFINE u == Append(t, <<op.id, op.next>>)
<1>7. t \in Seq(TypedChar) /\ <<op.id, op.next>> \in TypedChar
  BY <1>0, <1>1, <1>6 DEF MessengerTypes, TypedChar
<1>8. /\ u \in Seq(TypedChar) /\ Len(u) = Len(t) + 1 /\ Len(t) \in Nat /\ DOMAIN u = 1..Len(t) + 1 /\ DOMAIN t = 1..Len(t)
      /\ (\A n \in 1..Len(t) : u[n] = t[n]) /\ u[Len(t) + 1] = <<op.id, op.next>>
  BY <1>7
<1>9. /\ box' = IF focus = "box" THEN [box EXCEPT ![open] = u] ELSE box
      /\ search' = IF focus = "search" THEN Assistant!Stray ELSE search
  BY DEF Assistant!Type
<1> HIDE DEF t, u
<1>10. MessengerTypes'
  BY <1>0, <1>5, <1>8, <1>9 DEF MessengerTypes, Assistant!results
<1>11. ChatOpen'
  BY <1>0, <1>1, <1>2, <1>3 DEF ChatOpen
<1>12. Arrivals' /\ Looks'
  BY <1>0, ResultsKept
<1>13. box[open] = t /\ box \in [Contacts -> Seq(TypedChar)]
  BY <1>0 DEF t, MessengerTypes
<1>14. CASE op.id \in crossedOps
  <2>1. AloneOnPage'
    BY <1>0, <1>5, <1>14, CrossedKeepAlone
  <2>2. \A c \in Contacts : OnlyCrossed(box[c])
    BY <1>14, AllClean
  <2>3. \A n \in DOMAIN u : u[n][1] \in crossedOps
    <3>1. \A n \in 1..Len(t) : t[n][1] \in crossedOps
      BY <1>6, <1>8, <1>13, <2>2 DEF OnlyCrossed
    <3> SUFFICES ASSUME NEW n \in 1..Len(t) + 1 PROVE u[n][1] \in crossedOps
      BY <1>8
    <3>2. CASE n = Len(t) + 1
      BY <1>8, <1>14, <3>2
    <3>3. CASE n # Len(t) + 1
      <4>1. n \in 1..Len(t)
        BY <1>8, <3>3
      <4> QED BY <1>8, <3>1, <4>1
    <3> QED BY <3>2, <3>3
  <2>4. \A c \in Contacts : box'[c] = box[c] \/ box'[c] = u
    BY <1>9, <1>13
  <2>5. Leftovers'
    BY <1>0, <2>2, <2>3, <2>4 DEF Leftovers, OnlyCrossed
  <2> QED BY <1>10, <1>11, <1>12, <2>1, <2>5 DEF AssistantInv
<1>15. CASE op.id \notin crossedOps
  <2>1. ops = {op} /\ op.to = ordered[op.id] /\ open = op.to /\ focus = "box" /\ EndsWith(t, op)
    BY <1>0, <1>13, <1>15 DEF AloneOnPage
  <2>2. ops' = {g} /\ box' = [box EXCEPT ![open] = u] /\ box'[open] = u
    BY <1>3, <1>6, <1>9, <1>13, <2>1
  <2>3. EndsWith(u, g)
    <3> DEFINE k == Len(t) - (op.next - 1)
    <3>1. k \in Nat /\ (\A n \in 1..k : t[n][1] \in crossedOps) /\ \A n \in 1..op.next - 1 : t[k + n] = <<op.id, n>>
      BY <2>1 DEF EndsWith
    <3>2. Len(u) - (g.next - 1) = k /\ k <= Len(t) /\ g.next - 1 = op.next /\ k + op.next = Len(t) + 1
      BY <1>1, <1>2, <1>8
    <3>3. \A n \in 1..k : u[n][1] \in crossedOps
      <4>1. \A n \in 1..k : n \in 1..Len(t)
        BY <1>8, <3>1, <3>2
      <4> QED BY <1>8, <3>1, <4>1
    <3>4. ASSUME NEW n \in 1..op.next PROVE u[k + n] = <<op.id, n>>
      <4>1. CASE n = op.next
        BY <1>8, <3>2, <4>1
      <4>2. CASE n # op.next
        <5>1. n \in 1..op.next - 1
          BY <1>1, <4>2
        <5>2. k + n \in 1..Len(t)
          BY <1>1, <1>8, <3>1, <3>2, <5>1
        <5> HIDE DEF k
        <5> QED BY <1>8, <3>1, <5>1, <5>2
      <4> QED BY <4>1, <4>2
    <3> HIDE DEF k
    <3> QED BY <1>2, <3>1, <3>2, <3>3, <3>4 DEF EndsWith
  <2>4. EndsWith(box[open], g)'
    <3>1. box'[open'] = u /\ crossedOps' = crossedOps
      BY <1>0, <2>2
    <3> QED BY <2>3, <3>1 DEF EndsWith
  <2>5. AloneOnPage'
    BY <1>0, <1>1, <1>2, <1>15, <2>1, <2>2, <2>4 DEF AloneOnPage
  <2>6. Leftovers'
    <3> SUFFICES ASSUME NEW c \in Contacts, c # open PROVE OnlyCrossed(box[c])'
      BY <1>0, <1>2, <1>15, <2>2 DEF Leftovers
    <3>1. OnlyCrossed(box[c]) /\ box'[c] = box[c]
      BY <1>0, <1>13, <2>2 DEF Leftovers
    <3> QED BY <1>0, <3>1 DEF OnlyCrossed
  <2> QED BY <1>10, <1>11, <1>12, <2>5, <2>6 DEF AssistantInv
<1> QED BY <1>14, <1>15

\* What Ends says of a message that is typed to its end.
LEMMA EndsWhole ==
    ASSUME Assistant!MessagesAreTexts, NEW op \in Operation, op.next = Length + 1, NEW t \in Seq(TypedChar), EndsWith(t, op)
    PROVE  /\ t # <<>>
           /\ \E k \in 0..Len(t) : SubSeq(t, k + 1, Len(t)) = Assistant!Whole(op.id) /\ \A n \in 1..k : t[n][1] \in crossedOps
<1> DEFINE k == Len(t) - Length
<1>1. Length \in Nat /\ Length >= 1 /\ Len(t) \in Nat /\ op.next - 1 = Length
  BY DEF Assistant!MessagesAreTexts
<1>2. k \in Nat /\ (\A n \in 1..k : t[n][1] \in crossedOps) /\ \A n \in 1..Length : t[k + n] = <<op.id, n>>
  BY <1>1 DEF EndsWith
<1>3. k \in 0..Len(t) /\ Len(t) - (k + 1) + 1 = Length /\ Len(t) = k + Length
  BY <1>1, <1>2
<1>4. t # <<>>
  BY <1>1, <1>3, <1>2
<1> DEFINE u == SubSeq(t, k + 1, Len(t))
<1>5. u \in Seq(TypedChar) /\ Len(u) = Length /\ \A n \in 1..Length : u[n] = t[k + n]
  <2>1. k + 1 \in 1..Len(t) + 1 /\ Len(t) - (k + 1) + 1 = Length
    BY <1>1, <1>3
  <2>2. \A n \in 1..Length : n + (k + 1) - 1 = k + n
    BY <1>1, <1>2
  <2> QED BY <1>1, <1>2, <1>3, <2>1, <2>2
<1> HIDE DEF u
<1>7. u = [n \in 1..Length |-> u[n]]
  BY <1>5
<1>8. u = Assistant!Whole(op.id)
  BY <1>2, <1>5, <1>7 DEF Assistant!Whole
<1> QED BY <1>2, <1>3, <1>4, <1>8 DEF u

\* The key that sends what is typed.
LEMMA EnterKeepsAssistant == ASSUME Assistant!MessagesAreTexts, AssistantInv, NEW op \in ops, Assistant!Enter(op) PROVE AssistantInv'
<1>0. /\ MessengerTypes /\ ChatOpen /\ AloneOnPage /\ Leftovers /\ Arrivals /\ Looks
      /\ UNCHANGED <<search, open, focus, histories, ordered, crossedOps>> /\ op \in Operation
      /\ op.at = "enter" /\ Assistant!Onward(op, "clear") /\ reported' = reported \union {op.id}
  BY DEF AssistantInv, MessengerTypes, Assistant!Enter
<1>1. PICK g : GoesOn(op, g) /\ g.at = "clear" /\ g.next = op.next
  BY <1>0, OnwardGoes DEF Places
<1>2. ops' \subseteq Operation /\ (\A x \in ops' : x.id \in DOMAIN ordered' /\ \E y \in ops : x.id = y.id)
  BY <1>0, <1>1, StepTypes
<1>3. open \in Contacts /\ op.id \in DOMAIN ordered /\ op.id \in Nat \ {0} /\ box \in [Contacts -> Seq(TypedChar)]
  BY <1>0 DEF ChatOpen, MessengerTypes, Operation
<1> DEFINE m == [by |-> op.id, to |-> open, text |-> box[open]]
<1>4. m \in Note /\ m.by = op.id /\ m.to = open /\ m.text = box[open]
  BY <1>3 DEF Note
<1>5. \/ focus = "box" /\ box[open] # <<>> /\ sent' = sent \union {m} /\ box' = [box EXCEPT ![open] = <<>>]
      \/ ~(focus = "box" /\ box[open] # <<>>) /\ UNCHANGED <<sent, box>>
  BY DEF Assistant!Enter
<1> HIDE DEF m
<1>6. sent \subseteq sent' /\ sent' \subseteq Note /\ box' \in [Contacts -> Seq(TypedChar)]
      /\ \A c \in Contacts : box'[c] = box[c] \/ box'[c] = <<>>
  <2>1. sent' = sent \/ sent' = sent \union {m}
    BY <1>5
  <2>2. box' = box \/ box' = [box EXCEPT ![open] = <<>>]
    BY <1>5
  <2>3. sent \subseteq Note
    BY <1>0 DEF MessengerTypes
  <2>4. sent \subseteq sent' /\ sent' \subseteq Note
    BY <1>4, <2>1, <2>3
  <2>5. box' \in [Contacts -> Seq(TypedChar)]
    <3>1. <<>> \in Seq(TypedChar)
      OBVIOUS
    <3> QED BY <1>3, <2>2, <3>1
  <2>6. \A c \in Contacts : box'[c] = box[c] \/ box'[c] = <<>>
    BY <1>3, <2>2
  <2> QED BY <2>4, <2>5, <2>6
<1>7. MessengerTypes'
  BY <1>0, <1>2, <1>3, <1>6 DEF MessengerTypes
<1>8. ChatOpen'
  BY <1>0, <1>1 DEF ChatOpen, GoesOn
<1>9. \A id \in reported \ crossedOps : Arrived(id)'
  <2> SUFFICES ASSUME NEW id \in reported \ crossedOps PROVE Arrived(id)'
    OBVIOUS
  <2>1. Arrived(id)
    BY <1>0 DEF Arrivals
  <2>2. PICK x \in sent : /\ x.by = id /\ x.to = ordered[id]
                         /\ \E k \in 0..Len(x.text) : /\ SubSeq(x.text, k + 1, Len(x.text)) = Assistant!Whole(id)
                                                       /\ \A n \in 1..k : x.text[n][1] \in crossedOps
    BY <2>1 DEF Arrived
  <2>3. x \in sent' /\ ordered' = ordered /\ crossedOps' = crossedOps /\ Assistant!Whole(id)' = Assistant!Whole(id)
    BY <1>0, <1>6, <2>2 DEF Assistant!Whole
  <2> QED BY <2>2, <2>3 DEF Arrived
<1>10. Looks'
  BY <1>0 DEF Looks
<1>11. CASE op.id \in crossedOps
  <2>1. AloneOnPage'
    BY <1>0, <1>2, <1>11, CrossedKeepAlone
  <2>2. \A c \in Contacts : OnlyCrossed(box[c])
    BY <1>11, AllClean
  <2>3. Leftovers'
    BY <1>0, <1>6, <2>2, CleanKept DEF Leftovers
  <2>4. Arrivals'
    BY <1>0, <1>9, <1>11 DEF Arrivals
  <2> QED BY <1>7, <1>8, <1>10, <2>1, <2>3, <2>4 DEF AssistantInv
<1>12. CASE op.id \notin crossedOps
  <2>1. /\ ops = {op} /\ op.to = ordered[op.id] /\ open = op.to /\ focus = "box" /\ EndsWith(box[open], op)
        /\ op.next = Length + 1
    BY <1>0, <1>12 DEF AloneOnPage
  <2>2. /\ box[open] # <<>>
        /\ \E k \in 0..Len(box[open]) : /\ SubSeq(box[open], k + 1, Len(box[open])) = Assistant!Whole(op.id)
                                        /\ \A n \in 1..k : box[open][n][1] \in crossedOps
    BY <1>0, <1>3, <2>1, EndsWhole
  <2>3. sent' = sent \union {m} /\ box' = [box EXCEPT ![open] = <<>>]
    BY <1>5, <2>1, <2>2
  <2>4. Arrived(op.id)'
    <3>1. m \in sent' /\ m.by = op.id /\ m.to = ordered'[op.id]
      BY <1>0, <1>4, <2>1, <2>3
    <3> QED BY <1>0, <1>4, <2>2, <3>1 DEF Arrived, Assistant!Whole
  <2>5. Arrivals'
    BY <1>0, <1>9, <2>4 DEF Arrivals
  <2>6. AloneOnPage'
    BY <1>0, <1>1, <2>1 DEF AloneOnPage, GoesOn
  <2>7. Leftovers'
    <3> SUFFICES ASSUME NEW c \in Contacts PROVE OnlyCrossed(box[c])'
      BY DEF Leftovers
    <3>1. CASE c = open
      BY <1>3, <2>3, <3>1 DEF OnlyCrossed
    <3>2. CASE c # open
      <4>1. OnlyCrossed(box[c]) /\ box'[c] = box[c]
        BY <1>0, <1>3, <2>3, <3>2 DEF Leftovers
      <4> QED BY <1>0, <4>1, CleanKept
    <3> QED BY <3>1, <3>2
  <2> QED BY <1>7, <1>8, <1>10, <2>5, <2>6, <2>7 DEF AssistantInv
<1> QED BY <1>11, <1>12

\* A history is read off the open chat.
LEMMA ReadKeepsAssistant == ASSUME Assistant!MessagesAreTexts, AssistantInv, NEW op \in ops, Assistant!Read(op) PROVE AssistantInv'
<1>0. /\ MessengerTypes /\ ChatOpen /\ AloneOnPage /\ Leftovers /\ Arrivals /\ Looks /\ UNCHANGED <<Assistant!page, sent, reported, ordered, crossedOps>>
      /\ op \in Operation /\ op.at = "read" /\ IsOver(op) /\ histories' = histories \union {[by |-> op.id, of |-> open]}
  BY DEF AssistantInv, MessengerTypes, Assistant!Read, Assistant!Over, IsOver
<1>1. open \in Contacts /\ op.id \in DOMAIN ordered /\ op.id \in Nat \ {0}
  BY <1>0 DEF ChatOpen, MessengerTypes, Operation
<1>2. ops' \subseteq Operation /\ (\A x \in ops' : x.id \in DOMAIN ordered' /\ \E y \in ops : x.id = y.id)
  BY <1>0, StepTypes
<1>3. histories' \subseteq History /\ \A h \in histories' : h \in histories \/ (h.by = op.id /\ h.of = open)
  BY <1>0, <1>1 DEF MessengerTypes, History
<1>4. MessengerTypes'
  BY <1>0, <1>1, <1>2, <1>3 DEF MessengerTypes, Assistant!page
<1>5. ChatOpen' /\ Arrivals'
  BY <1>0 DEF ChatOpen, IsOver, Assistant!page, Arrivals, Arrived, Assistant!Whole
<1>6. Looks'
  BY <1>0, <1>3 DEF Looks, AloneOnPage
<1>7. Leftovers'
  <2>1. \A c \in Contacts : OnlyCrossed(box[c])
    BY <1>0, AllClean
  <2> QED BY <1>0, <2>1 DEF Leftovers, OnlyCrossed, Assistant!page
<1>8. AloneOnPage'
  <2>1. CASE op.id \in crossedOps
    BY <1>0, <1>2, <2>1, CrossedKeepAlone
  <2>2. CASE op.id \notin crossedOps
    BY <1>0, <2>2 DEF AloneOnPage, IsOver
  <2> QED BY <2>1, <2>2
<1> QED BY <1>4, <1>5, <1>6, <1>7, <1>8 DEF AssistantInv

LEMMA MessengerStep == Assistant!MessagesAreTexts /\ AssistantInv /\ [Assistant!Next]_(Assistant!vars) => AssistantInv'
<1> SUFFICES ASSUME Assistant!MessagesAreTexts, AssistantInv, [Assistant!Next]_(Assistant!vars) PROVE AssistantInv'
  OBVIOUS
<1>1. ASSUME NEW op \in ops, Assistant!Step(op) PROVE AssistantInv'
  BY <1>1, PageStepKeepsAssistant, TypeKeepsAssistant, EnterKeepsAssistant, ReadKeepsAssistant DEF Assistant!Step
<1>2. ASSUME NEW kind \in {"send", "history"}, NEW c \in Contacts, Assistant!Click(kind, c) PROVE AssistantInv'
  BY <1>2, ClickKeepsAssistant
<1>3. CASE UNCHANGED Assistant!vars
  <2>1. UNCHANGED <<search, open, focus, box, ops, sent, histories, reported, ordered, crossedOps>> /\ UNCHANGED Assistant!results
    BY <1>3 DEF Assistant!vars, Assistant!page, Assistant!results
  <2>2. MessengerTypes' /\ ChatOpen'
    BY <2>1 DEF AssistantInv, MessengerTypes, ChatOpen
  <2>3. AloneOnPage'
    BY <2>1 DEF AssistantInv, AloneOnPage, EndsWith
  <2>4. Leftovers'
    BY <2>1 DEF AssistantInv, Leftovers, OnlyCrossed
  <2>5. Arrivals' /\ Looks'
    BY <2>1, ResultsKept
  <2> QED BY <2>2, <2>3, <2>4, <2>5 DEF AssistantInv
<1> QED BY <1>1, <1>2, <1>3 DEF Assistant!Next, Assistant!Loop

LEMMA MessengerInvHolds == ASSUME Assistant!MessagesAreTexts PROVE Assistant!Init /\ [][Assistant!Next]_(Assistant!vars) => []AssistantInv
BY MessengerInitInv, MessengerStep, PTL

LEMMA MessengerTypesGiven == AssistantInv => Assistant!TypeOK
BY DEF AssistantInv, MessengerTypes, Operation, Places, Assistant!TypeOK

\* The assistant's variables have their types, for any contacts and any operations that cross.
THEOREM MessengerTypeCorrect == ASSUME Assistant!MessagesAreTexts PROVE Assistant!Init /\ [][Assistant!Next]_(Assistant!vars) => []Assistant!TypeOK
BY MessengerTypesGiven, MessengerInvHolds, PTL

LEMMA MessengerSuffices == AssistantInv => Assistant!RepliesReach
BY DEF AssistantInv, Arrivals, Arrived, Looks, Assistant!RepliesReach

\* For any contacts and interleavings of the coroutines on the one page: a reply that had the page to itself and is logged as
\* sent went to its contact, whole, and such a history is its contact's (send_reply, get_history).
THEOREM RepliesArrive == ASSUME Assistant!MessagesAreTexts PROVE Assistant!Init /\ [][Assistant!Next]_(Assistant!vars) => []Assistant!RepliesReach
BY MessengerSuffices, MessengerInvHolds, PTL

-----------------------------------------------------------------------------
(* The disk scanner, of which ScanProofs proves what holds for every tree  *)
(* and all limits: one worker and many scans, or many workers.  Both are   *)
(* the scanner of those proofs, operator by operator.                      *)
Single == INSTANCE ScanProofs WITH Unreadable <- Forbidden
Pooled == INSTANCE ScanProofs WITH Unreadable <- Forbidden, Scans <- PoolScans, MaxWorkers <- PoolWorkers,
            MaxOutstanding <- PoolOutstanding, Dirs <- PoolDirs, Parent <- PoolParent

LEMMA SingleIs ==
  /\ (Scanner!Init <=> Single!Init) /\ (Scanner!Next <=> Single!Next) /\ (UNCHANGED Scanner!vars <=> UNCHANGED Single!vars)
  /\ (Scanner!ScanConstants <=> Single!ScanConstants)
  /\ (Scanner!TypeOK <=> Single!TypeOK) /\ (Scanner!ScanWhole <=> Single!ScanWhole) /\ (Scanner!NewestWins <=> Single!NewestWins)
<1> USE DEF Scanner!Next, Single!Next, Scanner!OpenFolder, Single!OpenFolder, Scanner!Poll, Single!Poll, Scanner!BeginPoll,
      Single!BeginPoll, Scanner!HandleEvent, Single!HandleEvent, Scanner!Stale, Single!Stale, Scanner!QueueEmpty,
      Single!QueueEmpty, Scanner!EndPoll, Single!EndPoll, Scanner!Alive, Single!Alive, Scanner!ScanThreads,
      Single!ScanThreads, Scanner!Coordinator, Single!Coordinator, Scanner!Begin, Single!Begin, Scanner!At, Single!At,
      Scanner!Set, Single!Set, Scanner!Put, Single!Put, Scanner!ScanRoot, Single!ScanRoot, Scanner!Quiet,
      Single!Quiet, Scanner!Children, Single!Children, Scanner!LeaveLoop, Single!LeaveLoop, Scanner!Schedule,
      Single!Schedule, Scanner!OfSize, Single!OfSize, Scanner!Cardinality, Single!Cardinality, Scanner!Smaller,
      Single!Smaller, Scanner!Room, Single!Room, Scanner!Outstanding, Single!Outstanding, Scanner!Job, Single!Job,
      Scanner!Collect, Single!Collect, Scanner!Done, Single!Done, Scanner!TakeResult, Single!TakeResult,
      Scanner!Attached, Single!Attached, Scanner!SplitDeferred, Single!SplitDeferred, Scanner!IsRoom, Single!IsRoom,
      Scanner!InlineVisit, Single!InlineVisit, Scanner!Visited, Single!Visited, Scanner!PutOff, Single!PutOff,
      Scanner!depth, Single!depth, Scanner!Entries, Single!Entries, Scanner!AttachInline, Single!AttachInline,
      Scanner!NoJob, Single!NoJob, Scanner!Report, Single!Report, Scanner!Unborn, Single!Unborn, Scanner!ExitThread,
      Single!ExitThread, Scanner!WorkerVisit, Single!WorkerVisit, Scanner!WindowQuiet, Single!WindowQuiet,
      Scanner!window, Single!window, Scanner!Init, Single!Init, Scanner!ScanInit, Single!ScanInit, Scanner!Nothing,
      Single!Nothing, Scanner!vars, Single!vars, Scanner!TypeOK, Single!TypeOK, Scanner!ScanWhole, Single!ScanWhole,
      Scanner!EachDirOnce, Single!EachDirOnce, Scanner!Shares, Single!Shares, Scanner!below, Single!below,
      Scanner!Closed, Single!Closed, Scanner!Serial, Single!Serial, Scanner!NeverFails, Single!NeverFails,
      Scanner!ShownIsWhole, Single!ShownIsWhole, Scanner!PollsOn, Single!PollsOn, Scanner!NewestWins,
      Single!NewestWins, Scanner!ScanConstants, Single!ScanConstants, Scanner!IsTree, Single!IsTree,
      Scanner!IsFiniteSet, Single!IsFiniteSet
<1>1. Scanner!Next <=> Single!Next
  OBVIOUS
<1>2. (Scanner!Init <=> Single!Init) /\ (UNCHANGED Scanner!vars <=> UNCHANGED Single!vars) /\ (Scanner!ScanConstants <=> Single!ScanConstants)
  OBVIOUS
<1>3. (Scanner!TypeOK <=> Single!TypeOK) /\ (Scanner!ScanWhole <=> Single!ScanWhole) /\ (Scanner!NewestWins <=> Single!NewestWins)
  OBVIOUS
<1> QED BY <1>1, <1>2, <1>3

LEMMA PooledIs ==
  /\ (Pool!Init <=> Pooled!Init) /\ (Pool!Next <=> Pooled!Next) /\ (UNCHANGED Pool!vars <=> UNCHANGED Pooled!vars)
  /\ (Pool!ScanConstants <=> Pooled!ScanConstants)
  /\ (Pool!TypeOK <=> Pooled!TypeOK) /\ (Pool!ScanWhole <=> Pooled!ScanWhole) /\ (Pool!NewestWins <=> Pooled!NewestWins)
<1> USE DEF Pool!Next, Pooled!Next, Pool!OpenFolder, Pooled!OpenFolder, Pool!Poll, Pooled!Poll, Pool!BeginPoll,
      Pooled!BeginPoll, Pool!HandleEvent, Pooled!HandleEvent, Pool!Stale, Pooled!Stale, Pool!QueueEmpty,
      Pooled!QueueEmpty, Pool!EndPoll, Pooled!EndPoll, Pool!Alive, Pooled!Alive, Pool!ScanThreads, Pooled!ScanThreads,
      Pool!Coordinator, Pooled!Coordinator, Pool!Begin, Pooled!Begin, Pool!At, Pooled!At, Pool!Set, Pooled!Set,
      Pool!Put, Pooled!Put, Pool!ScanRoot, Pooled!ScanRoot, Pool!Quiet, Pooled!Quiet, Pool!Children, Pooled!Children,
      Pool!LeaveLoop, Pooled!LeaveLoop, Pool!Schedule, Pooled!Schedule, Pool!OfSize, Pooled!OfSize, Pool!Cardinality,
      Pooled!Cardinality, Pool!Smaller, Pooled!Smaller, Pool!Room, Pooled!Room, Pool!Outstanding, Pooled!Outstanding,
      Pool!Job, Pooled!Job, Pool!Collect, Pooled!Collect, Pool!Done, Pooled!Done, Pool!TakeResult, Pooled!TakeResult,
      Pool!Attached, Pooled!Attached, Pool!SplitDeferred, Pooled!SplitDeferred, Pool!IsRoom, Pooled!IsRoom,
      Pool!InlineVisit, Pooled!InlineVisit, Pool!Visited, Pooled!Visited, Pool!PutOff, Pooled!PutOff, Pool!depth,
      Pooled!depth, Pool!Entries, Pooled!Entries, Pool!AttachInline, Pooled!AttachInline, Pool!NoJob, Pooled!NoJob,
      Pool!Report, Pooled!Report, Pool!Unborn, Pooled!Unborn, Pool!ExitThread, Pooled!ExitThread, Pool!WorkerVisit,
      Pooled!WorkerVisit, Pool!WindowQuiet, Pooled!WindowQuiet, Pool!window, Pooled!window, Pool!Init, Pooled!Init,
      Pool!ScanInit, Pooled!ScanInit, Pool!Nothing, Pooled!Nothing, Pool!vars, Pooled!vars, Pool!TypeOK,
      Pooled!TypeOK, Pool!ScanWhole, Pooled!ScanWhole, Pool!EachDirOnce, Pooled!EachDirOnce, Pool!Shares,
      Pooled!Shares, Pool!below, Pooled!below, Pool!Closed, Pooled!Closed, Pool!Serial, Pooled!Serial,
      Pool!NeverFails, Pooled!NeverFails, Pool!ShownIsWhole, Pooled!ShownIsWhole, Pool!PollsOn, Pooled!PollsOn,
      Pool!NewestWins, Pooled!NewestWins, Pool!ScanConstants, Pooled!ScanConstants, Pool!IsTree, Pooled!IsTree,
      Pool!IsFiniteSet, Pooled!IsFiniteSet
<1>1. Pool!Next <=> Pooled!Next
  OBVIOUS
<1>2. (Pool!Init <=> Pooled!Init) /\ (UNCHANGED Pool!vars <=> UNCHANGED Pooled!vars) /\ (Pool!ScanConstants <=> Pooled!ScanConstants)
  OBVIOUS
<1>3. (Pool!TypeOK <=> Pooled!TypeOK) /\ (Pool!ScanWhole <=> Pooled!ScanWhole) /\ (Pool!NewestWins <=> Pooled!NewestWins)
  OBVIOUS
<1> QED BY <1>1, <1>2, <1>3

ScannerInv == IF which = "pool" THEN Pooled!LimitsInv ELSE Single!LimitsInv

LEMMA ScannerSuffices ==
  ASSUME ProgramsConstants, ScannerInv
  PROVE  IF which = "pool" THEN Pool!TypeOK /\ Pool!ScanWhole ELSE Scanner!TypeOK /\ Scanner!ScanWhole
<1>1. Single!ScanConstants /\ Pooled!ScanConstants
  BY SingleIs, PooledIs DEF ProgramsConstants
<1>2. CASE which = "pool"
  <2>1. Pooled!LimitsInv /\ Pooled!ScanInv
    BY <1>2 DEF ScannerInv, Pooled!LimitsInv
  <2> QED BY <1>1, <1>2, <2>1, Pooled!LimitsSuffice, Pooled!InvGivesWhole, PooledIs
<1>3. CASE which # "pool"
  <2>1. Single!LimitsInv /\ Single!ScanInv
    BY <1>3 DEF ScannerInv, Single!LimitsInv
  <2> QED BY <1>1, <1>3, <2>1, Single!LimitsSuffice, Single!InvGivesWhole, SingleIs
<1> QED BY <1>2, <1>3

LEMMA ScannerStart ==
  ASSUME ProgramsConstants, IF which = "pool" THEN Pool!Init ELSE Scanner!Init
  PROVE  ScannerInv
<1>1. Single!ScanConstants /\ Pooled!ScanConstants
  BY SingleIs, PooledIs DEF ProgramsConstants
<1> QED BY <1>1, SingleIs, PooledIs, Single!LimitsStart, Pooled!LimitsStart DEF ScannerInv

\* A step of either scanner.
LEMMA ScannerStep ==
  ASSUME ProgramsConstants, ScannerInv, which' = which,
         IF which = "pool" THEN [Pool!Next]_(Pool!vars) ELSE [Scanner!Next]_(Scanner!vars)
  PROVE  ScannerInv' /\ Scanner!NewestWins
<1>1. Single!ScanConstants /\ Pooled!ScanConstants
  BY SingleIs, PooledIs DEF ProgramsConstants
<1>2. CASE which = "pool"
  <2>1. Pooled!LimitsInv /\ Pooled!ScanInv /\ [Pooled!Next]_(Pooled!vars)
    BY <1>2, PooledIs DEF ScannerInv, Pooled!LimitsInv
  <2>2. Pooled!LimitsInv' /\ Pooled!NewestWins
    BY <1>1, <2>1, Pooled!LimitsStep, Pooled!ScanStepInv
  <2> QED BY <1>2, <2>2 DEF ScannerInv, Pooled!NewestWins, Scanner!NewestWins
<1>3. CASE which # "pool"
  <2>1. Single!LimitsInv /\ Single!ScanInv /\ [Single!Next]_(Single!vars)
    BY <1>3, SingleIs DEF ScannerInv, Single!LimitsInv
  <2>2. Single!LimitsInv' /\ Single!NewestWins
    BY <1>1, <2>1, Single!LimitsStep, Single!ScanStepInv
  <2> QED BY <1>3, <2>2, SingleIs DEF ScannerInv
<1> QED BY <1>2, <1>3

-----------------------------------------------------------------------------
(* The programs beside each other.                                         *)

Inv ==
  /\ ChessInv /\ BenchInv /\ FactoryInv /\ IndexInv /\ Pieced /\ PageInv /\ StoreInv /\ Replied /\ AssistantInv
  /\ ScannerInv

LEMMA AllStart == ASSUME ProgramsConstants, ProgramsInit PROVE Inv
<1>1. ChessInv /\ BenchInv /\ FactoryInv
  BY ChessStart, BenchStart, FactoryStart DEF ProgramsInit, ProgramsConstants
<1>2. IndexInv /\ PageInv /\ StoreInv /\ AssistantInv
  <2>1. IsFiniteSet(Page!Ids)
    BY DEF ProgramsConstants
  <2> QED BY <2>1, IndexInitInv, PageInitInv, StoreInitInv, MessengerInitInv DEF ProgramsInit, ProgramsConstants
<1>3. ScannerInv
  BY ScannerStart DEF ProgramsInit
<1>4. Pieced /\ Replied
  BY PiecedInit, RepliedInit DEF ProgramsInit
<1> QED BY <1>1, <1>2, <1>3, <1>4 DEF Inv

\* Each program takes its own steps, and stands still in those of the others.
LEMMA OwnSteps ==
  ASSUME [ProgramsNext]_programs
  PROVE  /\ which' = which
         /\ [ChessNext]_chessVars /\ [BenchNext]_benchVars /\ [Next]_vars
         /\ [Server!Next]_(Server!vars) /\ [Page!Next]_(Page!vars)
         /\ [Personal!Next]_(Personal!vars) /\ [Assistant!Next]_(Assistant!vars)
         /\ IF which = "pool" THEN [Pool!Next]_(Pool!vars) ELSE [Scanner!Next]_(Scanner!vars)
<1> DEFINE Still(w) ==
      /\ (w # "server" => UNCHANGED Server!vars) /\ (w # "page" => UNCHANGED Page!vars)
      /\ (w # "personal" => UNCHANGED Personal!vars) /\ (w # "messenger" => UNCHANGED Assistant!vars)
      /\ (w # "scanner" => UNCHANGED <<Scanner!vars, Pool!vars>>)
<1>1. /\ UNCHANGED server => UNCHANGED Server!vars
      /\ UNCHANGED page => UNCHANGED Page!vars
      /\ UNCHANGED personal => UNCHANGED Personal!vars
      /\ UNCHANGED messenger => UNCHANGED Assistant!vars
      /\ UNCHANGED scanner => UNCHANGED <<Scanner!vars, Pool!vars>>
      /\ UNCHANGED rest => UNCHANGED <<personal, messenger>>
  <2>1. UNCHANGED server => UNCHANGED Server!vars
    BY DEF server, Server!vars, Server!store, Server!history, Server!bounds
  <2>2. UNCHANGED page => UNCHANGED Page!vars
    BY DEF page, Page!vars
  <2>3. UNCHANGED personal => UNCHANGED Personal!vars
    BY DEF personal, Personal!vars
  <2>4. UNCHANGED messenger => UNCHANGED Assistant!vars
    BY DEF messenger, Assistant!vars, Assistant!page, Assistant!results
  <2>5. UNCHANGED scanner => UNCHANGED <<Scanner!vars, Pool!vars>>
    BY DEF scanner, Scanner!vars, Scanner!window, Pool!vars, Pool!window
  <2> QED BY <2>1, <2>2, <2>3, <2>4, <2>5 DEF rest
<1>2. CASE MatchNext \/ WindowNext \/ FactoryNext
  BY <1>1, <1>2 DEF MatchNext, WindowNext, FactoryNext
<1>3. CASE ServerNext \/ PageNext
  BY <1>1, <1>3 DEF ServerNext, PageNext
<1>4. CASE ScannerNext
  BY <1>1, <1>4 DEF ScannerNext
<1>5. CASE PersonalNext \/ MessengerNext
  BY <1>1, <1>5 DEF PersonalNext, MessengerNext
<1>6. CASE UNCHANGED programs
  BY <1>1, <1>6 DEF programs
<1> QED BY <1>2, <1>3, <1>4, <1>5, <1>6 DEF ProgramsNext

LEMMA AllStep == ASSUME ProgramsConstants, Inv, [ProgramsNext]_programs PROVE Inv' /\ Scanner!NewestWins
<1>1. ChessInv' /\ BenchInv' /\ FactoryInv'
  BY OwnSteps, ChessStep, BenchStep, FactoryStep DEF Inv, ProgramsConstants
<1>2. IndexInv' /\ PageInv' /\ StoreInv' /\ AssistantInv'
  BY OwnSteps, IndexStep, PageStep, StoreStep, MessengerStep DEF Inv, ProgramsConstants
<1>3. ScannerInv' /\ Scanner!NewestWins
  BY OwnSteps, ScannerStep DEF Inv
<1>4. Pieced' /\ Replied'
  BY OwnSteps, PiecedStep, RepliedStep DEF Inv, ProgramsConstants
<1> QED BY <1>1, <1>2, <1>3, <1>4 DEF Inv

LEMMA InvAlways == ASSUME ProgramsConstants PROVE ProgramsSpec => []Inv
BY AllStart, AllStep, PTL DEF ProgramsSpec

\* The variables of all programs have their types, for any constants that are as ProgramsConstants says.
THEOREM ProgramsTypeCorrect == ASSUME ProgramsConstants PROVE ProgramsSpec => []ProgramsTypeOK
<1>1. Inv => ProgramsTypeOK
  <2> SUFFICES ASSUME Inv PROVE ProgramsTypeOK
    OBVIOUS
  <2>1. ChessTypeOK /\ BenchTypeOK /\ TypeOK
    BY ChessTypesGiven, BenchTypesGiven, FactoryTypes DEF Inv
  <2>2. Server!TypeOK /\ Page!TypeOK /\ Personal!TypeOK /\ Assistant!TypeOK
    BY ServerTypesGiven, PageTypesGiven, StoreTypesGiven, MessengerTypesGiven DEF Inv
  <2>3. IF which = "pool" THEN Pool!TypeOK ELSE Scanner!TypeOK
    BY ScannerSuffices DEF Inv
  <2> QED BY <2>1, <2>2, <2>3 DEF ProgramsTypeOK
<1> QED BY <1>1, InvAlways, PTL

\* Whatever scans are started, cut short and overtake each other, every directory is in one place, no scan fails, and
\* what the window shows is whole and never gives way to an older result (ScanSound).
THEOREM ScansAreSeenWhole == ASSUME ProgramsConstants PROVE ProgramsSpec => ScanSound
<1> DEFINE ShownWhole == IF which = "pool" THEN Pool!ScanWhole ELSE Scanner!ScanWhole
<1>1. Inv => ShownWhole
  BY ScannerSuffices DEF Inv
<1>2. Inv /\ [ProgramsNext]_programs /\ ShownWhole'
      => [(IF which = "pool" THEN Pool!ScanWhole' ELSE Scanner!ScanWhole') /\ Scanner!NewestWins]_<<which, scanner>>
  BY OwnSteps, AllStep
<1> HIDE DEF ShownWhole
<1> QED BY <1>1, <1>2, InvAlways, PTL DEF ProgramsSpec, ScanSound

\* The scope the page shows, the index, the evidence of an answer, what the personal store remembers and recalls, and the
\* replies of the assistant (AnswersSound), for any constants that are as ProgramsConstants says.
THEOREM AnswersAreSound == ASSUME ProgramsConstants PROVE ProgramsSpec => []AnswersSound
<1>1. ASSUME Inv PROVE AnswersSound
  <2>1. Page!SelectionListed /\ Page!ScopeShown /\ Server!IndexSound /\ Assistant!RepliesReach
    BY <1>1, PageSuffices, IndexSuffices, MessengerSuffices DEF Inv
  <2>2. Server!EvidenceSound
    BY <1>1, EvidenceSuffices DEF Inv, ProgramsConstants
  <2>3. Personal!RemembersOnce /\ Personal!RecallsBest
    BY <1>1, StoreSuffices, RecallSuffices DEF Inv, StoreInv, ProgramsConstants
  <2> QED BY <2>1, <2>2, <2>3 DEF AnswersSound
<1> QED BY <1>1, InvAlways, PTL

\* Of the programs beside each other: no turn of the match is taken twice, the window's panes agree with what was asked last,
\* and the single-file orchestrator keeps its accounts and its entrypoint.
THEOREM ProgramsAreSound == ASSUME ProgramsConstants PROVE ProgramsSpec => [](TurnsHold /\ PanelsAgree) /\ FactorySound
<1>1. Inv => TurnsHold /\ PanelsAgree /\ AttemptsAccounted
  BY ChessSuffices, BenchSuffices, AccountsSuffice DEF Inv, FactoryInv
<1>2. Inv /\ [ProgramsNext]_programs => [EntrypointKept]_vars
  BY OwnSteps, EntrypointStep DEF Inv, ProgramsConstants
<1>3. Inv /\ [ProgramsNext]_programs /\ AttemptsAccounted' => [AttemptsAccounted' /\ EntrypointKept]_vars
  BY <1>2
<1> QED BY <1>1, <1>3, InvAlways, PTL DEF ProgramsSpec, FactorySound
=============================================================================
