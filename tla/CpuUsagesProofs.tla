---------------------------- MODULE CpuUsagesProofs ----------------------------
(***************************************************************************)
(* What getCpuUsages returns, proved for any number of processes,          *)
(* processors and starts, and for a sleep of any length.                   *)
(***************************************************************************)
EXTENDS CpuUsages, TLAPS, FiniteSetTheorems

-----------------------------------------------------------------------------
(* The division.                                                           *)

\* A quotient of numbers that are not negative is rounded down.
LEMMA QuotientRoundsDown ==
    ASSUME NEW a \in Nat, NEW b \in Nat \ {0}
    PROVE  Quotient(a, b) \in Nat /\ b * Quotient(a, b) <= a
<1>1. Quotient(a, b) = a \div b
  BY DEF Quotient
<1>2. a \div b \in Nat /\ b * (a \div b) <= a
  OBVIOUS
<1>3. QED
  BY <1>1, <1>2

\* What a process may have used of all processors while it was watched is at
\* most a hundred percent of each, over the time of the call.
LEMMA UsageIsBounded ==
    ASSUME NEW use \in Nat, NEW total \in Nat \ {0}, NEW elapsed \in Nat,
           use <= Cpus * (10000 * elapsed)
    PROVE  0 <= Usage(use, total) /\ Usage(use, total) * total <= 100 * elapsed
<1> DEFINE x == Quotient(use, total)
           y == Quotient(x, 100)
           z == Quotient(y, Cpus)
<1>c. Cpus \in Nat \ {0}
  BY UsagesAssumption DEF UsagesAssumption
<1>1. x \in Nat /\ total * x <= use
  BY QuotientRoundsDown
<1> HIDE DEF x
<1>2. y \in Nat /\ 100 * y <= x
  BY <1>1, QuotientRoundsDown
<1> HIDE DEF y
<1>3. z \in Nat /\ Cpus * z <= y
  BY <1>c, <1>2, QuotientRoundsDown
<1>4. Usage(use, total) = z
  BY DEF Usage, x, y, z
<1> HIDE DEF z
<1>5. 100 * (Cpus * z) <= x
  BY <1>c, <1>1, <1>2, <1>3
<1>6. total * (100 * (Cpus * z)) <= total * x
  BY <1>c, <1>1, <1>3, <1>5
<1>7. total * (100 * (Cpus * z)) = Cpus * (100 * (z * total))
  BY <1>c, <1>3
<1>8. Cpus * (100 * (z * total)) <= Cpus * (10000 * elapsed)
  BY <1>c, <1>1, <1>3, <1>6, <1>7
<1>9. z * total <= 100 * elapsed
  <2> DEFINE a == z * total
             b == 100 * elapsed
  <2>1. a \in Nat /\ b \in Nat
    BY <1>3
  <2>2. Cpus * (100 * a) <= Cpus * (100 * b)
    BY <1>c, <1>8, <2>1
  <2> HIDE DEF a, b
  <2>3. Cpus * a <= Cpus * b
    BY <1>c, <2>1, <2>2
  <2>4. a <= b
    <3> SUFFICES ASSUME a >= b + 1 PROVE FALSE
      BY <2>1
    <3>1. Cpus * a >= Cpus * (b + 1)
      BY <1>c, <2>1
    <3>2. Cpus * (b + 1) = Cpus * b + Cpus
      BY <1>c, <2>1
    <3>3. Cpus * a \in Nat /\ Cpus * b \in Nat /\ Cpus * (b + 1) \in Nat
      BY <1>c, <2>1
    <3>4. QED
      BY <1>c, <2>3, <3>1, <3>2, <3>3
  <2>5. QED
    BY <2>4 DEF a, b
<1>10. QED
  BY <1>3, <1>4, <1>9

-----------------------------------------------------------------------------
(* The samples.                                                            *)

Sample == [units : Nat, process : Nat, at : Nat]

StateInv ==
    /\ now \in Nat /\ starts \in Nat \ {0}
    /\ process \in [Pids -> Nat] /\ \A pid \in Pids : process[pid] <= starts
    /\ cpuTime \in [Pids -> Nat]
    /\ pc \in Steps
    /\ todo \subseteq Pids
    /\ handle \in Pids \union {None}
    /\ begin \in Nat /\ begin <= now
    /\ end \in Int
    /\ pc \in {"first", "openFirst", "sleep"} => second = NoTimes
    /\ pc = "divide" /\ ~adjusted => begin <= end

\* A sample of a process that has not ended is of a time that it had, and since
\* then it has not used more than all processors.
FirstInv ==
    /\ DOMAIN first \subseteq Pids
    /\ \A pid \in DOMAIN first :
          /\ first[pid] \in Sample
          /\ first[pid].process <= starts /\ first[pid].at <= now
          /\ first[pid].process # 0 /\ process[pid] = first[pid].process =>
                /\ first[pid].units <= 10000 * cpuTime[pid]
                /\ 10000 * cpuTime[pid] <= first[pid].units + Cpus * (10000 * (now - first[pid].at))

\* So it is between two samples of one process.
SecondInv ==
    /\ DOMAIN second \subseteq Pids
    /\ \A pid \in DOMAIN second : second[pid] \in Sample
    /\ \A pid \in Both :
          first[pid].process # 0 /\ first[pid].process = second[pid].process =>
             /\ first[pid].at <= second[pid].at
             /\ first[pid].units <= second[pid].units
             /\ second[pid].units <=
                   first[pid].units + Cpus * (10000 * (second[pid].at - first[pid].at))

UsageInv ==
    /\ pc # "returned" => usages = NoTimes
    /\ UsageWithinSamples

SampleInv == StateInv /\ FirstInv /\ SecondInv /\ UsageInv

\* Time goes by for all samples alike.
LEMMA MachineKeepsSamples == SampleInv /\ Machine => SampleInv'
<1> SUFFICES ASSUME SampleInv, Machine PROVE SampleInv'
  OBVIOUS
<1>c. Cpus \in Nat \ {0}
  BY UsagesAssumption DEF UsagesAssumption
<1>m. pc \notin {"divide", "returned", "thrown"}
  BY DEF Machine
<1>s. ASSUME UNCHANGED callVars, now' \in Nat, now <= now', starts' \in Nat \ {0}, starts <= starts',
             process' \in [Pids -> Nat], \A pid \in Pids : process'[pid] <= starts',
             cpuTime' \in [Pids -> Nat], FirstInv'
      PROVE  SampleInv'
  <2>1. UNCHANGED <<pc, todo, handle, first, second, begin, end, usages, adjusted>>
    BY <1>s DEF callVars
  <2>2. begin <= now'
    BY <1>s DEF SampleInv, StateInv
  <2>3. StateInv'
    BY <1>s, <2>1, <2>2 DEF SampleInv, StateInv
  <2>4. SecondInv'
    BY <2>1 DEF SampleInv, SecondInv, Both
  <2>5. UsageInv'
    BY <2>1 DEF SampleInv, UsageInv, UsageWithinSamples
  <2>6. QED
    BY <1>s, <2>3, <2>4, <2>5 DEF SampleInv
<1>1. CASE Tick
  <2>1. PICK share \in [Pids -> 0 .. Cpus] : cpuTime' = [pid \in Pids |-> cpuTime[pid] + share[pid]]
    BY <1>1 DEF Tick
  <2>2. now' = now + 1 /\ UNCHANGED <<starts, process, callVars>>
    BY <1>1 DEF Tick
  <2>3. cpuTime' \in [Pids -> Nat]
    BY <1>c, <2>1 DEF SampleInv, StateInv
  <2>4. ASSUME NEW pid \in DOMAIN first, first[pid].process # 0, process[pid] = first[pid].process
        PROVE  /\ first[pid].units <= 10000 * cpuTime'[pid]
               /\ 10000 * cpuTime'[pid] <= first[pid].units + Cpus * (10000 * (now' - first[pid].at))
    <3> DEFINE u == first[pid].units
               t == cpuTime[pid]
               n == now - first[pid].at
    <3>1. u \in Nat /\ t \in Nat /\ n \in Nat /\ u <= 10000 * t /\ 10000 * t <= u + Cpus * (10000 * n)
      BY <2>4 DEF SampleInv, StateInv, FirstInv, Sample
    <3>2. cpuTime'[pid] = t + share[pid] /\ share[pid] \in Nat /\ share[pid] <= Cpus
      BY <1>c, <2>1, <2>4 DEF SampleInv, FirstInv
    <3>3. now' - first[pid].at = n + 1
      BY <2>2, <2>4 DEF SampleInv, StateInv, FirstInv, Sample
    <3> HIDE DEF u, t, n
    <3>4. Cpus * (10000 * (n + 1)) = Cpus * (10000 * n) + 10000 * Cpus
      BY <1>c, <3>1
    <3>5. Cpus * (10000 * n) \in Nat
      BY <1>c, <3>1
    <3>6. u <= 10000 * (t + share[pid]) /\ 10000 * (t + share[pid]) <= u + Cpus * (10000 * (n + 1))
      BY <1>c, <3>1, <3>2, <3>4, <3>5
    <3>7. QED
      BY <3>2, <3>3, <3>6 DEF u
  <2>5. \A pid \in DOMAIN first : first[pid].at <= now'
    BY <2>2 DEF SampleInv, StateInv, FirstInv, Sample
  <2>6. first' = first
    BY <2>2 DEF callVars
  <2>7. FirstInv'
    <3>1. UNCHANGED <<starts, process, first>> /\ now' = now + 1
      BY <2>2, <2>6
    <3>2. /\ DOMAIN first \subseteq Pids
          /\ \A pid \in DOMAIN first : first[pid] \in Sample /\ first[pid].process <= starts
      BY DEF SampleInv, FirstInv
    <3>3. now' = now + 1 /\ first' = first /\ starts' = starts
      BY <3>1
    <3>4. \A pid \in DOMAIN first' : first'[pid] \in Sample /\ first'[pid].process <= starts'
                                      /\ first'[pid].at <= now'
      BY <2>5, <3>2, <3>3
    <3>5. ASSUME NEW pid \in DOMAIN first', first'[pid].process # 0, process'[pid] = first'[pid].process
          PROVE  /\ first'[pid].units <= 10000 * cpuTime'[pid]
                 /\ 10000 * cpuTime'[pid] <= first'[pid].units + Cpus * (10000 * (now' - first'[pid].at))
      BY <2>4, <3>1, <3>5
    <3>6. DOMAIN first' \subseteq Pids
      BY <3>2, <3>3
    <3>7. QED
      BY <3>4, <3>5, <3>6 DEF FirstInv, Sample
  <2>8. now' \in Nat /\ now <= now'
    BY <2>2 DEF SampleInv, StateInv
  <2>9. starts' \in Nat \ {0} /\ starts <= starts'
    BY <2>2 DEF SampleInv, StateInv
  <2>10. process' \in [Pids -> Nat] /\ \A pid \in Pids : process'[pid] <= starts'
    BY <2>2 DEF SampleInv, StateInv
  <2>11. QED
    BY <1>s, <2>2, <2>3, <2>7, <2>8, <2>9, <2>10
<1>2. CASE Start
  <2>1. PICK new \in Pids \ Alive : /\ process' = [process EXCEPT ![new] = starts']
                                    /\ cpuTime' = [cpuTime EXCEPT ![new] = 0]
    BY <1>2 DEF Start
  <2>2. starts' = starts + 1 /\ now' = now /\ UNCHANGED callVars /\ first' = first
    BY <1>2 DEF Start, callVars
  <2>3. process' \in [Pids -> Nat] /\ \A pid \in Pids : process'[pid] <= starts'
    BY <2>1, <2>2 DEF SampleInv, StateInv
  <2>4. cpuTime' \in [Pids -> Nat]
    BY <2>1 DEF SampleInv, StateInv
  <2>5. ASSUME NEW pid \in DOMAIN first
        PROVE  /\ first[pid].process <= starts'
               /\ process'[pid] = first[pid].process =>
                     process[pid] = first[pid].process /\ cpuTime'[pid] = cpuTime[pid]
    <3>1. first[pid].process \in Nat /\ first[pid].process <= starts /\ starts \in Nat /\ pid \in Pids
      BY DEF SampleInv, StateInv, FirstInv, Sample
    <3>2. pid = new => process'[pid] # first[pid].process
      BY <2>1, <2>2, <3>1 DEF SampleInv, StateInv
    <3>3. pid # new => process'[pid] = process[pid] /\ cpuTime'[pid] = cpuTime[pid]
      BY <2>1, <3>1 DEF SampleInv, StateInv
    <3>4. QED
      BY <2>2, <3>1, <3>2, <3>3
  <2>6. FirstInv'
    BY <2>2, <2>5 DEF SampleInv, FirstInv
  <2>7. starts' \in Nat \ {0} /\ starts <= starts' /\ now' \in Nat /\ now <= now'
    BY <2>2 DEF SampleInv, StateInv
  <2>8. QED
    BY <1>s, <2>2, <2>3, <2>4, <2>6, <2>7
<1>3. CASE End
  <2>1. PICK old \in Alive \ Protected : process' = [process EXCEPT ![old] = 0]
    BY <1>3 DEF End
  <2>2. UNCHANGED <<now, starts, cpuTime, callVars>> /\ first' = first
    BY <1>3 DEF End, callVars
  <2>3. process' \in [Pids -> Nat] /\ \A pid \in Pids : process'[pid] <= starts'
    <3>1. process \in [Pids -> Nat] /\ starts \in Nat /\ \A pid \in Pids : process[pid] <= starts
      BY DEF SampleInv, StateInv
    <3>2. process' \in [Pids -> Nat]
      BY <2>1, <3>1
    <3>3. \A pid \in Pids : process'[pid] = 0 \/ process'[pid] = process[pid]
      BY <2>1, <3>1
    <3>4. QED
      BY <2>2, <3>1, <3>2, <3>3
  <2>4. \A pid \in DOMAIN first : process'[pid] = 0 \/ process'[pid] = process[pid]
    <3>1. DOMAIN first \subseteq Pids
      BY DEF SampleInv, FirstInv
    <3>2. process \in [Pids -> Nat]
      BY DEF SampleInv, StateInv
    <3>3. QED
      BY <2>1, <3>1, <3>2
  <2>5. FirstInv'
    BY <2>2, <2>4 DEF SampleInv, FirstInv
  <2>6. starts' \in Nat \ {0} /\ starts <= starts' /\ now' \in Nat /\ now <= now' /\ cpuTime' \in [Pids -> Nat]
    BY <2>2 DEF SampleInv, StateInv
  <2>7. QED
    BY <1>s, <2>2, <2>3, <2>5, <2>6
<1>4. QED
  BY <1>1, <1>2, <1>3 DEF Machine

\* A reading of pid enters one of the maps: of no process, or of the one that
\* runs, with its time.
LEMMA Reading ==
    ASSUME SampleInv, NEW step \in {"openFirst", "openSecond"}, pc = step, NEW pid \in Pids,
           NEW source \in Nat, NEW units \in Nat, Put(step, pid, source, units),
           source = 0 \/ (source = process[pid] /\ units = 10000 * cpuTime[pid]),
           UNCHANGED <<now, starts, process, cpuTime, pc>>
    PROVE  FirstInv' /\ SecondInv'
<1> DEFINE sample == [units |-> units, process |-> source, at |-> now]
           With(times) == [p \in DOMAIN times \union {pid} |-> IF p = pid THEN sample ELSE times[p]]
<1>c. Cpus \in Nat \ {0}
  BY UsagesAssumption DEF UsagesAssumption
<1>1. /\ now \in Nat /\ starts \in Nat /\ process[pid] \in Nat /\ process[pid] <= starts
      /\ cpuTime[pid] \in Nat
  BY DEF SampleInv, StateInv
<1>2. sample \in Sample /\ sample.at = now /\ sample.process = source /\ sample.units = units
      /\ source <= starts
  BY <1>1 DEF Sample
<1>3. CASE step = "openFirst"
  <2>1. first' = With(first) /\ second' = second
    BY <1>3 DEF Put
  <2>2. second = NoTimes
    BY <1>3 DEF SampleInv, StateInv
  <2>3. DOMAIN second' = {}
    BY <2>1, <2>2 DEF NoTimes
  <2>4. SecondInv'
    BY <2>3 DEF SecondInv, Both
  <2>5. DOMAIN first' \subseteq Pids
    BY <2>1 DEF SampleInv, FirstInv
  <2> HIDE DEF sample
  <2>6. ASSUME NEW p \in DOMAIN first'
        PROVE  /\ first'[p] \in Sample
               /\ first'[p].process <= starts' /\ first'[p].at <= now'
               /\ first'[p].process # 0 /\ process'[p] = first'[p].process =>
                     /\ first'[p].units <= 10000 * cpuTime'[p]
                     /\ 10000 * cpuTime'[p] <= first'[p].units + Cpus * (10000 * (now' - first'[p].at))
    <3>1. CASE p = pid
      <4>1. first'[p] = sample
        BY <2>1, <3>1
      <4>2. now - now = 0 /\ Cpus * (10000 * 0) = 0
        BY <1>1, <1>c
      <4>3. first'[p] \in Sample /\ first'[p].process <= starts' /\ first'[p].at <= now'
        BY <1>1, <1>2, <4>1
      <4>4. ASSUME first'[p].process # 0
            PROVE  first'[p].units = 10000 * cpuTime'[p] /\ now' - first'[p].at = 0
        BY <1>1, <1>2, <3>1, <4>1, <4>2, <4>4
      <4>5. 10000 * cpuTime'[p] \in Nat
        BY <1>1, <3>1
      <4>6. QED
        BY <4>2, <4>3, <4>4, <4>5
    <3>2. CASE p # pid
      <4>1. p \in DOMAIN first /\ first'[p] = first[p]
        BY <2>1, <3>2
      <4>2. QED
        BY <4>1 DEF SampleInv, FirstInv
    <3>3. QED
      BY <3>1, <3>2
  <2>7. FirstInv'
    BY <2>5, <2>6 DEF FirstInv, Sample
  <2>8. QED
    BY <2>4, <2>7
<1>4. CASE step = "openSecond"
  <2>1. second' = With(second) /\ first' = first
    BY <1>4 DEF Put
  <2>2. FirstInv'
    BY <2>1 DEF SampleInv, FirstInv, Sample
  <2>3. DOMAIN second' \subseteq Pids
    BY <2>1 DEF SampleInv, SecondInv
  <2> HIDE DEF sample
  <2>4. ASSUME NEW p \in DOMAIN second'
        PROVE  /\ second'[p] \in Sample
               /\ p \in DOMAIN first' /\ first'[p].process # 0 /\ first'[p].process = second'[p].process =>
                     /\ first'[p].at <= second'[p].at
                     /\ first'[p].units <= second'[p].units
                     /\ second'[p].units <=
                           first'[p].units + Cpus * (10000 * (second'[p].at - first'[p].at))
    <3>1. CASE p = pid
      <4>1. second'[p] = sample
        BY <2>1, <3>1
      <4>2. ASSUME p \in DOMAIN first, first[p].process # 0, first[p].process = source
            PROVE  /\ first[p].at <= now /\ first[p].units <= units
                   /\ units <= first[p].units + Cpus * (10000 * (now - first[p].at))
        <5>1. /\ first[p].at <= now
              /\ process[p] = first[p].process =>
                    /\ first[p].units <= 10000 * cpuTime[p]
                    /\ 10000 * cpuTime[p] <= first[p].units + Cpus * (10000 * (now - first[p].at))
          BY <4>2 DEF SampleInv, FirstInv
        <5>2. source = process[p] /\ units = 10000 * cpuTime[p]
          BY <3>1, <4>2
        <5>3. QED
          BY <4>2, <5>1, <5>2
      <4>3. QED
        BY <1>2, <2>1, <4>1, <4>2
    <3>2. CASE p # pid
      <4>1. p \in DOMAIN second /\ second'[p] = second[p]
        BY <2>1, <3>2
      <4>2. QED
        BY <2>1, <4>1 DEF SampleInv, SecondInv, Both
    <3>3. QED
      BY <3>1, <3>2
  <2>5. SecondInv'
    BY <2>3, <2>4 DEF SecondInv, Both, Sample
  <2>6. QED
    BY <2>2, <2>5
<1>5. QED
  BY <1>3, <1>4

\* No step of getCpuUsages breaks SampleInv.
LEMMA CallKeepsSamples == SampleInv /\ Call => SampleInv'
<1> SUFFICES ASSUME SampleInv, Call PROVE SampleInv'
  OBVIOUS
<1>t. /\ now \in Nat /\ begin \in Nat /\ begin <= now /\ end \in Int
      /\ pc \in Steps /\ todo \subseteq Pids /\ handle \in Pids \union {None}
  BY DEF SampleInv, StateInv
<1>m. ASSUME UNCHANGED machineVars PROVE UNCHANGED <<now, starts, process, cpuTime>>
  BY <1>m DEF machineVars
\* Steps that take no sample.
<1>s. ASSUME UNCHANGED <<machineVars, first, second, usages>>, usages = NoTimes,
             pc' \in Steps, todo' \subseteq Pids, handle' \in Pids \union {None},
             begin' \in Nat, begin' <= now, end' \in Int,
             pc' \in {"first", "openFirst", "sleep"} => second = NoTimes,
             pc' = "divide" /\ ~adjusted' => begin' <= end'
      PROVE  SampleInv'
  <2>1. UNCHANGED <<now, starts, process, cpuTime, first, second, usages>>
    BY <1>s, <1>m
  <2>2. StateInv'
    BY <1>s, <2>1 DEF SampleInv, StateInv
  <2>3. FirstInv'
    BY <2>1 DEF SampleInv, FirstInv, Sample
  <2>4. SecondInv'
    BY <2>1 DEF SampleInv, SecondInv, Both, Sample
  <2>5. DOMAIN usages' = {}
    BY <1>s DEF NoTimes
  <2>6. UsageInv'
    BY <1>s, <2>5 DEF UsageInv, UsageWithinSamples
  <2>7. QED
    BY <2>2, <2>3, <2>4, <2>6 DEF SampleInv
<1>n. pc # "returned" => usages = NoTimes
  BY DEF SampleInv, UsageInv
<1>p. pc \in {"first", "openFirst", "sleep"} => second = NoTimes
  BY DEF SampleInv, StateInv
<1>a. Alive \subseteq Pids
  BY DEF Alive
<1>1. CASE Enumerate("first", "openFirst")
  <2>1. /\ pc = "first" /\ pc' = "openFirst" /\ todo' \subseteq Pids
        /\ UNCHANGED <<machineVars, handle, first, second, begin, end, usages, adjusted>>
    BY <1>1, <1>a DEF Enumerate
  <2>2. QED
    BY <1>s, <1>t, <1>n, <1>p, <2>1 DEF Steps
<1>2. CASE Enumerate("sleep", "openSecond")
  <2>1. /\ pc = "sleep" /\ pc' = "openSecond" /\ todo' \subseteq Pids
        /\ UNCHANGED <<machineVars, handle, first, second, begin, end, usages, adjusted>>
    BY <1>2, <1>a DEF Enumerate
  <2>2. QED
    BY <1>s, <1>t, <1>n, <1>p, <2>1 DEF Steps
<1>3. CASE EnumerateFails("first") \/ EnumerateFails("sleep") \/ DivideByZero
  <2>1. /\ pc \in {"first", "sleep", "divide"} /\ pc' = "thrown"
        /\ UNCHANGED <<machineVars, todo, handle, first, second, begin, end, usages, adjusted>>
    BY <1>3 DEF EnumerateFails, DivideByZero
  <2>2. QED
    BY <1>s, <1>t, <1>n, <2>1 DEF Steps
\* Steps that take one.
<1>r. ASSUME NEW step \in {"openFirst", "openSecond"}, pc = step, NEW pid \in Pids,
             NEW source \in Nat, NEW units \in Nat, Put(step, pid, source, units),
             source = 0 \/ (source = process[pid] /\ units = 10000 * cpuTime[pid]),
             UNCHANGED <<machineVars, pc, begin, end, usages, adjusted>>,
             todo' \subseteq Pids, handle' \in Pids \union {None}
      PROVE  SampleInv'
  <2>1. UNCHANGED <<now, starts, process, cpuTime, pc>>
    BY <1>r, <1>m
  <2>2. FirstInv' /\ SecondInv'
    BY <1>r, <2>1, Reading
  <2>3. step = "openFirst" => second' = second
    BY <1>r DEF Put
  <2>4. StateInv'
    BY <1>r, <2>1, <2>3 DEF SampleInv, StateInv
  <2>5. usages' = NoTimes /\ DOMAIN usages' = {}
    BY <1>r, <1>n DEF NoTimes
  <2>6. UsageInv'
    BY <2>5 DEF UsageInv, UsageWithinSamples
  <2>7. QED
    BY <2>2, <2>4, <2>6 DEF SampleInv
<1>4. ASSUME NEW step \in {"openFirst", "openSecond"}, OpenProcess(step)
      PROVE  SampleInv'
  <2>1. PICK pid \in todo :
            /\ todo' = todo \ {pid}
            /\ \/ pid \in Protected /\ Put(step, pid, 0, 0) /\ UNCHANGED handle
               \/ handle' \in {pid, None} /\ UNCHANGED <<first, second>>
    BY <1>4 DEF OpenProcess
  <2>2. /\ pc = step
        /\ UNCHANGED <<machineVars, pc, begin, end, usages, adjusted>>
    BY <1>4 DEF OpenProcess
  <2>3. todo' \subseteq Pids /\ handle' \in Pids \union {None} /\ pid \in Pids
    BY <1>t, <2>1
  <2>4. CASE Put(step, pid, 0, 0)
    BY <1>r, <2>2, <2>3, <2>4
  <2>5. CASE UNCHANGED <<first, second>>
    BY <1>s, <1>t, <1>n, <1>p, <2>2, <2>3, <2>5
  <2>6. QED
    BY <2>1, <2>4, <2>5
<1>5. ASSUME NEW step \in {"openFirst", "openSecond"}, Refresh(step)
      PROVE  SampleInv'
  <2>1. /\ pc = step /\ handle # None /\ handle' = None /\ todo' = todo
        /\ Put(step, handle, process[handle], cpuTime[handle] * UnitsPerMs)
        /\ UNCHANGED <<machineVars, pc, begin, end, usages, adjusted>>
    BY <1>5 DEF Refresh
  <2>2. handle \in Pids
    BY <1>t, <2>1
  <2>3. process[handle] \in Nat /\ cpuTime[handle] \in Nat
    BY <2>2 DEF SampleInv, StateInv
  <2>4. cpuTime[handle] * UnitsPerMs = 10000 * cpuTime[handle] /\ cpuTime[handle] * UnitsPerMs \in Nat
    BY <2>3 DEF UnitsPerMs
  <2>5. todo' \subseteq Pids /\ handle' \in Pids \union {None}
    BY <1>t, <2>1
  <2>6. QED
    BY <1>r, <2>1, <2>2, <2>3, <2>4, <2>5
<1>6. ASSUME NEW step \in {"openFirst", "openSecond"}, RefreshFails(step)
      PROVE  SampleInv'
  <2>1. /\ pc = step /\ handle # None /\ handle' = None /\ todo' = todo
        /\ Put(step, handle, 0, 0)
        /\ UNCHANGED <<machineVars, pc, begin, end, usages, adjusted>>
    BY <1>6 DEF RefreshFails
  <2>2. handle \in Pids /\ todo' \subseteq Pids /\ handle' \in Pids \union {None}
    BY <1>t, <2>1
  <2>3. QED
    BY <1>r, <2>1, <2>2
<1>7. CASE Begin
  <2>1. /\ pc = "openFirst" /\ pc' = "sleep" /\ begin' = now
        /\ UNCHANGED <<machineVars, todo, handle, first, second, end, usages, adjusted>>
    BY <1>7 DEF Begin
  <2>2. begin' \in Nat /\ begin' <= now
    BY <1>t, <2>1
  <2>3. QED
    BY <1>s, <1>t, <1>n, <1>p, <2>1, <2>2 DEF Steps
<1>8. CASE ReadEnd
  <2>1. PICK offset \in Offsets : end' = now + offset /\ adjusted' = (offset # 0)
    BY <1>8 DEF ReadEnd
  <2>2. /\ pc = "openSecond" /\ pc' = "divide"
        /\ UNCHANGED <<machineVars, todo, handle, first, second, begin, usages>>
    BY <1>8 DEF ReadEnd
  <2>3. end' \in Int /\ (offset = 0 => begin <= end')
    BY <1>t, <2>1, UsagesAssumption DEF UsagesAssumption
  <2>4. ~adjusted' => offset = 0
    BY <2>1
  <2>5. begin' \in Nat /\ begin' <= now /\ (~adjusted' => begin' <= end')
    BY <1>t, <2>2, <2>3, <2>4
  <2>6. QED
    BY <1>s, <1>t, <1>n, <2>2, <2>3, <2>5 DEF Steps
<1>9. CASE Divide
  <2> DEFINE total == end - begin
  <2>1. /\ pc = "divide" /\ pc' = "returned"
        /\ total # 0 \/ Both = {}
        /\ usages' = [pid \in Both |-> Usage(second[pid].units - first[pid].units, total)]
        /\ UNCHANGED <<machineVars, todo, handle, first, second, begin, end, adjusted>>
    BY <1>9 DEF Divide
  <2>2. UNCHANGED <<now, starts, process, cpuTime, first, second>>
    BY <2>1, <1>m
  <2>3. StateInv'
    BY <1>t, <2>1, <2>2 DEF SampleInv, StateInv, Steps
  <2>4. FirstInv'
    BY <2>2 DEF SampleInv, FirstInv, Sample
  <2>5. SecondInv'
    BY <2>2 DEF SampleInv, SecondInv, Both, Sample
  <2>6. ASSUME ~adjusted, NEW pid \in Both, first[pid].process # 0,
               first[pid].process = second[pid].process
        PROVE  0 <= usages'[pid] /\ usages'[pid] * (end - begin) <= 100 * (second[pid].at - first[pid].at)
    <3>1. total \in Nat \ {0}
      <4>1. begin <= end
        BY <2>1, <2>6 DEF SampleInv, StateInv
      <4>2. QED
        BY <1>t, <2>1, <2>6, <4>1
    <3>2. first[pid] \in Sample /\ second[pid] \in Sample
      BY DEF SampleInv, FirstInv, SecondInv, Both
    <3> DEFINE a == first[pid].units
               b == second[pid].units
               elapsed == second[pid].at - first[pid].at
    <3>3. a \in Nat /\ b \in Nat /\ a <= b /\ elapsed \in Nat /\ b <= a + Cpus * (10000 * elapsed)
      BY <2>6, <3>2 DEF SampleInv, SecondInv, Sample
    <3>4. usages'[pid] = Usage(b - a, total)
      BY <2>1
    <3> HIDE DEF a, b, elapsed
    <3>5. Cpus * (10000 * elapsed) \in Nat
      BY <3>3, UsagesAssumption DEF UsagesAssumption
    <3>6. b - a \in Nat /\ b - a <= Cpus * (10000 * elapsed)
      BY <3>3, <3>5
    <3> HIDE DEF total
    <3>7. 0 <= Usage(b - a, total) /\ Usage(b - a, total) * total <= 100 * elapsed
      BY <3>1, <3>3, <3>6, UsageIsBounded
    <3>8. QED
      BY <3>4, <3>7 DEF total, elapsed
  <2>7. DOMAIN usages' = Both
    BY <2>1
  <2>8. UsageWithinSamples'
    BY <2>1, <2>2, <2>6, <2>7 DEF UsageWithinSamples
  <2>9. UsageInv'
    BY <2>1, <2>8 DEF UsageInv
  <2>10. QED
    BY <2>3, <2>4, <2>5, <2>9 DEF SampleInv
<1>10. QED
  BY <1>1, <1>2, <1>3, <1>4, <1>5, <1>6, <1>7, <1>8, <1>9 DEF Call

\* The usage that getCpuUsages returns for one process, on a clock that nobody
\* sets, is not negative, and no more than its two samples allow.
THEOREM UsageOfItsSamples == Spec => []UsageWithinSamples
<1>1. Init => SampleInv
  <2> SUFFICES ASSUME Init PROVE SampleInv
    OBVIOUS
  <2>1. DOMAIN NoTimes = {}
    BY DEF NoTimes
  <2>2. PICK running \in SUBSET Pids : process = [pid \in Pids |-> IF pid \in running THEN 1 ELSE 0]
    BY DEF Init
  <2>3. process \in [Pids -> Nat] /\ \A pid \in Pids : process[pid] <= 1
    BY <2>2
  <2>4. StateInv
    BY <2>3 DEF Init, StateInv, Steps
  <2>5. FirstInv
    BY <2>1 DEF Init, FirstInv
  <2>6. SecondInv
    BY <2>1 DEF Init, SecondInv, Both
  <2>7. UsageInv
    BY <2>1 DEF Init, UsageInv, UsageWithinSamples
  <2>8. QED
    BY <2>4, <2>5, <2>6, <2>7 DEF SampleInv
<1>2. SampleInv /\ [Next]_vars => SampleInv'
  <2>1. ASSUME SampleInv, UNCHANGED vars PROVE SampleInv'
    <3>1. UNCHANGED <<now, starts, process, cpuTime, pc, todo, handle, first, second, begin, end, usages, adjusted>>
      BY <2>1 DEF vars, machineVars, callVars
    <3>2. StateInv'
      BY <2>1, <3>1 DEF SampleInv, StateInv
    <3>3. FirstInv'
      BY <2>1, <3>1 DEF SampleInv, FirstInv, Sample
    <3>4. SecondInv'
      BY <2>1, <3>1 DEF SampleInv, SecondInv, Both, Sample
    <3>5. UsageInv'
      BY <2>1, <3>1 DEF SampleInv, UsageInv, UsageWithinSamples
    <3>6. QED
      BY <3>2, <3>3, <3>4, <3>5 DEF SampleInv
  <2>2. QED
    BY <2>1, MachineKeepsSamples, CallKeepsSamples DEF Next
<1>3. SampleInv => UsageWithinSamples
  BY DEF SampleInv, UsageInv
<1>4. QED
  BY <1>1, <1>2, <1>3, PTL DEF Spec

-----------------------------------------------------------------------------
(* Who is counted.                                                         *)

AlwaysThere == {pid \in Pids : process[pid] = 1} \ denied

ToCome == todo \union ({handle} \intersect Pids)

\* A process that runs through the call and that OpenProcess admits to is still
\* to come in a snapshot that is being taken, or in the map of it.
CountInv ==
    ~overfull =>
       /\ pc = "openFirst" => AlwaysThere \subseteq ToCome \union DOMAIN first
       /\ pc \in {"sleep", "openSecond", "divide", "returned"} => AlwaysThere \subseteq DOMAIN first
       /\ pc = "openSecond" => AlwaysThere \subseteq ToCome \union DOMAIN second
       /\ pc \in {"divide", "returned"} => AlwaysThere \subseteq DOMAIN second
       /\ pc = "returned" => DOMAIN usages = Both

ThereInv ==
    /\ process \in [Pids -> Nat]
    /\ starts \in Nat \ {0}
    /\ handle \in Pids \union {None}
    /\ todo \subseteq Pids
    /\ CountInv

\* The machine adds no process to those that have been there from the start.
LEMMA MachineKeepsCount == ThereInv /\ Machine => ThereInv'
<1> SUFFICES ASSUME ThereInv, Machine PROVE ThereInv'
  OBVIOUS
<1>1. /\ UNCHANGED callVars
      /\ process' \in [Pids -> Nat] /\ starts' \in Nat \ {0}
      /\ \A pid \in Pids : process'[pid] = 1 => process[pid] = 1
  <2>1. CASE Tick
    BY <2>1 DEF Tick, ThereInv
  <2>2. CASE Start
    <3>1. starts' = starts + 1 /\ UNCHANGED callVars
      BY <2>2 DEF Start
    <3>2. PICK new \in Pids : process' = [process EXCEPT ![new] = starts']
      BY <2>2 DEF Start, Alive
    <3>3. process \in [Pids -> Nat] /\ starts' \in Nat \ {0} /\ starts' # 1
      BY <3>1 DEF ThereInv
    <3>4. process' \in [Pids -> Nat] /\ \A pid \in Pids : process'[pid] = 1 => process[pid] = 1
      BY <3>2, <3>3
    <3>5. QED
      BY <3>1, <3>3, <3>4
  <2>3. CASE End
    <3>1. UNCHANGED <<starts, callVars>>
      BY <2>3 DEF End
    <3>2. PICK old \in Pids : process' = [process EXCEPT ![old] = 0]
      BY <2>3 DEF End, Alive
    <3>3. QED
      BY <3>1, <3>2 DEF ThereInv
  <2>4. QED
    BY <2>1, <2>2, <2>3 DEF Machine
<1>2. UNCHANGED <<pc, todo, handle, first, second, usages, overfull>>
  BY <1>1 DEF callVars
<1>3. AlwaysThere' \subseteq AlwaysThere
  BY <1>1 DEF AlwaysThere, callVars
<1>4. CountInv'
  BY <1>2, <1>3 DEF ThereInv, CountInv, ToCome, Both
<1>5. QED
  BY <1>1, <1>2, <1>4 DEF ThereInv

\* An enumeration that fits has every process that runs.
LEMMA EnumerateHasAll ==
    ASSUME NEW from, NEW to, Enumerate(from, to), ~overfull'
    PROVE  ~overfull /\ todo' = Alive
<1>1. IsFiniteSet(Alive) /\ Cardinality(Alive) \in Nat
  BY UsagesAssumption, FS_Subset, FS_CardinalityType DEF UsagesAssumption, Alive
<1>2. /\ todo' \in SUBSET Alive
      /\ Cardinality(todo') = IF Cardinality(Alive) <= EnumLimit THEN Cardinality(Alive) ELSE EnumLimit
      /\ overfull' = (overfull \/ Cardinality(Alive) > EnumLimit)
  BY DEF Enumerate
<1>3. ~overfull /\ ~(Cardinality(Alive) > EnumLimit)
  BY <1>2
<1>4. EnumLimit \in Nat
  BY UsagesAssumption DEF UsagesAssumption
<1>5. Cardinality(Alive) <= EnumLimit
  BY <1>1, <1>3, <1>4
<1>6. Cardinality(todo') = Cardinality(Alive)
  BY <1>2, <1>5
<1>7. QED
  BY <1>1, <1>2, <1>3, <1>6, FS_Subset

\* No step of getCpuUsages passes over a process that has been there throughout.
LEMMA CallKeepsCount == ThereInv /\ Call => ThereInv'
<1> SUFFICES ASSUME ThereInv, Call PROVE ThereInv'
  OBVIOUS
<1>t. /\ process \in [Pids -> Nat] /\ starts \in Nat \ {0}
      /\ handle \in Pids \union {None} /\ todo \subseteq Pids
  BY DEF ThereInv
<1>n. None \notin Pids
  BY UsagesAssumption DEF UsagesAssumption, None
<1>a. AlwaysThere \subseteq Alive /\ Alive \subseteq Pids
  BY DEF AlwaysThere, Alive
<1>m. UNCHANGED <<process, starts>> /\ AlwaysThere' \subseteq AlwaysThere
  <2>1. UNCHANGED machineVars
    BY DEF Call, Enumerate, EnumerateFails, OpenProcess, Refresh, RefreshFails, Begin, ReadEnd,
           Divide, DivideByZero
  <2>2. denied \subseteq denied'
    BY DEF Call, Enumerate, EnumerateFails, OpenProcess, Refresh, RefreshFails, Begin, ReadEnd,
           Divide, DivideByZero
  <2>3. QED
    BY <2>1, <2>2 DEF machineVars, AlwaysThere
<1>1. CASE Enumerate("first", "openFirst")
  <2>1. /\ pc' = "openFirst" /\ todo' \subseteq Alive
        /\ UNCHANGED <<handle, first, second, usages>>
    BY <1>1 DEF Enumerate
  <2>2. ~overfull' => AlwaysThere' \subseteq ToCome' \union DOMAIN first'
    BY <1>1, <1>a, <1>m, EnumerateHasAll DEF ToCome
  <2>3. CountInv'
    BY <2>1, <2>2 DEF CountInv
  <2>4. QED
    BY <1>t, <1>a, <1>m, <2>1, <2>3 DEF ThereInv
<1>2. CASE Enumerate("sleep", "openSecond")
  <2>1. /\ pc = "sleep" /\ pc' = "openSecond" /\ todo' \subseteq Alive
        /\ UNCHANGED <<handle, first, second, usages>>
    BY <1>2 DEF Enumerate
  <2>2. ~overfull' => /\ AlwaysThere' \subseteq ToCome' \union DOMAIN second'
                      /\ AlwaysThere' \subseteq DOMAIN first'
    <3> SUFFICES ASSUME ~overfull' PROVE /\ AlwaysThere' \subseteq ToCome' \union DOMAIN second'
                                         /\ AlwaysThere' \subseteq DOMAIN first'
      OBVIOUS
    <3>1. ~overfull /\ todo' = Alive
      BY <1>2, EnumerateHasAll
    <3>2. AlwaysThere \subseteq DOMAIN first
      BY <2>1, <3>1 DEF ThereInv, CountInv
    <3>3. QED
      BY <1>a, <1>m, <2>1, <3>1, <3>2 DEF ToCome
  <2>3. CountInv'
    BY <2>1, <2>2 DEF CountInv
  <2>4. QED
    BY <1>t, <1>a, <1>m, <2>1, <2>3 DEF ThereInv
<1>3. CASE EnumerateFails("first") \/ EnumerateFails("sleep") \/ DivideByZero
  <2>1. pc' = "thrown" /\ UNCHANGED <<todo, handle>>
    BY <1>3 DEF EnumerateFails, DivideByZero
  <2>2. CountInv'
    BY <2>1 DEF CountInv
  <2>3. QED
    BY <1>t, <1>m, <2>1, <2>2 DEF ThereInv
\* A pid leaves those to come for the map.
<1>p. ASSUME NEW step \in {"openFirst", "openSecond"}, pc = step, NEW pid \in Pids,
             NEW source, NEW units, Put(step, pid, source, units),
             ToCome \subseteq ToCome' \union {pid},
             UNCHANGED <<pc, usages, overfull>>
      PROVE  CountInv'
  <2>1. CASE step = "openFirst"
    <3>1. DOMAIN first' = DOMAIN first \union {pid}
      BY <1>p, <2>1 DEF Put
    <3>2. ~overfull' => AlwaysThere' \subseteq ToCome' \union DOMAIN first'
      BY <1>p, <1>m, <2>1, <3>1 DEF ThereInv, CountInv
    <3>3. QED
      BY <1>p, <2>1, <3>2 DEF CountInv
  <2>2. CASE step = "openSecond"
    <3>1. DOMAIN second' = DOMAIN second \union {pid} /\ first' = first
      BY <1>p, <2>2 DEF Put
    <3>2. ~overfull' => /\ AlwaysThere' \subseteq ToCome' \union DOMAIN second'
                        /\ AlwaysThere' \subseteq DOMAIN first'
      BY <1>p, <1>m, <2>2, <3>1 DEF ThereInv, CountInv
    <3>3. QED
      BY <1>p, <2>2, <3>2 DEF CountInv
  <2>3. QED
    BY <2>1, <2>2
<1>4. ASSUME NEW step \in {"openFirst", "openSecond"}, OpenProcess(step)
      PROVE  ThereInv'
  <2>1. PICK pid \in todo :
            /\ todo' = todo \ {pid}
            /\ \/ pid \in Protected /\ Put(step, pid, 0, 0) /\ UNCHANGED handle
               \/ handle' = pid /\ UNCHANGED <<first, second>>
               \/ /\ handle' = None /\ denied' = denied \union ({pid} \intersect Alive)
                  /\ UNCHANGED <<first, second>>
    BY <1>4 DEF OpenProcess
  <2>2. pc = step /\ handle = None /\ UNCHANGED <<pc, usages, overfull>>
    BY <1>4 DEF OpenProcess
  <2>3. pid \in Pids /\ todo' \subseteq Pids /\ handle' \in Pids \union {None}
    BY <1>t, <1>a, <2>1
  <2>4. CASE Put(step, pid, 0, 0) /\ UNCHANGED handle
    <3>1. ToCome \subseteq ToCome' \union {pid}
      BY <2>1, <2>4 DEF ToCome
    <3>2. CountInv'
      BY <1>p, <2>2, <2>3, <2>4, <3>1
    <3>3. QED
      BY <1>t, <1>m, <2>3, <3>2 DEF ThereInv
  <2>5. CASE /\ UNCHANGED <<first, second>>
             /\ \/ handle' = pid
                \/ handle' = None /\ denied' = denied \union ({pid} \intersect Alive)
    <3>1. AlwaysThere' \intersect ToCome \subseteq ToCome'
      <4>1. ToCome = todo
        BY <1>n, <2>2 DEF ToCome
      <4>2. CASE handle' = pid
        BY <2>1, <2>3, <4>1, <4>2 DEF ToCome
      <4>3. CASE denied' = denied \union ({pid} \intersect Alive)
        <5>1. pid \notin AlwaysThere'
          BY <1>a, <1>m, <4>3 DEF AlwaysThere
        <5>2. QED
          BY <2>1, <4>1, <5>1 DEF ToCome
      <4>4. QED
        BY <2>5, <4>2, <4>3
    <3>2. CountInv'
      BY <1>m, <2>2, <2>5, <3>1 DEF ThereInv, CountInv, Both
    <3>3. QED
      BY <1>t, <1>m, <2>3, <3>2 DEF ThereInv
  <2>6. QED
    BY <2>1, <2>4, <2>5
<1>5. ASSUME NEW step \in {"openFirst", "openSecond"}, Refresh(step) \/ RefreshFails(step)
      PROVE  ThereInv'
  <2>1. /\ pc = step /\ handle # None /\ handle' = None
        /\ UNCHANGED <<pc, todo, usages, overfull>>
    BY <1>5 DEF Refresh, RefreshFails
  <2>2. PICK source, units : Put(step, handle, source, units)
    BY <1>5 DEF Refresh, RefreshFails
  <2>3. handle \in Pids /\ ToCome \subseteq ToCome' \union {handle}
    BY <1>t, <2>1 DEF ToCome
  <2>4. CountInv'
    BY <1>p, <2>1, <2>2, <2>3
  <2>5. QED
    BY <1>t, <1>m, <2>1, <2>4 DEF ThereInv
<1>6. CASE Begin
  <2>1. /\ pc = "openFirst" /\ pc' = "sleep" /\ todo = {} /\ handle = None
        /\ UNCHANGED <<todo, handle, first, second, usages, overfull>>
    BY <1>6 DEF Begin
  <2>2. ToCome = {}
    BY <1>n, <2>1 DEF ToCome
  <2>3. CountInv'
    BY <1>m, <2>1, <2>2 DEF ThereInv, CountInv
  <2>4. QED
    BY <1>t, <1>m, <2>1, <2>3 DEF ThereInv
<1>7. CASE ReadEnd
  <2>1. /\ pc = "openSecond" /\ pc' = "divide" /\ todo = {} /\ handle = None
        /\ UNCHANGED <<todo, handle, first, second, usages, overfull>>
    BY <1>7 DEF ReadEnd
  <2>2. ToCome = {}
    BY <1>n, <2>1 DEF ToCome
  <2>3. CountInv'
    BY <1>m, <2>1, <2>2 DEF ThereInv, CountInv
  <2>4. QED
    BY <1>t, <1>m, <2>1, <2>3 DEF ThereInv
<1>8. CASE Divide
  <2>1. /\ pc = "divide" /\ pc' = "returned" /\ DOMAIN usages' = Both
        /\ UNCHANGED <<todo, handle, first, second, overfull>>
    BY <1>8 DEF Divide
  <2>2. CountInv'
    BY <1>m, <2>1 DEF ThereInv, CountInv, Both
  <2>3. QED
    BY <1>t, <1>m, <2>1, <2>2 DEF ThereInv
<1>9. QED
  BY <1>1, <1>2, <1>3, <1>4, <1>5, <1>6, <1>7, <1>8 DEF Call

\* A process that runs from before the call of getCpuUsages to its return, and
\* that OpenProcess admits to, is in the map returned, if every enumeration fits.
THEOREM NoneLeftOut == Spec => []EveryoneCounted
<1>1. Init => ThereInv
  <2> SUFFICES ASSUME Init PROVE ThereInv
    OBVIOUS
  <2>1. PICK running \in SUBSET Pids : process = [pid \in Pids |-> IF pid \in running THEN 1 ELSE 0]
    BY DEF Init
  <2>2. CountInv
    BY DEF Init, CountInv
  <2>3. QED
    BY <2>1, <2>2 DEF Init, ThereInv
<1>2. ThereInv /\ [Next]_vars => ThereInv'
  <2>1. ASSUME ThereInv, UNCHANGED vars PROVE ThereInv'
    <3>1. UNCHANGED <<starts, process, pc, todo, handle, first, second, usages, overfull, denied>>
      BY <2>1 DEF vars, machineVars, callVars
    <3>2. CountInv'
      BY <2>1, <3>1 DEF ThereInv, CountInv, AlwaysThere, ToCome, Both
    <3>3. QED
      BY <2>1, <3>1, <3>2 DEF ThereInv
  <2>2. QED
    BY <2>1, MachineKeepsCount, CallKeepsCount DEF Next
<1>3. ThereInv => EveryoneCounted
  BY DEF ThereInv, CountInv, AlwaysThere, Both, EveryoneCounted
<1>4. QED
  BY <1>1, <1>2, <1>3, PTL DEF Spec
=============================================================================
