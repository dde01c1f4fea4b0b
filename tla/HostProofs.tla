----------------------------- MODULE HostProofs -----------------------------
(***************************************************************************)
(* Proofs about what happens to a client's host outside the running client *)
(* (MCHost): for any binaries, corporate networks, lines of the log and    *)
(* number of cut-short scripts.                                            *)
(***************************************************************************)
EXTENDS MCHost, Sequences, FiniteSetTheorems, SequenceTheorems, PowersProofs

(***************************************************************************)
(* Scripts.  A script at work is known by the commands it has left; `f` is *)
(* the script read backwards, so that f[r] is next when r are left.        *)
(***************************************************************************)
Remaining(s, f) == \A i \in 1 .. Len(s) : s[i] = f[Len(s) - i + 1]

(* The next command, and what is left after it.                             *)
LEMMA NextCommand ==
    ASSUME NEW S, NEW s \in Seq(S), NEW f, s # <<>>, Remaining(s, f)
    PROVE  /\ Len(s) \in Nat /\ Len(s) > 0 /\ Head(s) = f[Len(s)] /\ Head(s) \in S
           /\ Tail(s) \in Seq(S) /\ Len(Tail(s)) = Len(s) - 1 /\ Remaining(Tail(s), f)
  <1>1. /\ Len(s) \in Nat /\ Len(s) > 0 /\ Head(s) = s[1] /\ Head(s) \in S
        /\ Tail(s) \in Seq(S) /\ Len(Tail(s)) = Len(s) - 1
        /\ \A i \in 1 .. Len(Tail(s)) : Tail(s)[i] = s[i + 1]
    BY EmptySeq, HeadTailProperties
  <1> DEFINE n == Len(s)
             t == Tail(s)
  <1>2. /\ n \in Nat /\ n > 0 /\ Len(t) = n - 1
        /\ \A i \in 1 .. n : s[i] = f[n - i + 1]
        /\ \A i \in 1 .. n - 1 : t[i] = s[i + 1]
    BY <1>1 DEF Remaining
  <1>3. s[1] = f[n]
    BY <1>2
  <1> HIDE DEF n, t
  <1>4. ASSUME NEW i \in 1 .. n - 1 PROVE t[i] = f[(n - 1) - i + 1]
    <2>1. i + 1 \in 1 .. n /\ n - (i + 1) + 1 = (n - 1) - i + 1
      BY <1>2
    <2> QED
      BY <1>2, <2>1
  <1>5. Remaining(t, f)
    BY <1>2, <1>4 DEF Remaining
  <1> QED
    BY <1>1, <1>3, <1>5 DEF n, t

----------------------------------------------------------------------------
(***************************************************************************)
(* Upgrades and roll-backs: where the binaries are that the script found,  *)
(* and whether one of them runs.                                           *)
(***************************************************************************)
UpgradeTyped ==
    /\ file \in [Upgrade!Files -> Upgrade!Content]
    /\ before \in [Upgrade!Files -> Upgrade!Content]
    /\ stage \in Upgrade!Stages /\ running \in BOOLEAN /\ risked \in BOOLEAN
    /\ new \in Versions

\* Where the client and the previous binary are that the script found.
FoundKept ==
    /\ stage \in {"stop", "save", "again", "stopBack", "aside"} =>
          file["client"] = before["client"]
    /\ stage \in {"install", "start", "health", "restore", "again", "startBack"} =>
          file["previous"] = before["client"]
    /\ stage \in {"back", "keep"} => file["rollback"] = before["client"]
    /\ stage \in {"stopBack", "aside", "back"} => file["previous"] = before["previous"]
    /\ stage \in {"keep", "startBack"} => file["client"] = before["previous"]

\* A roll-back begins with a previous binary, and a mv has no target to lose.
Gaps ==
    /\ stage \in {"stopBack", "aside", "back"} => file["previous"] # Missing
    /\ stage = "back" => file["client"] = Missing
    /\ stage = "keep" => file["previous"] = Missing

\* Health is asked of the new binary.
NewTried ==
    /\ stage \in {"start", "health"} => file["client"] = new
    /\ stage = "health" => (running <=> new \in Works)
    /\ stage # "idle" => ended = "none"

\* Without an upgrade of a client that does not run: an upgrade found one that
\* does, and what a roll-back moves aside is not the only one.
Unrisked ==
    ~risked =>
        /\ stage \in {"stop", "save", "install", "start", "health", "restore", "again"} =>
              before["client"] \in Works
        /\ IF file["client"] # Missing /\ file["previous"] # Missing
           THEN file["client"] \in Works \/ file["previous"] \in Works
           ELSE \E f \in Upgrade!Files : file[f] \in Works

UpgradeInv ==
    /\ UpgradeTyped /\ FoundKept /\ Gaps /\ NewTried /\ Unrisked
    /\ Upgrade!ExitTellsTruth /\ Upgrade!WorkingBinaryKept

(* What the constants say: no half and no missing file is a binary.         *)
LEMMA Binaries ==
    /\ Installed \in Works /\ Works \subseteq Versions
    /\ Torn \notin Works /\ Missing \notin Works /\ Missing \notin Versions
    /\ Versions \subseteq Upgrade!Content /\ Torn \in Upgrade!Content
    /\ Missing \in Upgrade!Content
    /\ "client" \in Upgrade!Files /\ "previous" \in Upgrade!Files
    /\ "rollback" \in Upgrade!Files
  BY PartsAssumption DEF Upgrade!VersionsAssumption, Upgrade!Content, Upgrade!Files

(* The host as install-linux.sh leaves it.                                  *)
LEMMA UpgradeInit == Upgrade!Init => UpgradeInv
  <1> SUFFICES ASSUME Upgrade!Init PROVE UpgradeInv
    OBVIOUS
  <1>1. /\ file = [f \in Upgrade!Files |-> IF f = "client" THEN Installed ELSE Missing]
        /\ running = TRUE /\ stage = "idle" /\ new = Installed /\ before = file
        /\ ended = "none" /\ risked = FALSE
    BY DEF Upgrade!Init
  <1>2. file["client"] \in Works /\ file["previous"] = Missing
    BY <1>1, Binaries
  <1>3. UpgradeTyped
    BY <1>1, Binaries DEF UpgradeTyped, Upgrade!Stages
  <1>4. FoundKept /\ Gaps /\ NewTried
    BY <1>1 DEF FoundKept, Gaps, NewTried
  <1>5. Unrisked /\ Upgrade!WorkingBinaryKept
    BY <1>1, <1>2, Binaries DEF Unrisked, Upgrade!WorkingBinaryKept
  <1>6. Upgrade!ExitTellsTruth
    BY <1>1 DEF Upgrade!ExitTellsTruth
  <1> QED
    BY <1>3, <1>4, <1>5, <1>6 DEF UpgradeInv

(* A script that copies or moves no file, and the end of one.               *)
LEMMA UpgradeStill ==
    ASSUME UpgradeInv, file' = file, before' = before, risked' = risked, new' = new,
           running' \in BOOLEAN, stage' \in Upgrade!Stages,
           FoundKept', Gaps', NewTried', Upgrade!ExitTellsTruth',
           stage' \in {"stop", "save", "install", "start", "health", "restore", "again"} =>
              stage \in {"stop", "save", "install", "start", "health", "restore", "again"}
    PROVE  UpgradeInv'
  <1>1. UpgradeTyped'
    BY DEF UpgradeInv, UpgradeTyped
  <1>2. Unrisked'
    BY DEF UpgradeInv, Unrisked
  <1>3. Upgrade!WorkingBinaryKept'
    BY DEF UpgradeInv, Upgrade!WorkingBinaryKept
  <1> QED
    BY <1>1, <1>2, <1>3 DEF UpgradeInv

(* A command that changes a file: what is left of the invariant to show.    *)
LEMMA UpgradeFile ==
    ASSUME UpgradeInv, file' \in [Upgrade!Files -> Upgrade!Content],
           running' = running, new' = new, before' = before, risked' = risked,
           stage' \in Upgrade!Stages, ended' = "none" \/ (stage' = "idle" /\ ended' = "fault"),
           FoundKept', Gaps', stage' # "health",
           stage' = "start" => file'["client"] = new,
           Unrisked', Upgrade!WorkingBinaryKept'
    PROVE  UpgradeInv'
  <1>1. UpgradeTyped'
    BY DEF UpgradeInv, UpgradeTyped
  <1>2. NewTried'
    BY DEF NewTried
  <1>3. Upgrade!ExitTellsTruth'
    BY DEF Upgrade!ExitTellsTruth
  <1> QED
    BY <1>1, <1>2, <1>3 DEF UpgradeInv

(* The commands of upgrade-linux.sh that copy a file.                       *)
LEMMA UpgradeCopies ==
    UpgradeInv /\ (Upgrade!Save \/ Upgrade!InstallNew \/ Upgrade!Restore) => UpgradeInv'
  <1> SUFFICES ASSUME UpgradeInv, Upgrade!Save \/ Upgrade!InstallNew \/ Upgrade!Restore
               PROVE  UpgradeInv'
    OBVIOUS
  <1> DEFINE x == before["client"]
  <1>1. \/ /\ stage = "save" /\ stage' = "install"
           /\ file' = [file EXCEPT !["previous"] = file["client"]]
        \/ /\ stage = "install" /\ stage' = "start"
           /\ file' = [file EXCEPT !["client"] = new]
        \/ /\ stage = "restore" /\ stage' = "again"
           /\ file' = [file EXCEPT !["client"] = file["previous"]]
    BY DEF Upgrade!Save, Upgrade!InstallNew, Upgrade!Restore, Upgrade!Copy
  <1>2. /\ running' = running /\ ended' = ended /\ new' = new /\ before' = before
        /\ risked' = risked
    BY DEF Upgrade!Save, Upgrade!InstallNew, Upgrade!Restore, Upgrade!Copy, Upgrade!script
  <1>3. /\ file \in [Upgrade!Files -> Upgrade!Content] /\ new \in Upgrade!Content
        /\ FoundKept /\ Unrisked /\ ended = "none"
    BY <1>1, Binaries DEF UpgradeInv, UpgradeTyped, NewTried
  <1>4. /\ file' \in [Upgrade!Files -> Upgrade!Content]
        /\ stage' = "install" => file'["client"] = x /\ file'["previous"] = x
        /\ stage' = "start" => file'["client"] = new /\ file'["previous"] = x
        /\ stage' = "again" => file'["client"] = x /\ file'["previous"] = x
    BY <1>1, <1>3, Binaries DEF FoundKept
  <1>5. FoundKept' /\ Gaps'
    BY <1>1, <1>2, <1>4 DEF FoundKept, Gaps
  <1>6. ~risked => x \in Works
    BY <1>1, <1>3 DEF Unrisked
  <1>7. file'["previous"] = x
    BY <1>1, <1>4
  <1>8. Unrisked'
    BY <1>2, <1>6, <1>7, Binaries DEF Unrisked
  <1>9. Upgrade!WorkingBinaryKept'
    BY <1>2, <1>6, <1>7, Binaries DEF Upgrade!WorkingBinaryKept
  <1>10. stage' \in Upgrade!Stages /\ stage' # "health"
    BY <1>1 DEF Upgrade!Stages
  <1> QED
    BY <1>1, <1>2, <1>3, <1>4, <1>5, <1>8, <1>9, <1>10, UpgradeFile

(* The three moves of rollback-linux.sh.                                    *)
LEMMA RollbackMoves ==
    UpgradeInv /\ (Upgrade!MoveAside \/ Upgrade!MoveBack \/ Upgrade!MoveKeep) => UpgradeInv'
  <1> SUFFICES ASSUME UpgradeInv, Upgrade!MoveAside \/ Upgrade!MoveBack \/ Upgrade!MoveKeep
               PROVE  UpgradeInv'
    OBVIOUS
  <1> DEFINE c == before["client"]
             p == before["previous"]
  <1>1. \/ /\ stage = "aside" /\ stage' = "back" /\ file["client"] # Missing
           /\ file' = [file EXCEPT !["rollback"] = file["client"], !["client"] = Missing]
        \/ /\ stage = "back" /\ stage' = "keep" /\ file["previous"] # Missing
           /\ file' = [file EXCEPT !["client"] = file["previous"], !["previous"] = Missing]
        \/ /\ stage = "keep" /\ stage' = "startBack" /\ file["rollback"] # Missing
           /\ file' = [file EXCEPT !["previous"] = file["rollback"], !["rollback"] = Missing]
    BY DEF Upgrade!MoveAside, Upgrade!MoveBack, Upgrade!MoveKeep, Upgrade!Move
  <1>2. /\ running' = running /\ ended' = ended /\ new' = new /\ before' = before
        /\ risked' = risked
    BY DEF Upgrade!MoveAside, Upgrade!MoveBack, Upgrade!MoveKeep, Upgrade!Move, Upgrade!script
  <1>3. /\ file \in [Upgrade!Files -> Upgrade!Content]
        /\ FoundKept /\ Gaps /\ Unrisked /\ Upgrade!WorkingBinaryKept /\ ended = "none"
    BY <1>1 DEF UpgradeInv, UpgradeTyped, NewTried
  <1>4. /\ file' \in [Upgrade!Files -> Upgrade!Content]
        /\ stage' = "back" =>
              /\ file'["client"] = Missing /\ file'["previous"] = p /\ file'["rollback"] = c
              /\ p # Missing
        /\ stage' = "keep" =>
              file'["client"] = p /\ file'["previous"] = Missing /\ file'["rollback"] = c
        /\ stage' = "startBack" => file'["client"] = p /\ file'["previous"] = c
    BY <1>1, <1>3, Binaries DEF FoundKept, Gaps
  <1>5. FoundKept' /\ Gaps'
    BY <1>1, <1>2, <1>4 DEF FoundKept, Gaps
  <1>6. ~risked => c \in Works \/ p \in Works
    <2>1. CASE stage = "aside"
      BY <1>1, <1>3, <2>1 DEF FoundKept, Gaps, Unrisked
    <2>2. CASE stage = "back"
      <3>1. file["client"] = Missing /\ file["rollback"] = c /\ file["previous"] = p
        BY <1>3, <2>2 DEF FoundKept, Gaps
      <3> QED
        BY <1>3, <3>1, Binaries DEF Unrisked, Upgrade!Files
    <2>3. CASE stage = "keep"
      <3>1. file["previous"] = Missing /\ file["rollback"] = c /\ file["client"] = p
        BY <1>3, <2>3 DEF FoundKept, Gaps
      <3> QED
        BY <1>3, <3>1, Binaries DEF Unrisked, Upgrade!Files
    <2> QED
      BY <1>1, <2>1, <2>2, <2>3
  <1>7. \E f \in Upgrade!Files : file'[f] = c
    BY <1>1, <1>4, Binaries
  <1>8. \E f \in Upgrade!Files : file'[f] = p
    BY <1>1, <1>4, Binaries
  <1>9. stage' = "startBack" => (~risked => file'["client"] \in Works \/ file'["previous"] \in Works)
    BY <1>4, <1>6
  <1>10. Unrisked'
    BY <1>1, <1>2, <1>4, <1>6, <1>7, <1>8, <1>9 DEF Unrisked
  <1>11. Upgrade!WorkingBinaryKept'
    BY <1>2, <1>6, <1>7, <1>8 DEF Upgrade!WorkingBinaryKept
  <1>12. stage' \in Upgrade!Stages /\ stage' # "health" /\ stage' # "start"
    BY <1>1 DEF Upgrade!Stages
  <1> QED
    BY <1>2, <1>3, <1>4, <1>5, <1>10, <1>11, <1>12, UpgradeFile

(* A script that is cut short.                                              *)
LEMMA UpgradeFault == UpgradeInv /\ Upgrade!Fault => UpgradeInv'
  <1> SUFFICES ASSUME UpgradeInv, Upgrade!Fault PROVE UpgradeInv'
    OBVIOUS
  <1>1. /\ stage' = "idle" /\ ended' = "fault" /\ running' = running /\ new' = new
        /\ before' = before /\ risked' = risked /\ file' \in {file} \cup Upgrade!CutShort
    BY DEF Upgrade!Fault
  <1>2. /\ file \in [Upgrade!Files -> Upgrade!Content] /\ FoundKept /\ Unrisked
        /\ Upgrade!WorkingBinaryKept
    BY DEF UpgradeInv, UpgradeTyped
  <1>3. FoundKept' /\ Gaps'
    BY <1>1 DEF FoundKept, Gaps
  <1>4. CASE file' = file
    <2>1. Unrisked' /\ Upgrade!WorkingBinaryKept'
      BY <1>1, <1>2, <1>4 DEF Unrisked, Upgrade!WorkingBinaryKept
    <2> QED
      BY <1>1, <1>2, <1>3, <1>4, <2>1, UpgradeFile DEF Upgrade!Stages
  <1>5. CASE file' # file
    <2>1. \/ stage = "save" /\ file' = [file EXCEPT !["previous"] = Torn]
          \/ /\ stage \in {"restore", "install"}
             /\ \E x \in {Torn, Missing} : file' = [file EXCEPT !["client"] = x]
      BY <1>1, <1>5 DEF Upgrade!CutShort
    <2>2. /\ file' \in [Upgrade!Files -> Upgrade!Content]
          /\ stage = "save" => file'["client"] = before["client"]
          /\ stage # "save" => file'["previous"] = before["client"]
      BY <1>2, <2>1, Binaries DEF FoundKept
    <2>3. ~risked => before["client"] \in Works
      BY <1>2, <2>1 DEF Unrisked
    <2>4. Unrisked' /\ Upgrade!WorkingBinaryKept'
      BY <1>1, <2>2, <2>3, Binaries DEF Unrisked, Upgrade!WorkingBinaryKept
    <2> QED
      BY <1>1, <1>3, <2>2, <2>4, UpgradeFile DEF Upgrade!Stages
  <1> QED
    BY <1>4, <1>5

(* The two scripts begin with the files as they are.                        *)
LEMMA UpgradeBegins ==
    ASSUME UpgradeInv, Upgrade!BeginRollback \/ \E v \in Versions : Upgrade!BeginUpgrade(v)
    PROVE  UpgradeInv'
  <1>1. /\ stage = "idle" /\ before' = file /\ ended' = "none" /\ file' = file
        /\ running' = running /\ new' \in Versions
        /\ \/ stage' = "stopBack" /\ file["previous"] # Missing
           \/ stage' = "stop"
    BY DEF Upgrade!BeginRollback, Upgrade!BeginUpgrade, UpgradeInv, UpgradeTyped
  <1>2. risked' \in BOOLEAN
    <2>1. risked' = risked \/ risked' = (risked \/ ~Upgrade!Runs)
      BY DEF Upgrade!BeginRollback, Upgrade!BeginUpgrade
    <2>2. (risked \/ ~Upgrade!Runs) \in BOOLEAN
      OBVIOUS
    <2> QED
      BY <2>1, <2>2, Zenon DEF UpgradeInv, UpgradeTyped
  <1>3. ~risked' => ~risked /\ (stage' = "stop" => file["client"] \in Works)
    <2>1. CASE Upgrade!BeginRollback
      BY <2>1 DEF Upgrade!BeginRollback
    <2>2. ASSUME NEW v \in Versions, Upgrade!BeginUpgrade(v)
          PROVE  ~risked' => ~risked /\ file["client"] \in Works
      <3>1. risked' = (risked \/ ~(file["client"] \in Works))
        BY <2>2 DEF Upgrade!BeginUpgrade, Upgrade!Runs
      <3> QED
        BY <3>1, Zenon
    <2> QED
      BY <2>1, <2>2
  <1>4. UpgradeTyped' /\ FoundKept' /\ Gaps' /\ NewTried'
    BY <1>1, <1>2 DEF UpgradeInv, UpgradeTyped, FoundKept, Gaps, NewTried, Upgrade!Stages
  <1>5. Unrisked'
    <2>1. Unrisked
      BY DEF UpgradeInv
    <2> QED
      BY <1>1, <1>3, <2>1 DEF Unrisked
  <1>6. Upgrade!WorkingBinaryKept'
    <2>1. ~risked' => \E f \in Upgrade!Files : file[f] \in Works
      BY <1>3, Binaries DEF UpgradeInv, Unrisked
    <2>2. file["client"] \in Works => \E f \in Upgrade!Files : file[f] \in Works
      BY Binaries
    <2> QED
      BY <1>1, <2>1, <2>2 DEF Upgrade!WorkingBinaryKept
  <1>7. Upgrade!ExitTellsTruth'
    BY <1>1 DEF Upgrade!ExitTellsTruth
  <1> QED
    BY <1>4, <1>5, <1>6, <1>7 DEF UpgradeInv

(* The start of the new binary and its health.                              *)
LEMMA UpgradeTries == UpgradeInv /\ (Upgrade!Start \/ Upgrade!Health) => UpgradeInv'
  <1> SUFFICES ASSUME UpgradeInv, Upgrade!Start \/ Upgrade!Health PROVE UpgradeInv'
    OBVIOUS
  <1>1. /\ file' = file /\ before' = before /\ risked' = risked /\ new' = new
        /\ stage \in {"start", "health"} /\ ended = "none"
        /\ FoundKept /\ NewTried /\ UpgradeTyped
    BY DEF UpgradeInv, NewTried, Upgrade!Start, Upgrade!Health, Upgrade!script
  <1>2. file["client"] = new /\ file["previous"] = before["client"]
    BY <1>1 DEF FoundKept, NewTried
  <1>3. \/ /\ stage' = "health" /\ ended' = "none" /\ running' \in BOOLEAN
           /\ running' <=> new \in Works
        \/ stage' = "restore" /\ ended' = "none" /\ running' \in BOOLEAN
        \/ /\ stage' = "idle" /\ ended' = "upgraded" /\ running' = running /\ running
           /\ new \in Works
    <2>1. CASE Upgrade!Start
      <3>1. \/ stage' = "health" /\ running' = (file["client"] \in Works)
            \/ stage' = "restore" /\ running' = FALSE
        BY <2>1 DEF Upgrade!Start, Upgrade!Runs
      <3>2. ended' = "none"
        BY <1>1, <2>1 DEF Upgrade!Start
      <3>3. CASE stage' = "health" /\ running' = (file["client"] \in Works)
        <4>1. running' = (new \in Works)
          BY <1>2, <3>3
        <4>2. running' \in BOOLEAN
          BY <4>1
        <4>3. running' <=> new \in Works
          BY <4>1, Zenon
        <4> QED
          BY <3>2, <3>3, <4>2, <4>3
      <3> QED
        BY <3>1, <3>2, <3>3
    <2>2. CASE Upgrade!Health
      BY <1>1, <2>2 DEF Upgrade!Health, NewTried, UpgradeTyped
    <2> QED
      BY <2>1, <2>2
  <1>4. FoundKept' /\ Gaps'
    BY <1>1, <1>2, <1>3 DEF FoundKept, Gaps
  <1>5. NewTried'
    BY <1>1, <1>2, <1>3 DEF NewTried
  <1>6. Upgrade!ExitTellsTruth'
    BY <1>1, <1>2, <1>3 DEF Upgrade!ExitTellsTruth
  <1>7. stage' \in Upgrade!Stages /\ running' \in BOOLEAN
    BY <1>1, <1>3 DEF Upgrade!Stages, UpgradeTyped
  <1> QED
    BY <1>1, <1>3, <1>4, <1>5, <1>6, <1>7, UpgradeStill

(* The start at the end of a script.                                        *)
LEMMA UpgradeEnds == UpgradeInv /\ (Upgrade!StartAgain \/ Upgrade!StartBack) => UpgradeInv'
  <1> SUFFICES ASSUME UpgradeInv, Upgrade!StartAgain \/ Upgrade!StartBack PROVE UpgradeInv'
    OBVIOUS
  <1>1. /\ file' = file /\ before' = before /\ risked' = risked /\ new' = new
        /\ stage' = "idle" /\ FoundKept
    BY DEF UpgradeInv, Upgrade!StartAgain, Upgrade!StartBack, Upgrade!Outcome, Upgrade!script
  <1>2. \/ /\ ended' = "restored" /\ running' = (file["client"] \in Works)
           /\ file["client"] = before["client"] /\ file["previous"] = before["client"]
        \/ /\ ended' = "rolledBack" /\ running' = (file["client"] \in Works)
           /\ file["client"] = before["previous"] /\ file["previous"] = before["client"]
        \/ ended' = "fault" /\ running' = FALSE
    BY <1>1 DEF Upgrade!StartAgain, Upgrade!StartBack, Upgrade!Outcome, Upgrade!Runs, FoundKept
  <1>3. running' \in BOOLEAN
    <2>1. CASE running' = (file["client"] \in Works)
      BY <2>1
    <2>2. CASE running' = FALSE
      BY <2>2
    <2> QED
      BY <1>2, <2>1, <2>2
  <1>4. FoundKept' /\ Gaps' /\ NewTried'
    BY <1>1 DEF FoundKept, Gaps, NewTried
  <1>5. ended' \in {"restored", "rolledBack"} => (running' <=> file["client"] \in Works)
    <2>1. ended' \in {"restored", "rolledBack"} => running' = (file["client"] \in Works)
      BY <1>2
    <2> QED
      BY <2>1, Zenon
  <1>6. Upgrade!ExitTellsTruth'
    BY <1>1, <1>2, <1>5 DEF Upgrade!ExitTellsTruth, Upgrade!Runs
  <1> QED
    BY <1>1, <1>3, <1>4, <1>6, UpgradeStill DEF Upgrade!Stages

(* Every command of the two scripts, their ends and a boot.                 *)
LEMMA UpgradeStep == UpgradeInv /\ Upgrade!Next => UpgradeInv'
  <1> SUFFICES ASSUME UpgradeInv, Upgrade!Next PROVE UpgradeInv'
    OBVIOUS
  <1>1. CASE Upgrade!Stop("stop", "save") \/ Upgrade!Stop("stopBack", "aside")
    <2>1. /\ \/ stage = "stop" /\ stage' = "save"
             \/ stage = "stopBack" /\ stage' = "aside"
          /\ file' = file /\ before' = before /\ risked' = risked /\ new' = new
          /\ running' = FALSE /\ ended' = ended
      BY <1>1 DEF Upgrade!Stop, Upgrade!script
    <2>2. FoundKept' /\ Gaps' /\ NewTried' /\ Upgrade!ExitTellsTruth'
      BY <2>1 DEF UpgradeInv, FoundKept, Gaps, NewTried, Upgrade!ExitTellsTruth
    <2> QED
      BY <2>1, <2>2, UpgradeStill DEF Upgrade!Stages
  <1>2. CASE Upgrade!Refused
    <2>1. /\ stage' = "idle" /\ ended' = "fault" /\ running' = running
          /\ file' = file /\ before' = before /\ risked' = risked /\ new' = new
      BY <1>2 DEF Upgrade!Refused, Upgrade!script
    <2>2. FoundKept' /\ Gaps' /\ NewTried' /\ Upgrade!ExitTellsTruth'
      BY <2>1 DEF FoundKept, Gaps, NewTried, Upgrade!ExitTellsTruth
    <2> QED
      BY <2>1, <2>2, UpgradeStill DEF Upgrade!Stages, UpgradeInv, UpgradeTyped
  <1>3. CASE Upgrade!Boot
    <2>0. running' = (file["client"] \in Works) \/ running' = FALSE
      BY <1>3 DEF Upgrade!Boot, Upgrade!Runs
    <2>1. /\ stage = "idle" /\ stage' = stage /\ ended' = "none"
          /\ file' = file /\ before' = before /\ risked' = risked /\ new' = new
      BY <1>3 DEF Upgrade!Boot, Upgrade!script
    <2>3. running' \in BOOLEAN
      <3>1. CASE running' = (file["client"] \in Works)
        BY <3>1
      <3>2. CASE running' = FALSE
        BY <3>2
      <3> QED
        BY <2>0, <3>1, <3>2
    <2>2. FoundKept' /\ Gaps' /\ NewTried' /\ Upgrade!ExitTellsTruth'
      BY <2>1 DEF FoundKept, Gaps, NewTried, Upgrade!ExitTellsTruth
    <2> QED
      BY <2>1, <2>2, <2>3, UpgradeStill DEF Upgrade!Stages
  <1> QED
    BY <1>1, <1>2, <1>3, UpgradeCopies, RollbackMoves, UpgradeFault, UpgradeBegins,
       UpgradeTries, UpgradeEnds DEF Upgrade!Next


----------------------------------------------------------------------------
(***************************************************************************)
(* ip_forward: the commands a script has left tell what it has done.       *)
(***************************************************************************)
GatewayBack   == <<"other", "apply", "conf", "save", "other">>
ClientBack    == <<"other", "clearConf", "clearSaved", "restore">>
UninstallBack == <<"other", "clearSaved", "clearConf", "restore">>

\* No restart has applied a sysctl file without a saved value.
Unapplied == "applied" \notin losses

SettingTyped ==
    /\ own \in {0, 1} /\ kernel \in {0, 1} /\ conf \in BOOLEAN
    /\ saved \in {0, 1, Torn, Missing}
    /\ Unapplied => saved \in {own, Torn, Missing}
    /\ saved = Torn => "torn" \in losses
    /\ steps \in Seq(Setting!Commands)
    /\ goal \in Setting!Scripts \cup {"none"}
    /\ goal = "none" => steps = <<>>
    /\ goal # "none" => result = "none"

GatewayAt ==
    goal = "gateway" =>
        /\ Len(steps) <= 5 /\ Remaining(steps, GatewayBack)
        /\ Len(steps) <= 3 => saved # Missing
        /\ Len(steps) <= 2 => conf
        /\ Len(steps) <= 1 => kernel = 1

ClientAt ==
    goal = "client" =>
        /\ Len(steps) <= 4 /\ Remaining(steps, ClientBack)
        /\ Len(steps) <= 3 => (Unapplied => kernel = own)
        /\ Len(steps) <= 2 => saved = Missing
        /\ Len(steps) <= 1 => ~conf

UninstallAt ==
    goal = "uninstall" =>
        /\ Len(steps) <= 4 /\ Remaining(steps, UninstallBack)
        /\ Len(steps) <= 3 => (Unapplied => kernel = own)
        /\ Len(steps) <= 2 => ~conf
        /\ Len(steps) <= 1 => saved = Missing

SettingInv ==
    /\ SettingTyped /\ GatewayAt /\ ClientAt /\ UninstallAt
    /\ Setting!OwnSettingRemembered /\ Setting!ForwardingFollowsRole

(* A host without WSN.                                                      *)
LEMMA SettingInit == Setting!Init => SettingInv
  <1> SUFFICES ASSUME Setting!Init PROVE SettingInv
    OBVIOUS
  <1>1. /\ own \in {0, 1} /\ kernel = own /\ saved = Missing /\ conf = FALSE
        /\ steps = <<>> /\ goal = "none" /\ result = "none" /\ losses = {}
        /\ Torn # Missing
    BY PartsAssumption DEF Setting!Init, Setting!Values, Setting!FilesAssumption
  <1>2. SettingTyped
    <2>1. steps \in Seq(Setting!Commands)
      BY <1>1, EmptySeq
    <2> QED
      BY <1>1, <2>1 DEF SettingTyped
  <1>3. GatewayAt /\ ClientAt /\ UninstallAt
    BY <1>1 DEF GatewayAt, ClientAt, UninstallAt
  <1>4. Setting!OwnSettingRemembered /\ Setting!ForwardingFollowsRole
    BY <1>1 DEF Setting!OwnSettingRemembered, Setting!ForwardingFollowsRole
  <1> QED
    BY <1>2, <1>3, <1>4 DEF SettingInv

(* The command at work of each script, by the number that are left.         *)
LEMMA SettingNext ==
    ASSUME SettingInv, steps # <<>>
    PROVE  /\ Len(steps) \in Nat /\ Len(steps) > 0 /\ goal # "none"
           /\ Tail(steps) \in Seq(Setting!Commands) /\ Len(Tail(steps)) = Len(steps) - 1
           /\ goal = "gateway" =>
                /\ Head(steps) = GatewayBack[Len(steps)]
                /\ Remaining(Tail(steps), GatewayBack)
           /\ goal = "client" =>
                /\ Head(steps) = ClientBack[Len(steps)]
                /\ Remaining(Tail(steps), ClientBack)
           /\ goal = "uninstall" =>
                /\ Head(steps) = UninstallBack[Len(steps)]
                /\ Remaining(Tail(steps), UninstallBack)
  <1>1. steps \in Seq(Setting!Commands) /\ goal # "none" /\ goal \in Setting!Scripts \cup {"none"}
    BY DEF SettingInv, SettingTyped
  <1>2. ASSUME NEW f, Remaining(steps, f)
        PROVE  /\ Len(steps) \in Nat /\ Len(steps) > 0 /\ Head(steps) = f[Len(steps)]
               /\ Tail(steps) \in Seq(Setting!Commands) /\ Len(Tail(steps)) = Len(steps) - 1
               /\ Remaining(Tail(steps), f)
    BY <1>1, <1>2, NextCommand
  <1>3. /\ goal = "gateway" => Remaining(steps, GatewayBack)
        /\ goal = "client" => Remaining(steps, ClientBack)
        /\ goal = "uninstall" => Remaining(steps, UninstallBack)
    BY DEF SettingInv, GatewayAt, ClientAt, UninstallAt
  <1>4. goal \in {"gateway", "client", "uninstall"}
    BY <1>1 DEF Setting!Scripts
  <1> QED
    BY <1>1, <1>2, <1>3, <1>4

(* A script begins with all its commands.                                   *)
LEMMA SettingBegins ==
    /\ Setting!InstallGateway \in Seq(Setting!Commands) /\ Len(Setting!InstallGateway) = 5
    /\ Remaining(Setting!InstallGateway, GatewayBack)
    /\ Setting!InstallClient \in Seq(Setting!Commands) /\ Len(Setting!InstallClient) = 4
    /\ Remaining(Setting!InstallClient, ClientBack)
    /\ Setting!Uninstall \in Seq(Setting!Commands) /\ Len(Setting!Uninstall) = 4
    /\ Remaining(Setting!Uninstall, UninstallBack)
  BY DEF Setting!InstallGateway, Setting!InstallClient, Setting!Uninstall, Setting!Commands,
         Remaining, GatewayBack, ClientBack, UninstallBack


(* Which script a command belongs to, and how many are left with it.        *)
LEMMA SettingWhere ==
    ASSUME SettingInv, steps # <<>>
    PROVE  /\ Head(steps) = "save" => goal = "gateway" /\ Len(steps) = 4
           /\ Head(steps) = "conf" => goal = "gateway" /\ Len(steps) = 3
           /\ Head(steps) = "apply" => goal = "gateway" /\ Len(steps) = 2
           /\ Head(steps) = "restore" => goal \in {"client", "uninstall"} /\ Len(steps) = 4
           /\ Head(steps) = "clearConf" => \/ goal = "client" /\ Len(steps) = 2
                                           \/ goal = "uninstall" /\ Len(steps) = 3
           /\ Head(steps) = "clearSaved" => \/ goal = "client" /\ Len(steps) = 3
                                            \/ goal = "uninstall" /\ Len(steps) = 2
           /\ Head(steps) = "other" => \/ goal = "gateway" /\ Len(steps) \in {1, 5}
                                       \/ goal \in {"client", "uninstall"} /\ Len(steps) = 1
  <1> DEFINE n == Len(steps)
             h == Head(steps)
  <1>1. /\ n \in Nat /\ n > 0 /\ goal \in {"gateway", "client", "uninstall"}
        /\ goal = "gateway" => n <= 5 /\ h = GatewayBack[n]
        /\ goal = "client" => n <= 4 /\ h = ClientBack[n]
        /\ goal = "uninstall" => n <= 4 /\ h = UninstallBack[n]
    BY SettingNext DEF SettingInv, SettingTyped, GatewayAt, ClientAt, UninstallAt, Setting!Scripts
  <1> HIDE DEF n, h
  <1>2. CASE goal = "gateway"
    <2>1. n \in {1, 2, 3, 4, 5} /\ h = GatewayBack[n]
      BY <1>1, <1>2
    <2>2. \/ n = 1 /\ h = "other"
          \/ n = 2 /\ h = "apply"
          \/ n = 3 /\ h = "conf"
          \/ n = 4 /\ h = "save"
          \/ n = 5 /\ h = "other"
      <3>1. /\ GatewayBack[1] = "other" /\ GatewayBack[2] = "apply" /\ GatewayBack[3] = "conf"
            /\ GatewayBack[4] = "save" /\ GatewayBack[5] = "other"
        BY DEF GatewayBack
      <3> QED
        BY <2>1, <3>1
    <2> QED
      BY <1>2, <2>2 DEF n, h
  <1>3. CASE goal = "client"
    <2>1. n \in {1, 2, 3, 4} /\ h = ClientBack[n]
      BY <1>1, <1>3
    <2>2. \/ n = 1 /\ h = "other"
          \/ n = 2 /\ h = "clearConf"
          \/ n = 3 /\ h = "clearSaved"
          \/ n = 4 /\ h = "restore"
      <3>1. /\ ClientBack[1] = "other" /\ ClientBack[2] = "clearConf"
            /\ ClientBack[3] = "clearSaved" /\ ClientBack[4] = "restore"
        BY DEF ClientBack
      <3> QED
        BY <2>1, <3>1
    <2> QED
      BY <1>3, <2>2 DEF n, h
  <1>4. CASE goal = "uninstall"
    <2>1. n \in {1, 2, 3, 4} /\ h = UninstallBack[n]
      BY <1>1, <1>4
    <2>2. \/ n = 1 /\ h = "other"
          \/ n = 2 /\ h = "clearSaved"
          \/ n = 3 /\ h = "clearConf"
          \/ n = 4 /\ h = "restore"
      <3>1. /\ UninstallBack[1] = "other" /\ UninstallBack[2] = "clearSaved"
            /\ UninstallBack[3] = "clearConf" /\ UninstallBack[4] = "restore"
        BY DEF UninstallBack
      <3> QED
        BY <2>1, <3>1
    <2> QED
      BY <1>4, <2>2 DEF n, h
  <1> QED
    BY <1>1, <1>2, <1>3, <1>4

(* An install of a client with two commands left is between its unlinks.    *)
LEMMA BetweenUnlinks ==
    ASSUME NEW s \in Seq(Setting!Commands), Remaining(s, ClientBack), Len(s) = 2
    PROVE  s # <<>> /\ Head(s) = "clearConf"
  <1>1. s # <<>>
    BY EmptySeq
  <1>2. Head(s) = ClientBack[2]
    BY <1>1, NextCommand
  <1> QED
    BY <1>1, <1>2 DEF ClientBack

(* What a command leaves: the invariant follows from the values it sets.    *)
LEMMA SettingCommand ==
    ASSUME SettingInv, NEW c, Setting!At(c),
           kernel' \in {0, 1}, conf' \in BOOLEAN, saved' \in {0, 1, Torn, Missing},
           Unapplied => saved' \in {own, Torn, Missing},
           saved' = Torn => saved = Torn,
           Unapplied => kernel' = own \/ saved' = own \/ saved' = Torn,
           conf' /\ saved' = Missing => \/ conf /\ saved = Missing /\ c # "clearConf"
                                        \/ goal = "client" /\ Len(steps) = 3,
           goal = "gateway" => /\ Len(steps) <= 4 => saved' # Missing
                               /\ Len(steps) <= 3 => conf'
                               /\ Len(steps) <= 2 => kernel' = 1,
           goal = "client" => /\ Unapplied => kernel' = own
                              /\ Len(steps) <= 3 => saved' = Missing
                              /\ Len(steps) <= 2 => ~conf',
           goal = "uninstall" => /\ Unapplied => kernel' = own
                                 /\ Len(steps) <= 3 => ~conf'
                                 /\ Len(steps) <= 2 => saved' = Missing
    PROVE  SettingInv'
  <1>1. /\ steps # <<>> /\ steps' = Tail(steps) /\ own' = own /\ goal' = goal
        /\ result' = result /\ losses' = losses /\ Head(steps) = c
    BY DEF Setting!At
  <1> DEFINE n == Len(steps)
             m == Len(steps')
  <1>2. /\ n \in Nat /\ m \in Nat /\ m = n - 1 /\ steps' \in Seq(Setting!Commands) /\ goal # "none"
        /\ goal = "gateway" => Remaining(steps', GatewayBack) /\ n <= 5
        /\ goal = "client" => Remaining(steps', ClientBack) /\ n <= 4
        /\ goal = "uninstall" => Remaining(steps', UninstallBack) /\ n <= 4
    BY <1>1, SettingNext DEF SettingInv, GatewayAt, ClientAt, UninstallAt
  <1>3. SettingTyped'
    BY <1>1, <1>2 DEF SettingInv, SettingTyped, Unapplied
  <1>4. /\ goal = "gateway" => /\ n <= 4 => saved' # Missing
                               /\ n <= 3 => conf'
                               /\ n <= 2 => kernel' = 1
        /\ goal = "client" => /\ Unapplied => kernel' = own
                              /\ n <= 3 => saved' = Missing
                              /\ n <= 2 => ~conf'
        /\ goal = "uninstall" => /\ Unapplied => kernel' = own
                                 /\ n <= 3 => ~conf'
                                 /\ n <= 2 => saved' = Missing
    OBVIOUS
  <1>5. conf' /\ saved' = Missing => \/ conf /\ saved = Missing /\ c # "clearConf"
                                     \/ goal = "client" /\ n = 3
    OBVIOUS
  <1> HIDE DEF n, m
  <1>6. /\ goal = "gateway" => /\ m <= 5
                               /\ m <= 3 => saved' # Missing
                               /\ m <= 2 => conf'
                               /\ m <= 1 => kernel' = 1
        /\ goal = "client" => m <= 4 /\ (m <= 2 => saved' = Missing) /\ (m <= 1 => ~conf')
        /\ goal = "uninstall" => m <= 4 /\ (m <= 2 => ~conf') /\ (m <= 1 => saved' = Missing)
        /\ n = 3 => m = 2
    BY <1>2, <1>4
  <1>7. GatewayAt' /\ ClientAt' /\ UninstallAt'
    BY <1>1, <1>2, <1>4, <1>6 DEF GatewayAt, ClientAt, UninstallAt, Unapplied, m
  <1>8. Setting!ForwardingFollowsRole'
    BY <1>1, <1>2 DEF SettingInv, SettingTyped, Setting!ForwardingFollowsRole
  <1>9. Setting!OwnSettingRemembered'
    <2>1. Unapplied => kernel' = own \/ saved' = own \/ (saved' = Torn /\ "torn" \in losses)
      BY DEF SettingInv, SettingTyped
    <2>2. ASSUME conf', saved' = Missing PROVE Setting!Unlinking' \/ "unlinked" \in losses
      <3>1. CASE conf /\ saved = Missing /\ c # "clearConf"
        BY <1>1, <3>1 DEF SettingInv, Setting!OwnSettingRemembered, Setting!Unlinking
      <3>2. CASE goal = "client" /\ n = 3
        <4>1. steps' # <<>> /\ Head(steps') = "clearConf"
          BY <1>2, <1>6, <3>2, BetweenUnlinks DEF m
        <4> QED
          BY <1>1, <3>2, <4>1 DEF Setting!Unlinking
      <3> QED
        BY <1>5, <2>2, <3>1, <3>2
    <2>3. "applied" \in losses => "unlinked" \in losses
      BY DEF SettingInv, Setting!OwnSettingRemembered
    <2> QED
      BY <1>1, <2>1, <2>2, <2>3 DEF Setting!OwnSettingRemembered, Unapplied
  <1> QED
    BY <1>3, <1>7, <1>8, <1>9 DEF SettingInv

(* Every command of the three scripts, their ends and a boot.               *)
LEMMA SettingStep == SettingInv /\ Setting!Next => SettingInv'
  <1> SUFFICES ASSUME SettingInv, Setting!Next PROVE SettingInv'
    OBVIOUS
  <1>0. /\ SettingTyped /\ GatewayAt /\ ClientAt /\ UninstallAt
        /\ Setting!OwnSettingRemembered /\ Setting!ForwardingFollowsRole
        /\ Missing \notin {0, 1} /\ Torn \notin {0, 1} /\ Missing # Torn
    BY PartsAssumption DEF SettingInv, Setting!FilesAssumption, Setting!Values
  <1>1. ASSUME NEW g \in {"gateway", "client", "uninstall"}, NEW s, Setting!Begin(g, s),
               g = "gateway" => s = Setting!InstallGateway,
               g = "client" => s = Setting!InstallClient,
               g = "uninstall" => s = Setting!Uninstall
        PROVE  SettingInv'
    <2>1. /\ goal' = g /\ steps' = s /\ result' = "none" /\ own' = own /\ kernel' = kernel
          /\ saved' = saved /\ conf' = conf /\ losses' = losses /\ goal = "none"
      BY <1>1 DEF Setting!Begin
    <2>2. SettingTyped'
      <3>1. s \in Seq(Setting!Commands)
        BY <1>1, SettingBegins
      <3>2. g \in Setting!Scripts \cup {"none"} /\ g # "none"
        BY DEF Setting!Scripts
      <3> QED
        BY <1>0, <2>1, <3>1, <3>2 DEF SettingTyped, Unapplied
    <2>3. GatewayAt' /\ ClientAt' /\ UninstallAt'
      <3>1. g = "gateway" => /\ Remaining(s, GatewayBack) /\ Len(s) <= 5
                             /\ ~(Len(s) <= 3) /\ ~(Len(s) <= 2) /\ ~(Len(s) <= 1)
        <4> DEFINE k == Len(s)
        <4>1. g = "gateway" => Remaining(s, GatewayBack) /\ k = 5
          BY <1>1, SettingBegins, Zenon
        <4> HIDE DEF k
        <4>2. g = "gateway" => k <= 5 /\ ~(k <= 3) /\ ~(k <= 2) /\ ~(k <= 1)
          BY <4>1
        <4> QED
          BY <4>1, <4>2, Zenon DEF k
      <3>2. g = "client" => /\ Remaining(s, ClientBack) /\ Len(s) <= 4
                            /\ ~(Len(s) <= 3) /\ ~(Len(s) <= 2) /\ ~(Len(s) <= 1)
        <4> DEFINE k == Len(s)
        <4>1. g = "client" => Remaining(s, ClientBack) /\ k = 4
          BY <1>1, SettingBegins, Zenon
        <4> HIDE DEF k
        <4>2. g = "client" => k <= 4 /\ ~(k <= 3) /\ ~(k <= 2) /\ ~(k <= 1)
          BY <4>1
        <4> QED
          BY <4>1, <4>2, Zenon DEF k
      <3>3. g = "uninstall" => /\ Remaining(s, UninstallBack) /\ Len(s) <= 4
                               /\ ~(Len(s) <= 3) /\ ~(Len(s) <= 2) /\ ~(Len(s) <= 1)
        <4> DEFINE k == Len(s)
        <4>1. g = "uninstall" => Remaining(s, UninstallBack) /\ k = 4
          BY <1>1, SettingBegins, Zenon
        <4> HIDE DEF k
        <4>2. g = "uninstall" => k <= 4 /\ ~(k <= 3) /\ ~(k <= 2) /\ ~(k <= 1)
          BY <4>1
        <4> QED
          BY <4>1, <4>2, Zenon DEF k
      <3>4. GatewayAt'
        BY <2>1, <3>1, Zenon DEF GatewayAt
      <3>5. ClientAt'
        BY <2>1, <3>2, Zenon DEF ClientAt
      <3>6. UninstallAt'
        BY <2>1, <3>3, Zenon DEF UninstallAt
      <3> QED
        BY <3>4, <3>5, <3>6
    <2>4. Setting!OwnSettingRemembered' /\ Setting!ForwardingFollowsRole'
      BY <1>0, <2>1 DEF Setting!OwnSettingRemembered, Setting!ForwardingFollowsRole,
                        Setting!Unlinking
    <2> QED
      BY <2>2, <2>3, <2>4 DEF SettingInv
  <1> DEFINE n == Len(steps)
  <1>2. ASSUME NEW c, Setting!At(c)
        PROVE  /\ own' = own /\ steps # <<>> /\ c = Head(steps)
               /\ n \in Nat /\ n > 0
    BY <1>2, SettingNext DEF Setting!At
  <1>3. CASE Setting!Save
    <2>1. Setting!At("save") /\ goal = "gateway" /\ n = 4
      BY <1>2, <1>3, SettingWhere DEF Setting!Save
    <2>2. kernel' = kernel /\ conf' = conf /\ saved' = (IF saved = Missing THEN kernel ELSE saved)
      BY <1>3 DEF Setting!Save
    <2>3. /\ saved' \in {0, 1, Torn, Missing} /\ saved' # Missing /\ (saved' = Torn => saved = Torn)
          /\ Unapplied => saved' \in {own, Torn, Missing} /\ (saved' = own \/ saved' = Torn)
      BY <1>0, <2>2 DEF SettingTyped, Setting!OwnSettingRemembered, Unapplied
    <2> QED
      BY <1>0, <2>1, <2>2, <2>3, SettingCommand DEF SettingTyped
  <1>4. CASE Setting!WriteConf
    <2>1. Setting!At("conf") /\ goal = "gateway" /\ n = 3
      BY <1>2, <1>4, SettingWhere DEF Setting!WriteConf
    <2>2. kernel' = kernel /\ conf' = TRUE /\ saved' = saved /\ saved # Missing
      BY <1>0, <1>4, <2>1 DEF Setting!WriteConf, GatewayAt
    <2>3. Unapplied => saved \in {own, Torn}
      BY <1>0, <2>2 DEF SettingTyped
    <2> QED
      BY <1>0, <2>1, <2>2, <2>3, SettingCommand DEF SettingTyped
  <1>5. CASE Setting!Apply
    <2>1. Setting!At("apply") /\ goal = "gateway" /\ n = 2
      BY <1>2, <1>5, SettingWhere DEF Setting!Apply
    <2>2. kernel' = 1 /\ conf' = conf /\ saved' = saved /\ saved # Missing /\ conf
      BY <1>0, <1>5, <2>1 DEF Setting!Apply, GatewayAt
    <2>3. Unapplied => saved \in {own, Torn}
      BY <1>0, <2>2 DEF SettingTyped
    <2> QED
      BY <1>0, <2>1, <2>2, <2>3, SettingCommand DEF SettingTyped
  <1>6. CASE Setting!Restore
    <2>1. Setting!At("restore") /\ goal \in {"client", "uninstall"} /\ n = 4
      BY <1>2, <1>6, SettingWhere DEF Setting!Restore
    <2>2. /\ conf' = conf /\ saved' = saved /\ saved # Torn
          /\ kernel' = (IF saved = Missing THEN kernel ELSE saved)
      BY <1>6 DEF Setting!Restore
    <2>3. kernel' \in {0, 1} /\ (Unapplied => kernel' = own)
      BY <1>0, <2>2 DEF SettingTyped, Setting!OwnSettingRemembered, Unapplied
    <2> QED
      BY <1>0, <2>1, <2>2, <2>3, SettingCommand DEF SettingTyped
  <1>7. CASE Setting!ClearConf
    <2>1. /\ Setting!At("clearConf")
          /\ \/ goal = "client" /\ n = 2
             \/ goal = "uninstall" /\ n = 3
      BY <1>2, <1>7, SettingWhere DEF Setting!ClearConf
    <2>2. kernel' = kernel /\ conf' = FALSE /\ saved' = saved
      BY <1>7 DEF Setting!ClearConf
    <2>3. CASE goal = "client" /\ n = 2
      <3>1. saved = Missing /\ (Unapplied => kernel = own)
        BY <1>0, <2>3 DEF ClientAt
      <3> QED
        BY <1>0, <2>1, <2>2, <2>3, <3>1, SettingCommand DEF SettingTyped
    <2>4. CASE goal = "uninstall" /\ n = 3
      <3>1. Unapplied => kernel = own
        BY <1>0, <2>4 DEF UninstallAt
      <3>2. ~(n <= 2) /\ goal # "gateway" /\ goal # "client" /\ conf' = FALSE
        BY <2>2, <2>4
      <3>3. /\ saved' \in {0, 1, Torn, Missing} /\ kernel' \in {0, 1}
            /\ Unapplied => saved' \in {own, Torn, Missing}
        BY <1>0, <2>2 DEF SettingTyped
      <3> HIDE DEF n
      <3>4. Setting!At("clearConf") /\ saved' = saved /\ kernel' = kernel
        BY <2>1, <2>2
      <3> QED
        BY <3>1, <3>2, <3>3, <3>4, SettingCommand DEF n
    <2> QED
      BY <2>1, <2>3, <2>4
  <1>8. CASE Setting!ClearSaved
    <2>1. /\ Setting!At("clearSaved")
          /\ \/ goal = "client" /\ n = 3
             \/ goal = "uninstall" /\ n = 2
      BY <1>2, <1>8, SettingWhere DEF Setting!ClearSaved
    <2>2. kernel' = kernel /\ conf' = conf /\ saved' = Missing
      BY <1>8 DEF Setting!ClearSaved
    <2>3. CASE goal = "client" /\ n = 3
      <3>1. Unapplied => kernel = own
        BY <1>0, <2>3 DEF ClientAt
      <3> QED
        BY <1>0, <2>1, <2>2, <2>3, <3>1, SettingCommand DEF SettingTyped
    <2>4. CASE goal = "uninstall" /\ n = 2
      <3>1. ~conf /\ (Unapplied => kernel = own)
        BY <1>0, <2>4 DEF UninstallAt
      <3> QED
        BY <1>0, <2>1, <2>2, <2>4, <3>1, SettingCommand DEF SettingTyped
    <2> QED
      BY <2>1, <2>3, <2>4
  <1>9. CASE Setting!Other
    <2>1. /\ Setting!At("other")
          /\ \/ goal = "gateway" /\ n \in {1, 5}
             \/ goal \in {"client", "uninstall"} /\ n = 1
      BY <1>2, <1>9, SettingWhere DEF Setting!Other
    <2>2. kernel' = kernel /\ conf' = conf /\ saved' = saved
      BY <1>9 DEF Setting!Other
    <2>3. Unapplied => kernel = own \/ saved = own \/ saved = Torn
      BY <1>0 DEF Setting!OwnSettingRemembered, Unapplied
    <2>4. /\ goal = "gateway" => n \in {1, 5} /\ (n = 1 => saved # Missing /\ conf /\ kernel = 1)
          /\ goal \in {"client", "uninstall"} =>
                /\ Unapplied => kernel = own
                /\ ~conf /\ saved = Missing
      <3>1. /\ goal = "gateway" => /\ n <= 3 => saved # Missing
                                   /\ n <= 2 => conf
                                   /\ n <= 1 => kernel = 1
            /\ goal = "client" => /\ n <= 3 => (Unapplied => kernel = own)
                                  /\ n <= 2 => saved = Missing
                                  /\ n <= 1 => ~conf
            /\ goal = "uninstall" => /\ n <= 3 => (Unapplied => kernel = own)
                                     /\ n <= 2 => ~conf
                                     /\ n <= 1 => saved = Missing
        BY <1>0, Zenon DEF GatewayAt, ClientAt, UninstallAt
      <3> HIDE DEF n
      <3> QED
        BY <2>1, <3>1
    <2>5. /\ goal = "gateway" => /\ n <= 4 => saved' # Missing
                                 /\ n <= 3 => conf'
                                 /\ n <= 2 => kernel' = 1
          /\ goal \in {"client", "uninstall"} =>
                /\ Unapplied => kernel' = own
                /\ ~conf' /\ saved' = Missing
      <3> HIDE DEF n
      <3> QED
        BY <2>2, <2>4
    <2> QED
      BY <1>0, <2>1, <2>2, <2>3, <2>5, SettingCommand DEF SettingTyped
  <1>10. CASE Setting!Finish
    <2>1. /\ goal # "none" /\ steps = <<>> /\ result' = goal /\ goal' = "none" /\ own' = own
          /\ kernel' = kernel /\ saved' = saved /\ conf' = conf /\ steps' = steps
          /\ losses' = losses
      BY <1>10 DEF Setting!Finish
    <2>2. SettingTyped' /\ GatewayAt' /\ ClientAt' /\ UninstallAt'
      BY <1>0, <2>1 DEF SettingTyped, GatewayAt, ClientAt, UninstallAt, Unapplied
    <2>3. Len(steps) = 0
      BY <2>1
    <2>4. Setting!ForwardingFollowsRole'
      BY <1>0, <2>1, <2>3
      DEF GatewayAt, ClientAt, UninstallAt, Setting!ForwardingFollowsRole, Unapplied
    <2>5. Setting!OwnSettingRemembered'
      BY <1>0, <2>1 DEF Setting!OwnSettingRemembered, Setting!Unlinking
    <2> QED
      BY <2>2, <2>4, <2>5 DEF SettingInv
  <1>11. CASE Setting!Fault
    <2>1. /\ saved' = saved \/ (saved' = Torn /\ saved = Missing)
          /\ goal' = "none" /\ steps' = <<>> /\ result' = "fault" /\ own' = own
          /\ kernel' = kernel /\ (conf' = conf \/ conf' = FALSE)
          /\ losses' = losses \cup (IF saved' # saved THEN {"torn"} ELSE {})
                              \cup (IF Setting!Unlinking THEN {"unlinked"} ELSE {})
      BY <1>11 DEF Setting!Fault
    <2>2. /\ losses \subseteq losses' /\ ("applied" \in losses' <=> "applied" \in losses)
          /\ saved' # saved => "torn" \in losses'
          /\ Setting!Unlinking => "unlinked" \in losses'
      BY <2>1
    <2>3. SettingTyped'
      BY <1>0, <2>1, <2>2, EmptySeq DEF SettingTyped, Unapplied
    <2>4. GatewayAt' /\ ClientAt' /\ UninstallAt'
      BY <2>1 DEF GatewayAt, ClientAt, UninstallAt
    <2>5. Setting!OwnSettingRemembered'
      BY <1>0, <2>1, <2>2 DEF Setting!OwnSettingRemembered
    <2>6. Setting!ForwardingFollowsRole'
      BY <2>1 DEF Setting!ForwardingFollowsRole
    <2> QED
      BY <2>3, <2>4, <2>5, <2>6 DEF SettingInv
  <1>12. CASE Setting!Boot
    <2>1. /\ kernel' = (IF conf THEN 1 ELSE own) /\ goal' = "none" /\ steps' = <<>>
          /\ result' = "none" /\ own' = own /\ saved' = saved /\ conf' = conf
          /\ losses' = losses
                          \cup (IF Setting!Unlinking THEN {"unlinked"} ELSE {})
                          \cup (IF conf /\ saved = Missing THEN {"applied"} ELSE {})
      BY <1>12 DEF Setting!Boot
    <2>2. /\ losses \subseteq losses'
          /\ "applied" \in losses' <=> "applied" \in losses \/ (conf /\ saved = Missing)
          /\ Setting!Unlinking => "unlinked" \in losses'
      BY <2>1
    <2>3. SettingTyped'
      BY <1>0, <2>1, <2>2, EmptySeq DEF SettingTyped, Unapplied
    <2>4. GatewayAt' /\ ClientAt' /\ UninstallAt'
      BY <2>1 DEF GatewayAt, ClientAt, UninstallAt
    <2>5. conf /\ saved = Missing => "unlinked" \in losses'
      BY <1>0, <2>2 DEF Setting!OwnSettingRemembered
    <2>6. "applied" \notin losses' => \/ kernel' = own \/ saved' = own
                                      \/ saved' = Torn /\ "torn" \in losses'
      BY <1>0, <2>1, <2>2 DEF SettingTyped, Unapplied
    <2>7. Setting!OwnSettingRemembered'
      BY <1>0, <2>1, <2>2, <2>5, <2>6 DEF Setting!OwnSettingRemembered
    <2>8. Setting!ForwardingFollowsRole'
      BY <2>1 DEF Setting!ForwardingFollowsRole
    <2> QED
      BY <2>3, <2>4, <2>7, <2>8 DEF SettingInv
  <1> QED
    BY <1>1, <1>3, <1>4, <1>5, <1>6, <1>7, <1>8, <1>9, <1>10, <1>11, <1>12
    DEF Setting!Next


----------------------------------------------------------------------------
(***************************************************************************)
(* The log: the numbers of the pieces tell which ones the two generations  *)
(* hold; f.size matters from the open of the file to its close and through *)
(* a rotation.                                                             *)
(***************************************************************************)
LogPiece == [n : Nat, end : Nat \ {0}]

LogTyped ==
    /\ active \in Seq(LogPiece) /\ previous \in Seq(LogPiece)
    /\ pieces \in Nat /\ size \in Nat /\ line \in Nat
    /\ open \in BOOLEAN /\ failed \in BOOLEAN

Numbered ==
    /\ \A i \in 1 .. Len(active) : active[i].n = pieces - Len(active) + i
    /\ \A i \in 1 .. Len(previous) :
          previous[i].n = pieces - Len(active) - Len(previous) + i

SizeInv == open \/ pc # "idle" => size >= Log!Bytes(active)

\* After a rotation the file is empty or could not be renamed, and before a
\* write that did not need one the line fits.
FitsInv ==
    /\ pc = "reopen" => active = <<>> \/ failed
    /\ pc = "write" => active = <<>> \/ failed \/ Log!Bytes(active) + line <= Limit

LogInv == LogTyped /\ Numbered /\ SizeInv /\ FitsInv /\ Log!GenerationBounded

(* The length of a file: none at first, and as the last write left it.      *)
LEMMA BytesOf ==
    ASSUME NEW g \in Seq(LogPiece)
    PROVE  /\ Log!Bytes(g) \in Nat
           /\ g = <<>> => Log!Bytes(g) = 0
           /\ g # <<>> => Log!Bytes(g) > 0
           /\ \A x \in LogPiece : Log!Bytes(Append(g, x)) = x.end
  <1>0. ASSUME NEW x \in LogPiece PROVE Log!Bytes(Append(g, x)) = x.end
    <2> DEFINE h == Append(g, x)
    <2>1. Len(h) = Len(g) + 1 /\ h[Len(g) + 1] = x /\ Len(g) \in Nat /\ h \in Seq(LogPiece)
      BY AppendProperties
    <2> HIDE DEF h
    <2>2. h # <<>> /\ h[Len(h)] = x
      BY <2>1
    <2>3. Log!Bytes(h) = x.end
      BY <2>2 DEF Log!Bytes
    <2> QED
      BY <2>3 DEF h
  <1>1. CASE g = <<>>
    BY <1>0, <1>1 DEF Log!Bytes
  <1>2. CASE g # <<>>
    <2>1. Len(g) \in Nat /\ Len(g) > 0 /\ g[Len(g)] \in LogPiece
      BY <1>2, EmptySeq
    <2>2. g[Len(g)].end \in Nat /\ g[Len(g)].end > 0
      BY <2>1 DEF LogPiece
    <2> QED
      BY <1>0, <1>2, <2>2 DEF Log!Bytes
  <1> QED
    BY <1>1, <1>2

(* A new log.                                                               *)
LEMMA LogInit == Log!Init => LogInv
  <1> SUFFICES ASSUME Log!Init PROVE LogInv
    OBVIOUS
  <1>1. /\ active = <<>> /\ previous = <<>> /\ pieces = 0 /\ open = FALSE /\ size = 0
        /\ pc = "idle" /\ line = 0 /\ failed = FALSE
    BY DEF Log!Init
  <1>2. LogTyped
    BY <1>1, EmptySeq DEF LogTyped
  <1>3. Log!Bytes(active) = 0
    BY <1>1 DEF Log!Bytes
  <1>4. Numbered
    BY <1>1 DEF Numbered
  <1>5. SizeInv /\ FitsInv
    BY <1>1, <1>3 DEF SizeInv, FitsInv
  <1>6. Log!GenerationBounded
    BY <1>3, PartsAssumption DEF Log!GenerationBounded, Log!LimitAssumption
  <1> QED
    BY <1>2, <1>4, <1>5, <1>6 DEF LogInv

(* A step that writes and moves nothing.                                    *)
LEMMA LogKeepsFiles ==
    ASSUME LogInv, active' = active, previous' = previous, pieces' = pieces, failed => failed',
           size' \in Nat, line' \in Nat, open' \in BOOLEAN, failed' \in BOOLEAN,
           SizeInv', FitsInv'
    PROVE  LogInv'
  <1>1. LogTyped'
    BY DEF LogInv, LogTyped
  <1>2. Numbered'
    BY DEF LogInv, Numbered
  <1>3. Log!GenerationBounded'
    BY DEF LogInv, Log!GenerationBounded
  <1> QED
    BY <1>1, <1>2, <1>3 DEF LogInv

(* Opening, closing, every step of a rotation and of a write, and the end   *)
(* of the process at any of them.                                           *)
LEMMA LogStep == LogInv /\ Log!Next => LogInv'
  <1> SUFFICES ASSUME LogInv, Log!Next PROVE LogInv'
    OBVIOUS
  <1> DEFINE b == Log!Bytes(active)
  <1>0. /\ LogTyped /\ Numbered /\ SizeInv /\ FitsInv /\ Log!GenerationBounded
        /\ Limit \in Nat /\ Lengths \subseteq Nat
    BY PartsAssumption DEF LogInv, Log!LimitAssumption, Log!LengthsAssumption
  <1>00. b \in Nat /\ (active = <<>> => b = 0) /\ (active # <<>> => b > 0)
    BY <1>0, BytesOf DEF LogTyped
  <1>1. CASE Log!LogOutput
    <2>1. /\ active' = active /\ previous' = previous /\ pieces' = pieces /\ failed' = failed
          /\ pc' = pc /\ line' = line
          /\ \/ open' = TRUE /\ size' = b
             \/ open' = open /\ size' = size
      BY <1>1 DEF Log!LogOutput, Log!files
    <2>2. SizeInv' /\ FitsInv' /\ size' \in Nat /\ open' \in BOOLEAN
      <3>1. Log!Bytes(active)' = b
        BY <2>1
      <3>2. (open \/ pc # "idle" => size >= b) /\ size \in Nat /\ open \in BOOLEAN
        BY <1>0 DEF SizeInv, LogTyped
      <3> HIDE DEF b
      <3>3. SizeInv' /\ size' \in Nat /\ open' \in BOOLEAN
        <4>1. CASE open' = TRUE /\ size' = b
          <5>1. size' >= b
            BY <1>00, <4>1
          <5> QED
            BY <1>00, <3>1, <4>1, <5>1 DEF SizeInv
        <4>2. CASE open' = open /\ size' = size
          BY <2>1, <3>1, <3>2, <4>2 DEF SizeInv
        <4> QED
          BY <2>1, <4>1, <4>2
      <3>4. FitsInv'
        BY <1>0, <2>1 DEF FitsInv
      <3> QED
        BY <3>3, <3>4
    <2> QED
      BY <1>0, <2>1, <2>2, LogKeepsFiles DEF LogTyped
  <1>2. CASE Log!Exit
    <2>1. /\ active' = active /\ previous' = previous /\ pieces' = pieces /\ failed' = failed
          /\ pc' = "idle" /\ line' = 0 /\ open' = FALSE /\ size' = 0
      BY <1>2 DEF Log!Exit, Log!files
    <2>2. SizeInv' /\ FitsInv'
      BY <2>1 DEF SizeInv, FitsInv
    <2> QED
      BY <1>0, <2>1, <2>2, LogKeepsFiles DEF LogTyped
  <1>3. CASE Log!Close
    <2>1. /\ active' = active /\ previous' = previous /\ pieces' = pieces /\ failed' = failed
          /\ pc = "idle" /\ pc' = pc /\ line' = line /\ open' = FALSE /\ size' = size
      BY <1>3 DEF Log!Close, Log!files
    <2>2. SizeInv' /\ FitsInv'
      BY <2>1 DEF SizeInv, FitsInv
    <2> QED
      BY <1>0, <2>1, <2>2, LogKeepsFiles DEF LogTyped
  <1>4. ASSUME NEW len \in Lengths, Log!Write(len) PROVE LogInv'
    <2>1. /\ active' = active /\ previous' = previous /\ pieces' = pieces /\ failed' = failed
          /\ open /\ open' = open /\ size' = size /\ line' = len /\ len \in Nat
          /\ pc' = IF size > 0 /\ size + len > Limit THEN "close" ELSE "write"
      BY <1>0, <1>4 DEF Log!Write, Log!files
    <2>2. size >= b /\ size \in Nat /\ SizeInv'
      BY <1>0, <2>1 DEF SizeInv, LogTyped
    <2> HIDE DEF b
    <2>3. pc' = "write" => active = <<>> \/ b + len <= Limit
      BY <1>0, <1>00, <2>1, <2>2
    <2>4. FitsInv'
      BY <2>1, <2>3 DEF FitsInv, b
    <2> QED
      BY <1>0, <2>1, <2>2, <2>4, LogKeepsFiles DEF LogTyped
  <1>5. CASE Log!RotateClose
    <2>1. /\ active' = active /\ previous' = previous /\ pieces' = pieces
          /\ pc = "close" /\ line' = line /\ open' = FALSE /\ size' = size
          /\ \/ pc' = "remove" /\ failed' = failed
             \/ pc' = "reopen" /\ failed' = TRUE
      BY <1>5 DEF Log!RotateClose, Log!files
    <2>2. SizeInv' /\ FitsInv'
      BY <1>0, <2>1 DEF SizeInv, FitsInv
    <2> QED
      BY <1>0, <2>1, <2>2, LogKeepsFiles DEF LogTyped
  <1>6. CASE Log!RotateRemove
    <2>1. /\ active' = active /\ pieces' = pieces /\ failed' = failed
          /\ pc = "remove" /\ pc' = "rename" /\ line' = line /\ open' = open /\ size' = size
          /\ previous' = <<>> \/ previous' = previous
      BY <1>6 DEF Log!RotateRemove
    <2>2. LogTyped'
      BY <1>0, <2>1, EmptySeq DEF LogTyped
    <2>3. Numbered'
      <3>1. CASE previous' = <<>>
        <4>1. \A i \in 1 .. Len(active) : active[i].n = pieces - Len(active) + i
          BY <1>0 DEF Numbered
        <4>2. Len(previous') = 0
          BY <3>1
        <4> QED
          BY <2>1, <4>1, <4>2 DEF Numbered
      <3>2. CASE previous' = previous
        BY <1>0, <2>1, <3>2 DEF Numbered
      <3> QED
        BY <2>1, <3>1, <3>2
    <2>4. SizeInv' /\ FitsInv' /\ Log!GenerationBounded'
      BY <1>0, <2>1 DEF SizeInv, FitsInv, Log!GenerationBounded
    <2> QED
      BY <2>2, <2>3, <2>4 DEF LogInv
  <1>7. CASE Log!RotateRename
    <2>1. /\ pc = "rename" /\ pc' = "reopen" /\ pieces' = pieces /\ open' = open
          /\ size' = size /\ line' = line
          /\ \/ previous' = active /\ active' = <<>> /\ failed' = FALSE
             \/ previous' = previous /\ active' = active /\ failed' = TRUE
      BY <1>7 DEF Log!RotateRename
    <2>2. CASE previous' = active /\ active' = <<>> /\ failed' = FALSE
      <3>1. LogTyped'
        BY <1>0, <2>1, <2>2, EmptySeq DEF LogTyped
      <3>2. Log!Bytes(active)' = 0 /\ Len(active') = 0
        BY <2>2 DEF Log!Bytes
      <3>3. Numbered'
        <4>1. \A i \in 1 .. Len(active) : active[i].n = pieces - Len(active) + i
          BY <1>0 DEF Numbered
        <4>2. Len(active) \in Nat /\ pieces \in Nat
          BY <1>0 DEF LogTyped
        <4>3. \A i \in 1 .. Len(active) : active[i].n = pieces - 0 - Len(active) + i
          BY <4>1, <4>2
        <4> QED
          BY <2>1, <2>2, <3>2, <4>3 DEF Numbered
      <3>4. SizeInv' /\ FitsInv' /\ Log!GenerationBounded'
        BY <1>0, <2>1, <2>2, <3>2 DEF LogTyped, SizeInv, FitsInv, Log!GenerationBounded
      <3> QED
        BY <3>1, <3>3, <3>4 DEF LogInv
    <2>3. CASE previous' = previous /\ active' = active /\ failed' = TRUE
      <3>1. SizeInv' /\ FitsInv'
        BY <1>0, <2>1, <2>3 DEF SizeInv, FitsInv
      <3> QED
        BY <1>0, <2>1, <2>3, <3>1, LogKeepsFiles DEF LogTyped
    <2> QED
      BY <2>1, <2>2, <2>3
  <1>8. CASE Log!RotateReopen
    <2>1. /\ active' = active /\ previous' = previous /\ pieces' = pieces /\ failed' = failed
          /\ pc = "reopen"
          /\ \/ open' = TRUE /\ pc' = "write" /\ size' \in {b, size} /\ line' = line
             \/ pc' = "idle" /\ line' = 0 /\ open' = open /\ size' = size
      BY <1>8 DEF Log!RotateReopen, Log!files
    <2>2. SizeInv' /\ size' \in Nat /\ open' \in BOOLEAN /\ line' \in Nat
      <3>1. Log!Bytes(active)' = b
        BY <2>1
      <3>2. size >= b /\ size \in Nat /\ open \in BOOLEAN /\ line \in Nat
        BY <1>0, <2>1 DEF SizeInv, LogTyped
      <3> HIDE DEF b
      <3>3. size' \in Nat /\ size' >= b /\ open' \in BOOLEAN /\ line' \in Nat
        <4>1. CASE open' = TRUE /\ size' \in {b, size} /\ line' = line
          BY <1>00, <3>2, <4>1
        <4>2. CASE line' = 0 /\ open' = open /\ size' = size
          BY <3>2, <4>2
        <4> QED
          BY <2>1, <4>1, <4>2
      <3> QED
        BY <3>1, <3>3 DEF SizeInv
    <2>3. FitsInv'
      BY <1>0, <2>1 DEF FitsInv
    <2> QED
      BY <1>0, <2>1, <2>2, <2>3, LogKeepsFiles DEF LogTyped
  <1>9. CASE Log!WriteFile
    <2>1. /\ pc = "write" /\ pc' = "idle" /\ line' = 0 /\ previous' = previous /\ open' = open
          /\ failed' = failed
      BY <1>9 DEF Log!WriteFile
    <2>2. CASE active' = active /\ pieces' = pieces /\ size' = size
      <3>1. SizeInv' /\ FitsInv'
        BY <1>0, <2>1, <2>2 DEF SizeInv, FitsInv
      <3> QED
        BY <1>0, <2>1, <2>2, <3>1, LogKeepsFiles DEF LogTyped
    <2>3. ASSUME NEW k \in 1 .. line,
                 active' = Append(active, [n |-> pieces + 1, end |-> b + k]),
                 pieces' = pieces + 1, size' = size + k
          PROVE  LogInv'
      <3> DEFINE x == [n |-> pieces + 1, end |-> b + k]
      <3>1. k \in Nat /\ k > 0 /\ line \in Nat /\ k <= line /\ pieces \in Nat /\ size \in Nat
        BY <1>0, <2>3 DEF LogTyped
      <3> HIDE DEF b
      <3>2. x \in LogPiece /\ x.n = pieces + 1 /\ x.end = b + k
        BY <1>00, <3>1 DEF LogPiece
      <3> HIDE DEF x
      <3>3. active' = Append(active, x) /\ active \in Seq(LogPiece)
        BY <1>0, <2>3 DEF x, LogTyped
      <3>4. Log!Bytes(active)' = b + k
        BY <3>2, <3>3, BytesOf
      <3>5. /\ active' \in Seq(LogPiece) /\ Len(active') = Len(active) + 1 /\ Len(active) \in Nat
            /\ active'[Len(active) + 1] = x /\ \A i \in 1 .. Len(active) : active'[i] = active[i]
        BY <3>2, <3>3, AppendProperties
      <3>6. LogTyped'
        BY <1>0, <2>1, <2>3, <3>1, <3>5 DEF LogTyped
      <3>7. Numbered'
        <4> DEFINE l == Len(active)
                   m == Len(previous)
        <4>1. /\ \A i \in 1 .. l : active[i].n = pieces - l + i
              /\ \A i \in 1 .. m : previous[i].n = pieces - l - m + i
              /\ l \in Nat /\ m \in Nat
          BY <1>0 DEF Numbered, LogTyped
        <4>2. Len(active') = l + 1 /\ active'[l + 1] = x /\ \A i \in 1 .. l : active'[i] = active[i]
          BY <3>5
        <4> HIDE DEF l, m
        <4>3. ASSUME NEW i \in 1 .. l + 1 PROVE active'[i].n = (pieces + 1) - (l + 1) + i
          BY <3>1, <3>2, <4>1, <4>2
        <4>4. ASSUME NEW i \in 1 .. m PROVE previous[i].n = (pieces + 1) - (l + 1) - m + i
          BY <3>1, <4>1
        <4> QED
          BY <2>1, <2>3, <4>2, <4>3, <4>4 DEF Numbered, m
      <3>8. SizeInv' /\ FitsInv'
        BY <1>0, <1>00, <2>1, <2>3, <3>1, <3>4 DEF SizeInv, FitsInv, b
      <3>9. Log!GenerationBounded'
        <4>1. active = <<>> \/ failed \/ b + line <= Limit
          BY <1>0, <2>1 DEF FitsInv, b
        <4>2. CASE active = <<>>
          <5>1. Len(active') = 1
            BY <3>5, <4>2
          <5> QED
            BY <5>1 DEF Log!GenerationBounded
        <4>3. CASE failed
          BY <2>1, <4>3 DEF Log!GenerationBounded
        <4>4. CASE b + line <= Limit
          <5>1. b + k <= Limit
            BY <1>0, <1>00, <3>1, <4>4
          <5>2. ~(b + k > Limit)
            BY <1>0, <1>00, <3>1, <5>1
          <5> QED
            BY <3>4, <5>2 DEF Log!GenerationBounded
        <4> QED
          BY <4>1, <4>2, <4>3, <4>4
      <3> QED
        BY <3>6, <3>7, <3>8, <3>9 DEF LogInv
    <2> QED
      BY <1>9, <2>2, <2>3 DEF Log!WriteFile
  <1> QED
    BY <1>1, <1>2, <1>3, <1>4, <1>5, <1>6, <1>7, <1>8, <1>9 DEF Log!Next

(* The invariant gives what the log promises.                               *)
LEMMA LogPromise == LogInv => LogKeepsLatest
  <1> SUFFICES ASSUME LogInv PROVE LogKeepsLatest
    OBVIOUS
  <1> DEFINE kept == previous \o active
             l == Len(active)
             m == Len(previous)
  <1>1. previous \in Seq(LogPiece) /\ active \in Seq(LogPiece) /\ pieces \in Nat
    BY DEF LogInv, LogTyped
  <1>2. l \in Nat /\ m \in Nat
    BY <1>1
  <1>3. /\ kept \in Seq(LogPiece) /\ Len(kept) = m + l
        /\ \A i \in 1 .. m + l : kept[i] = IF i <= m THEN previous[i] ELSE active[i - m]
    BY <1>1, ConcatProperties, Zenon
  <1>4. /\ \A i \in 1 .. l : active[i].n = pieces - l + i
        /\ \A i \in 1 .. m : previous[i].n = pieces - l - m + i
    BY DEF LogInv, Numbered
  <1>5. DOMAIN kept = 1 .. Len(kept)
    BY <1>3
  <1> HIDE DEF kept, l, m
  <1>6. ASSUME NEW i \in 1 .. m + l PROVE kept[i].n = pieces - (m + l) + i
    <2>1. CASE i <= m
      <3>1. i \in 1 .. m
        BY <1>2, <2>1
      <3> QED
        BY <1>1, <1>2, <1>3, <1>4, <2>1, <3>1
    <2>2. CASE ~(i <= m)
      <3>1. i - m \in 1 .. l /\ pieces - l + (i - m) = pieces - (m + l) + i
        BY <1>1, <1>2, <2>2
      <3> QED
        BY <1>3, <1>4, <2>2, <3>1
    <2> QED
      BY <2>1, <2>2
  <1>7. Log!KeepsLatestLines
    BY <1>3, <1>5, <1>6 DEF Log!KeepsLatestLines, kept
  <1>8. Log!SizeNotBehind /\ Log!GenerationBounded
    BY DEF LogInv, SizeInv, Log!SizeNotBehind
  <1> QED
    BY <1>7, <1>8 DEF LogKeepsLatest


----------------------------------------------------------------------------
(***************************************************************************)
(* The packet filter: the commands `up` has left tell which rules the      *)
(* chains hold and whether they are jumped to.                             *)
(***************************************************************************)
Command ==
    [op : {"new", "delete", "flush", "hook", "unhook"}, table : Rules!Tables]
        \cup [op : {"append"}, table : Rules!Tables, rule : Rules!Rules]

DownBack ==
    <<Rules!Cmd("delete", "nat"), Rules!Cmd("flush", "nat"),
      Rules!Cmd("delete", "filter"), Rules!Cmd("flush", "filter"),
      Rules!Cmd("unhook", "nat"), Rules!Cmd("unhook", "filter")>>

\* `up` read backwards, the destinations between the fixed commands.
UpLast(r) ==
    CASE r = 1 -> Rules!Cmd("hook", "nat")
      [] r = 2 -> Rules!Cmd("hook", "filter")
      [] r = 3 -> Rules!Add("nat", "return")
      [] r = 4 -> Rules!Add("filter", "return")
      [] r = 5 -> Rules!Add("filter", "reject")
UpFirst(r) ==
    CASE r = 1 -> Rules!Add("filter", "replies")
      [] r = 2 -> Rules!Cmd("new", "nat")
      [] r = 3 -> Rules!Cmd("new", "filter")
      [] OTHER -> DownBack[r - 3]
UpBack ==
    [r \in 1 .. 2 * Len(env) + 14 |->
        IF r <= 5 THEN UpLast(r)
        ELSE IF r <= 2 * Len(env) + 5 THEN Rules!PerDestination[2 * Len(env) + 6 - r]
        ELSE UpFirst(r - (2 * Len(env) + 5))]

\* The complete chains.
FilterRules == <<"replies">> \o env \o <<"reject", "return">>
NatRules    == env \o <<"return">>

\* How many of their rules are there when `up` has r commands left, with n
\* destinations.
FilterLen(n, r) ==
    IF r >= 2 * n + 6 THEN 0
    ELSE IF r >= 5 THEN 1 + ((2 * n + 6 - r) \div 2)
    ELSE IF r = 4 THEN n + 2 ELSE n + 3
NatLen(n, r) ==
    IF r >= 2 * n + 5 THEN 0
    ELSE IF r >= 5 THEN (2 * n + 5 - r) \div 2
    ELSE IF r >= 3 THEN n ELSE n + 1

StartOf(s, f, k) == Len(s) = k /\ \A i \in 1 .. k : s[i] = f[i]

RulesTyped ==
    /\ env \in Rules!Destinations /\ env \in Seq(Networks)
    /\ chain \in [Rules!Tables -> [made : BOOLEAN, rules : Seq(Rules!Rules)]]
    /\ jumps \in [Rules!Tables -> Nat]
    /\ todo \in Seq(Command)
    /\ verb \in {"none", "up", "down"}
    /\ faults \in Nat
    /\ \A t \in Rules!Tables : ~chain[t].made => chain[t] = Rules!NoChain
    /\ verb = "none" => todo = <<>>
    /\ verb # "none" => exit = "none"

UpState(r) ==
    /\ r >= 2 /\ r <= 2 * Len(env) + 13 => jumps["filter"] = 0
    /\ r >= 1 /\ r <= 2 * Len(env) + 12 => jumps["nat"] = 0
    /\ r <= 1 => jumps["filter"] = 1
    /\ r = 0 => jumps["nat"] = 1
    /\ r <= 2 * Len(env) + 7 =>
          StartOf(chain["filter"].rules, FilterRules, FilterLen(Len(env), r))
    /\ r <= 2 * Len(env) + 6 =>
          StartOf(chain["nat"].rules, NatRules, NatLen(Len(env), r))

DownState(r) ==
    /\ r <= 5 => jumps["filter"] = 0
    /\ r <= 4 => jumps["nat"] = 0
    /\ faults = 0 => /\ r <= 3 => chain["filter"].rules = <<>>
                     /\ r <= 2 => chain["filter"] = Rules!NoChain
                     /\ r <= 1 => chain["nat"].rules = <<>>
                     /\ r = 0 => chain["nat"] = Rules!NoChain

UpAt ==
    verb = "up" =>
        /\ Len(todo) <= 2 * Len(env) + 14 /\ Remaining(todo, UpBack) /\ UpState(Len(todo))
DownAt ==
    verb = "down" =>
        /\ Len(todo) <= 6 /\ Remaining(todo, DownBack) /\ DownState(Len(todo))

RulesInv ==
    /\ RulesTyped /\ UpAt /\ DownAt
    /\ Rules!HookedIsConfined /\ Rules!UpIsExact /\ Rules!DownUnhooks

(* WSN_DESTINATIONS is a sequence of networks.                              *)
LEMMA DestinationsTyped == \A d \in Rules!Destinations : d \in Seq(Networks)
  <1> SUFFICES ASSUME NEW d \in Rules!Destinations PROVE d \in Seq(Networks)
    OBVIOUS
  <1>1. PICK n \in 0 .. Rules!Cardinality(Networks) : d \in [1 .. n -> Networks]
    BY Zenon DEF Rules!Destinations
  <1>2. Rules!IsFiniteSet(Networks) = IsFiniteSet(Networks)
    BY Zenon DEF Rules!IsFiniteSet, IsFiniteSet
  <1>3. Rules!Cardinality(Networks) = Cardinality(Networks)
    BY Zenon DEF Rules!Cardinality, Cardinality, Rules!IsFiniteSet, IsFiniteSet
  <1>4. Cardinality(Networks) \in Nat
    BY PartsAssumption, FS_CardinalityType, <1>2 DEF Rules!NetworksAssumption
  <1>5. n \in Nat
    BY <1>3, <1>4
  <1> QED
    BY <1>1, <1>5, SeqDef, Zenon

(* The list of commands of `down`.                                          *)
LEMMA DownBegins ==
    /\ Rules!DownCommands \in Seq(Command) /\ Len(Rules!DownCommands) = 6
    /\ Remaining(Rules!DownCommands, DownBack)
  <1>1. \A x \in {"new", "delete", "flush", "hook", "unhook"}, t \in {"filter", "nat"} :
            Rules!Cmd(x, t) \in Command
    BY DEF Rules!Cmd, Command, Rules!Tables
  <1>2. Rules!DownCommands \in Seq(Command) /\ Len(Rules!DownCommands) = 6
    BY <1>1 DEF Rules!DownCommands
  <1>3. Remaining(Rules!DownCommands, DownBack)
    BY DEF Remaining, Rules!DownCommands, DownBack
  <1> QED
    BY <1>2, <1>3

(* What one command does to the chains and to the jumps.                    *)
LEMMA CommandEffect ==
    ASSUME RulesTyped, NEW c \in Command, Rules!Possible(c), Rules!Effect(c)
    PROVE  /\ chain' \in [Rules!Tables -> [made : BOOLEAN, rules : Seq(Rules!Rules)]]
           /\ jumps' \in [Rules!Tables -> Nat]
           /\ \A t \in Rules!Tables : ~chain'[t].made => chain'[t] = Rules!NoChain
           /\ \A t \in Rules!Tables : t # c.table => chain'[t] = chain[t] /\ jumps'[t] = jumps[t]
           /\ c.table \in Rules!Tables
           /\ c.op \in {"hook", "unhook"} => chain' = chain
           /\ c.op \notin {"hook", "unhook"} => jumps' = jumps
           /\ c.op \in {"new", "flush"} => chain'[c.table].rules = <<>>
           /\ c.op = "delete" => chain'[c.table] = Rules!NoChain
           /\ c.op = "append" => chain'[c.table].rules = Append(chain[c.table].rules, c.rule)
           /\ c.op = "hook" => jumps'[c.table] = jumps[c.table] + 1
           /\ c.op = "unhook" =>
                 jumps'[c.table] = IF jumps[c.table] > 0 THEN jumps[c.table] - 1 ELSE jumps[c.table]
  <1> DEFINE u == c.table
             Chain == [made : BOOLEAN, rules : Seq(Rules!Rules)]
  <1>1. /\ u \in Rules!Tables
        /\ c.op \in {"new", "delete", "flush", "hook", "unhook", "append"}
        /\ c.op = "append" => c.rule \in Rules!Rules
    BY DEF Command
  <1>2. /\ chain \in [Rules!Tables -> Chain] /\ jumps \in [Rules!Tables -> Nat]
        /\ \A t \in Rules!Tables : ~chain[t].made => chain[t] = Rules!NoChain
    BY DEF RulesTyped
  <1>3. chain[u] \in Chain /\ jumps[u] \in Nat
    BY <1>1, <1>2
  <1>4. CASE c.op \in {"hook", "unhook"}
    <2>1. chain' = [chain EXCEPT ![u] = chain[u]]
      BY <1>4 DEF Rules!Effect
    <2>2. chain' = chain
      BY <1>2, <2>1
    <2>3. jumps' = [jumps EXCEPT ![u] = IF c.op = "hook" THEN jumps[u] + 1
                                        ELSE IF jumps[u] > 0 THEN jumps[u] - 1 ELSE jumps[u]]
      BY <1>4 DEF Rules!Effect
    <2> QED
      BY <1>1, <1>2, <1>3, <1>4, <2>2, <2>3
  <1>5. CASE c.op \notin {"hook", "unhook"}
    <2>1. jumps' = [jumps EXCEPT ![u] = jumps[u]]
      BY <1>5 DEF Rules!Effect
    <2>2. jumps' = jumps
      BY <1>2, <2>1
    <2>3. PICK x \in Chain :
            /\ chain' = [chain EXCEPT ![u] = x]
            /\ ~x.made => x = Rules!NoChain
            /\ c.op \in {"new", "flush"} => x.rules = <<>>
            /\ c.op = "delete" => x = Rules!NoChain
            /\ c.op = "append" => x.rules = Append(chain[u].rules, c.rule)
      <3>1. CASE c.op \in {"new", "flush"}
        <4>1. chain' = [chain EXCEPT ![u] = [made |-> TRUE, rules |-> <<>>]]
          BY <3>1 DEF Rules!Effect
        <4>2. [made |-> TRUE, rules |-> <<>>] \in Chain
          OBVIOUS
        <4> QED
          BY <3>1, <4>1, <4>2
      <3>2. CASE c.op = "delete"
        <4>1. chain' = [chain EXCEPT ![u] = Rules!NoChain]
          BY <3>2 DEF Rules!Effect
        <4>2. Rules!NoChain \in Chain
          BY DEF Rules!NoChain
        <4> QED
          BY <3>2, <4>1, <4>2
      <3>3. CASE c.op = "append"
        <4> DEFINE y == [made |-> TRUE, rules |-> Append(chain[u].rules, c.rule)]
        <4>1. chain' = [chain EXCEPT ![u] = y]
          BY <3>3 DEF Rules!Effect
        <4>2. chain[u].rules \in Seq(Rules!Rules)
          BY <1>3
        <4>3. Append(chain[u].rules, c.rule) \in Seq(Rules!Rules)
          BY <1>1, <3>3, <4>2
        <4>4. y \in Chain /\ y.made /\ y.rules = Append(chain[u].rules, c.rule)
          BY <4>3
        <4> HIDE DEF y
        <4> QED
          BY <3>3, <4>1, <4>4
      <3> QED
        BY <1>1, <1>5, <3>1, <3>2, <3>3
    <2>4. /\ chain' \in [Rules!Tables -> Chain] /\ chain'[u] = x
          /\ \A t \in Rules!Tables : t # u => chain'[t] = chain[t]
      BY <1>1, <1>2, <2>3
    <2> QED
      BY <1>1, <1>2, <1>5, <2>2, <2>3, <2>4
  <1> QED
    BY <1>4, <1>5


(* A rule appended is the next of the complete chain.                       *)
LEMMA OneMore ==
    ASSUME NEW S, NEW s \in Seq(S), NEW x \in S, NEW f, NEW k \in Nat,
           StartOf(s, f, k), x = f[k + 1]
    PROVE  StartOf(Append(s, x), f, k + 1)
  <1> DEFINE t == Append(s, x)
  <1>1. /\ Len(t) = Len(s) + 1 /\ t[Len(s) + 1] = x
        /\ \A i \in 1 .. Len(s) : t[i] = s[i]
    BY AppendProperties
  <1>2. Len(s) = k /\ \A i \in 1 .. k : s[i] = f[i]
    BY DEF StartOf
  <1> HIDE DEF t
  <1>3. ASSUME NEW i \in 1 .. k + 1 PROVE t[i] = f[i]
    <2>1. CASE i = k + 1
      BY <1>1, <1>2, <2>1
    <2>2. CASE i # k + 1
      <3>1. i \in 1 .. k
        BY <2>2
      <3> QED
        BY <1>1, <1>2, <3>1
    <2> QED
      BY <2>1, <2>2
  <1>4. StartOf(t, f, k + 1)
    BY <1>1, <1>2, <1>3 DEF StartOf
  <1> QED
    BY <1>4 DEF t

(* Where the commands of the destinations stand: the odd ones add to the    *)
(* filter chain and the even ones to the nat chain.                         *)
LEMMA ChainLengths ==
    ASSUME NEW n \in Nat, NEW r \in Nat
    PROVE  /\ FilterLen(n, r) \in Nat /\ NatLen(n, r) \in Nat
           /\ r >= 2 * n + 7 => FilterLen(n, r - 1) = 0
           /\ r >= 2 * n + 6 => NatLen(n, r - 1) = 0
           /\ r = 2 * n + 6 => FilterLen(n, r) = 0 /\ FilterLen(n, r - 1) = 1
           /\ r = 5 => /\ FilterLen(n, r) = n + 1 /\ FilterLen(n, r - 1) = n + 2
                       /\ NatLen(n, r) = n /\ NatLen(n, r - 1) = n
           /\ r = 4 => /\ FilterLen(n, r) = n + 2 /\ FilterLen(n, r - 1) = n + 3
                       /\ NatLen(n, r) = n /\ NatLen(n, r - 1) = n
           /\ r = 3 => /\ FilterLen(n, r) = n + 3 /\ FilterLen(n, r - 1) = n + 3
                       /\ NatLen(n, r) = n /\ NatLen(n, r - 1) = n + 1
           /\ r < 3 => FilterLen(n, r) = n + 3 /\ NatLen(n, r) = n + 1
  BY SMT DEF FilterLen, NatLen

(* The same for the commands of the destinations.                           *)
LEMMA DestinationLengths ==
    ASSUME NEW n \in Nat, NEW r \in 6 .. 2 * n + 5
    PROVE  LET j == 2 * n + 6 - r
               i == (j + 1) \div 2
           IN  /\ j \in 1 .. 2 * n /\ i \in 1 .. n
               /\ j % 2 = 1 => /\ FilterLen(n, r) = i /\ FilterLen(n, r - 1) = i + 1
                               /\ NatLen(n, r - 1) = NatLen(n, r)
               /\ j % 2 # 1 => /\ NatLen(n, r) = i - 1 /\ NatLen(n, r - 1) = i
                               /\ FilterLen(n, r - 1) = FilterLen(n, r)
  <1> DEFINE j == 2 * n + 6 - r
             i == (j + 1) \div 2
  <1>1. j \in 1 .. 2 * n
    OBVIOUS
  <1>2. /\ FilterLen(n, r) = 1 + (j \div 2)
        /\ FilterLen(n, r - 1) = 1 + ((j + 1) \div 2)
        /\ NatLen(n, r) = (j - 1) \div 2
        /\ NatLen(n, r - 1) = j \div 2
    BY SMT DEF FilterLen, NatLen
  <1> HIDE DEF j
  <1>3. i \in 1 .. n
    BY <1>1, SMT
  <1>4. CASE j % 2 = 1
    <2>1. j \div 2 = i - 1 /\ (j - 1) \div 2 = j \div 2
      BY <1>1, <1>4, SMT
    <2>2. (j + 1) \div 2 = i /\ i \in Int
      BY <1>3
    <2> HIDE DEF i
    <2> QED
      BY <1>1, <1>2, <1>3, <1>4, <2>1, <2>2 DEF i, j
  <1>5. CASE j % 2 # 1
    <2>1. j \div 2 = i /\ (j - 1) \div 2 = i - 1
      BY <1>1, <1>5, SMT
    <2> QED
      BY <1>1, <1>2, <1>3, <1>5, <2>1 DEF j
  <1> QED
    BY <1>4, <1>5 DEF j


(* The complete chains, rule by rule.                                       *)
LEMMA CompleteChains ==
    ASSUME env \in Seq(Networks)
    PROVE  /\ FilterRules \in Seq(Rules!Rules) /\ NatRules \in Seq(Rules!Rules)
           /\ Len(FilterRules) = Len(env) + 3 /\ Len(NatRules) = Len(env) + 1
           /\ FilterRules[1] = "replies"
           /\ \A i \in 1 .. Len(env) : FilterRules[i + 1] = env[i] /\ NatRules[i] = env[i]
           /\ FilterRules[Len(env) + 2] = "reject" /\ FilterRules[Len(env) + 3] = "return"
           /\ NatRules[Len(env) + 1] = "return"
  <1> DEFINE n == Len(env)
             a == <<"replies">>
             z == <<"reject", "return">>
             y == <<"return">>
             s == a \o env
             f == s \o z
             g == env \o y
  <1>1. /\ a \in Seq(Rules!Rules) /\ Len(a) = 1 /\ a[1] = "replies"
        /\ z \in Seq(Rules!Rules) /\ Len(z) = 2 /\ z[1] = "reject" /\ z[2] = "return"
        /\ y \in Seq(Rules!Rules) /\ Len(y) = 1 /\ y[1] = "return"
    BY DEF Rules!Rules
  <1>2. 1 \in Nat /\ 2 \in Nat /\ n \in Nat /\ 1 + n \in Nat
    OBVIOUS
  <1>3. env \in Seq(Rules!Rules)
    <2>1. env \in [1 .. n -> Networks]
      OBVIOUS
    <2>2. env \in [1 .. n -> Rules!Rules]
      BY <2>1, Zenon DEF Rules!Rules
    <2> QED
      BY <1>2, <2>2, SeqDef, Zenon
  <1> HIDE DEF a, z, y
  <1>4. /\ s \in Seq(Rules!Rules) /\ Len(s) = Len(a) + Len(env)
        /\ \A i \in 1 .. Len(a) + Len(env) :
              s[i] = IF i <= Len(a) THEN a[i] ELSE env[i - Len(a)]
    <2>1. a \in Seq(Rules!Rules) /\ env \in Seq(Rules!Rules)
      BY <1>1, <1>3
    <2> QED
      BY <2>1, ConcatProperties, Zenon
  <1>5. /\ g \in Seq(Rules!Rules) /\ Len(g) = Len(env) + Len(y)
        /\ \A i \in 1 .. Len(env) + Len(y) :
              g[i] = IF i <= Len(env) THEN env[i] ELSE y[i - Len(env)]
    <2>1. env \in Seq(Rules!Rules) /\ y \in Seq(Rules!Rules)
      BY <1>1, <1>3
    <2> QED
      BY <2>1, ConcatProperties, Zenon
  <1> HIDE DEF s, g
  <1>6. /\ f \in Seq(Rules!Rules) /\ Len(f) = Len(s) + Len(z)
        /\ \A i \in 1 .. Len(s) + Len(z) :
              f[i] = IF i <= Len(s) THEN s[i] ELSE z[i - Len(s)]
    <2>1. s \in Seq(Rules!Rules) /\ z \in Seq(Rules!Rules)
      BY <1>1, <1>4
    <2> QED
      BY <2>1, ConcatProperties, Zenon
  <1> HIDE DEF f
  <1>7. f = FilterRules /\ g = NatRules
    BY Zenon DEF f, g, s, a, z, y, FilterRules, NatRules
  <1>11. /\ Len(s) = 1 + n /\ Len(f) = n + 3 /\ Len(g) = n + 1
         /\ \A i \in 1 .. 1 + n : s[i] = IF i <= 1 THEN a[i] ELSE env[i - 1]
         /\ \A i \in 1 .. n + 1 : g[i] = IF i <= n THEN env[i] ELSE y[i - n]
         /\ \A i \in 1 .. n + 3 : f[i] = IF i <= 1 + n THEN s[i] ELSE z[i - (1 + n)]
    BY <1>1, <1>2, <1>4, <1>5, <1>6
  <1> HIDE DEF n
  <1>8. /\ f[1] = "replies" /\ f[n + 2] = "reject" /\ f[n + 3] = "return" /\ g[n + 1] = "return"
    BY <1>1, <1>2, <1>11
  <1>9. ASSUME NEW i \in 1 .. n PROVE f[i + 1] = env[i] /\ g[i] = env[i]
    <2>1. /\ i + 1 \in 1 .. 1 + n /\ ~(i + 1 <= 1) /\ (i + 1) - 1 = i /\ i <= n
          /\ i + 1 <= 1 + n /\ i + 1 \in 1 .. n + 3 /\ i \in 1 .. n + 1
      BY <1>2
    <2> QED
      BY <1>11, <2>1
  <1> QED
    BY <1>4, <1>5, <1>6, <1>7, <1>8, <1>9, <1>11 DEF n

(* The commands of the destinations.                                        *)
LEMMA PerDestinationTyped ==
    ASSUME env \in Seq(Networks)
    PROVE  /\ Rules!PerDestination \in Seq(Command)
           /\ Len(Rules!PerDestination) = 2 * Len(env)
  <1> DEFINE n == Len(env)
             P(i) == Rules!Add(IF i % 2 = 1 THEN "filter" ELSE "nat", env[(i + 1) \div 2])
  <1>1. n \in Nat /\ \A i \in 1 .. n : env[i] \in Networks
    OBVIOUS
  <1>2. Rules!PerDestination = [i \in 1 .. 2 * n |-> P(i)]
    BY DEF Rules!PerDestination
  <1>3. \A t \in {"filter", "nat"}, x \in Networks : Rules!Add(t, x) \in Command
    BY DEF Rules!Add, Command, Rules!Tables, Rules!Rules
  <1> HIDE DEF n
  <1>4. \A i \in 1 .. 2 * n : (i + 1) \div 2 \in 1 .. n
    BY <1>1, SMT
  <1>5. \A i \in 1 .. 2 * n : P(i) \in Command
    BY <1>1, <1>3, <1>4, Zenon
  <1>6. 2 * n \in Nat
    BY <1>1
  <1> HIDE DEF P
  <1>7. Rules!PerDestination \in [1 .. 2 * n -> Command]
    BY <1>2, <1>5, Zenon
  <1>8. Rules!PerDestination \in Seq(Command)
    BY <1>6, <1>7, SeqDef, Zenon
  <1>9. Len(Rules!PerDestination) = 2 * n
    BY <1>6, <1>7, <1>8, LenProperties
  <1> QED
    BY <1>8, <1>9 DEF n

(* The list of commands of `up`.                                            *)
LEMMA UpBegins ==
    ASSUME env \in Seq(Networks)
    PROVE  /\ Rules!UpCommands \in Seq(Command)
           /\ Len(Rules!UpCommands) = 2 * Len(env) + 14
           /\ Remaining(Rules!UpCommands, UpBack)
  <1> DEFINE m == 2 * Len(env)
             D == Rules!DownCommands
             A == <<Rules!Cmd("new", "filter"), Rules!Cmd("new", "nat"), Rules!Add("filter", "replies")>>
             P == Rules!PerDestination
             B == <<Rules!Add("filter", "reject"), Rules!Add("filter", "return"), Rules!Add("nat", "return")>>
             C == <<Rules!Cmd("hook", "filter"), Rules!Cmd("hook", "nat")>>
             DA == D \o A
             DP == DA \o P
             DB == DP \o B
             U == DB \o C
  <1>1. D \in Seq(Command) /\ Len(D) = 6 /\ \A i \in 1 .. 6 : D[i] = DownBack[7 - i]
    <2>1. \A i \in 1 .. 6 : 6 - i + 1 = 7 - i
      OBVIOUS
    <2> QED
      BY <2>1, DownBegins DEF Remaining
  <1>2. P \in Seq(Command) /\ Len(P) = m /\ m \in Nat
    BY PerDestinationTyped
  <1>3. /\ \A x \in {"new", "hook"}, t \in {"filter", "nat"} : Rules!Cmd(x, t) \in Command
        /\ \A x \in {"replies", "reject", "return"}, t \in {"filter", "nat"} : Rules!Add(t, x) \in Command
    BY DEF Rules!Cmd, Rules!Add, Command, Rules!Tables, Rules!Rules
  <1>4. /\ A \in Seq(Command) /\ Len(A) = 3 /\ \A i \in 1 .. 3 : A[i] = UpFirst(4 - i)
        /\ B \in Seq(Command) /\ Len(B) = 3 /\ \A i \in 1 .. 3 : B[i] = UpLast(6 - i)
        /\ C \in Seq(Command) /\ Len(C) = 2 /\ \A i \in 1 .. 2 : C[i] = UpLast(3 - i)
    BY <1>3 DEF UpFirst, UpLast
  <1>5. U = Rules!UpCommands
    BY Zenon DEF Rules!UpCommands
  <1> HIDE DEF D, A, P, B, C
  <1>6. /\ DA \in Seq(Command) /\ Len(DA) = Len(D) + Len(A)
        /\ \A i \in 1 .. Len(D) + Len(A) :
              DA[i] = IF i <= Len(D) THEN D[i] ELSE A[i - Len(D)]
    <2>1. D \in Seq(Command) /\ A \in Seq(Command)
      BY <1>1, <1>4
    <2> QED
      BY <2>1, ConcatProperties, Zenon
  <1> HIDE DEF DA
  <1>7. /\ DP \in Seq(Command) /\ Len(DP) = Len(DA) + Len(P)
        /\ \A i \in 1 .. Len(DA) + Len(P) :
              DP[i] = IF i <= Len(DA) THEN DA[i] ELSE P[i - Len(DA)]
    <2>1. DA \in Seq(Command) /\ P \in Seq(Command)
      BY <1>2, <1>6
    <2> QED
      BY <2>1, ConcatProperties, Zenon
  <1> HIDE DEF DP
  <1>8. /\ DB \in Seq(Command) /\ Len(DB) = Len(DP) + Len(B)
        /\ \A i \in 1 .. Len(DP) + Len(B) :
              DB[i] = IF i <= Len(DP) THEN DP[i] ELSE B[i - Len(DP)]
    <2>1. DP \in Seq(Command) /\ B \in Seq(Command)
      BY <1>4, <1>7
    <2> QED
      BY <2>1, ConcatProperties, Zenon
  <1> HIDE DEF DB
  <1>9. /\ U \in Seq(Command) /\ Len(U) = Len(DB) + Len(C)
        /\ \A i \in 1 .. Len(DB) + Len(C) :
              U[i] = IF i <= Len(DB) THEN DB[i] ELSE C[i - Len(DB)]
    <2>1. DB \in Seq(Command) /\ C \in Seq(Command)
      BY <1>4, <1>8
    <2> QED
      BY <2>1, ConcatProperties, Zenon
  <1> HIDE DEF U
  <1>10. \A r \in 1 .. m + 14 :
            UpBack[r] = IF r <= 5 THEN UpLast(r)
                        ELSE IF r <= m + 5 THEN P[m + 6 - r] ELSE UpFirst(r - (m + 5))
    BY DEF UpBack, P
  <1>11. \A r : r \notin {1, 2, 3} => UpFirst(r) = DownBack[r - 3]
    BY DEF UpFirst
  <1> HIDE DEF m
  <1>15. /\ Len(DA) = 9 /\ Len(DP) = m + 9 /\ Len(DB) = m + 12 /\ Len(U) = m + 14
         /\ \A i \in 1 .. 9 : DA[i] = IF i <= 6 THEN D[i] ELSE A[i - 6]
         /\ \A i \in 1 .. m + 9 : DP[i] = IF i <= 9 THEN DA[i] ELSE P[i - 9]
         /\ \A i \in 1 .. m + 12 : DB[i] = IF i <= m + 9 THEN DP[i] ELSE B[i - (m + 9)]
         /\ \A i \in 1 .. m + 14 : U[i] = IF i <= m + 12 THEN DB[i] ELSE C[i - (m + 12)]
    <2>1. m \in Nat /\ Len(D) = 6 /\ Len(A) = 3 /\ Len(P) = m /\ Len(B) = 3 /\ Len(C) = 2
      BY <1>1, <1>2, <1>4
    <2>2. Len(DA) = 9 /\ Len(DP) = m + 9 /\ Len(DB) = m + 12 /\ Len(U) = m + 14
      <3>1. Len(DA) = 9
        BY <1>6, <2>1
      <3>2. Len(DP) = m + 9
        BY <1>7, <2>1, <3>1
      <3>3. Len(DB) = m + 12
        BY <1>8, <2>1, <3>2
      <3>4. Len(U) = m + 14
        BY <1>9, <2>1, <3>3
      <3> QED
        BY <3>1, <3>2, <3>3, <3>4
    <2>3. \A i \in 1 .. 9 : DA[i] = IF i <= 6 THEN D[i] ELSE A[i - 6]
      BY <1>6, <2>1
    <2>4. \A i \in 1 .. m + 9 : DP[i] = IF i <= 9 THEN DA[i] ELSE P[i - 9]
      BY <1>7, <2>1, <2>2
    <2>5. \A i \in 1 .. m + 12 : DB[i] = IF i <= m + 9 THEN DP[i] ELSE B[i - (m + 9)]
      BY <1>8, <2>1, <2>2
    <2>6. \A i \in 1 .. m + 14 : U[i] = IF i <= m + 12 THEN DB[i] ELSE C[i - (m + 12)]
      BY <1>9, <2>1, <2>2
    <2> QED
      BY <2>2, <2>3, <2>4, <2>5, <2>6
  <1>12. ASSUME NEW i \in 1 .. m + 14 PROVE U[i] = UpBack[(m + 14) - i + 1]
    <2> DEFINE r == (m + 14) - i + 1
    <2>1. r \in 1 .. m + 14
      BY <1>2
    <2>2. CASE i <= 6
      <3>1. U[i] = DP[i] /\ i \in 1 .. 6
        BY <1>2, <1>15, <2>2
      <3>6. DP[i] = D[i]
        BY <1>2, <1>15, <2>2
      <3>2. ~(r <= 5) /\ ~(r <= m + 5) /\ r - (m + 5) \notin {1, 2, 3} /\ (r - (m + 5)) - 3 = 7 - i
        BY <1>2, <2>2
      <3>3. U[i] = DownBack[7 - i]
        BY <1>1, <3>1, <3>6
      <3>4. UpBack[r] = UpFirst(r - (m + 5))
        BY <1>10, <2>1, <3>2
      <3>5. UpFirst(r - (m + 5)) = DownBack[(r - (m + 5)) - 3]
        BY <1>11, <3>2, Zenon
      <3> QED
        BY <3>2, <3>3, <3>4, <3>5, Zenon
    <2>3. CASE i > 6 /\ i <= 9
      <3>1. i - 6 \in 1 .. 3 /\ U[i] = UpFirst(4 - (i - 6))
        BY <1>2, <1>4, <1>15, <2>3
      <3>2. ~(r <= 5) /\ ~(r <= m + 5) /\ r - (m + 5) = 4 - (i - 6)
        BY <1>2, <2>3
      <3> QED
        BY <1>10, <2>1, <3>1, <3>2
    <2>4. CASE i > 9 /\ i <= m + 9
      <3>3. /\ ~(i <= 9) /\ i \in 1 .. m + 9
            /\ i <= m + 9 /\ i \in 1 .. m + 12
            /\ i <= m + 12 /\ i \in 1 .. m + 14
        BY <1>2, <2>4
      <3>4. U[i] = DB[i] /\ DB[i] = DP[i] /\ DP[i] = P[i - 9]
        BY <1>15, <3>3, Zenon
      <3>1. U[i] = P[i - 9]
        BY <3>4
      <3>2. ~(r <= 5) /\ r <= m + 5 /\ m + 6 - r = i - 9
        BY <1>2, <2>4
      <3> QED
        BY <1>10, <2>1, <3>1, <3>2
    <2>5. CASE i > m + 9 /\ i <= m + 12
      <3>1. i - (m + 9) \in 1 .. 3 /\ U[i] = B[i - (m + 9)]
        BY <1>2, <1>15, <2>5
      <3>2. r <= 5 /\ r = 6 - (i - (m + 9))
        BY <1>2, <2>5
      <3> QED
        BY <1>4, <1>10, <2>1, <3>1, <3>2
    <2>6. CASE i > m + 12
      <3>1. i - (m + 12) \in 1 .. 2 /\ U[i] = C[i - (m + 12)]
        BY <1>2, <1>15, <2>6
      <3>2. r <= 5 /\ r = 3 - (i - (m + 12))
        BY <1>2, <2>6
      <3> QED
        BY <1>4, <1>10, <2>1, <3>1, <3>2
    <2> QED
      BY <1>2, <2>2, <2>3, <2>4, <2>5, <2>6
  <1>14. Remaining(U, UpBack)
    BY <1>12, <1>15 DEF Remaining
  <1> QED
    BY <1>5, <1>9, <1>14, <1>15 DEF m


(* The command of `up` that is next, from the number of commands left.      *)
LEMMA UpNext ==
    ASSUME env \in Seq(Networks), NEW r \in 1 .. 2 * Len(env) + 14
    PROVE  LET m == 2 * Len(env)
               j == m + 6 - r
           IN  /\ r = m + 14 => UpBack[r] = Rules!Cmd("unhook", "filter")
               /\ r = m + 13 => UpBack[r] = Rules!Cmd("unhook", "nat")
               /\ r \in m + 9 .. m + 12 =>
                     \/ UpBack[r] \in {Rules!Cmd("flush", "filter"), Rules!Cmd("flush", "nat")}
                     \/ UpBack[r] \in {Rules!Cmd("delete", "filter"), Rules!Cmd("delete", "nat")}
               /\ r = m + 8 => UpBack[r] = Rules!Cmd("new", "filter")
               /\ r = m + 7 => UpBack[r] = Rules!Cmd("new", "nat")
               /\ r = m + 6 => UpBack[r] = Rules!Add("filter", "replies")
               /\ r \in 6 .. m + 5 =>
                     UpBack[r] = Rules!Add(IF j % 2 = 1 THEN "filter" ELSE "nat", env[(j + 1) \div 2])
               /\ r = 5 => UpBack[r] = Rules!Add("filter", "reject")
               /\ r = 4 => UpBack[r] = Rules!Add("filter", "return")
               /\ r = 3 => UpBack[r] = Rules!Add("nat", "return")
               /\ r = 2 => UpBack[r] = Rules!Cmd("hook", "filter")
               /\ r = 1 => UpBack[r] = Rules!Cmd("hook", "nat")
  <1> DEFINE m == 2 * Len(env)
             j == m + 6 - r
  <1>1. m \in Nat
    OBVIOUS
  <1>2. UpBack[r] = IF r <= 5 THEN UpLast(r)
                    ELSE IF r <= m + 5 THEN Rules!PerDestination[j] ELSE UpFirst(r - (m + 5))
    BY DEF UpBack
  <1>3. j \in 1 .. m =>
            Rules!PerDestination[j] = Rules!Add(IF j % 2 = 1 THEN "filter" ELSE "nat", env[(j + 1) \div 2])
    BY DEF Rules!PerDestination
  <1> HIDE DEF m
  <1>4. r <= 5 => UpBack[r] = UpLast(r)
    BY <1>2
  <1>5. r \in 6 .. m + 5 => UpBack[r] = Rules!PerDestination[j] /\ j \in 1 .. m
    BY <1>1, <1>2
  <1>6. r > m + 5 /\ r > 5 => UpBack[r] = UpFirst(r - (m + 5))
    BY <1>1, <1>2
  <1>7. r \in 6 .. m + 5 =>
            UpBack[r] = Rules!Add(IF j % 2 = 1 THEN "filter" ELSE "nat", env[(j + 1) \div 2])
    BY <1>3, <1>5, Zenon
  <1>8. /\ UpFirst(9) = Rules!Cmd("unhook", "filter") /\ UpFirst(8) = Rules!Cmd("unhook", "nat")
        /\ UpFirst(7) = Rules!Cmd("flush", "filter") /\ UpFirst(6) = Rules!Cmd("delete", "filter")
        /\ UpFirst(5) = Rules!Cmd("flush", "nat") /\ UpFirst(4) = Rules!Cmd("delete", "nat")
        /\ UpFirst(3) = Rules!Cmd("new", "filter") /\ UpFirst(2) = Rules!Cmd("new", "nat")
        /\ UpFirst(1) = Rules!Add("filter", "replies")
    BY DEF UpFirst, DownBack
  <1>9. /\ UpLast(1) = Rules!Cmd("hook", "nat") /\ UpLast(2) = Rules!Cmd("hook", "filter")
        /\ UpLast(3) = Rules!Add("nat", "return") /\ UpLast(4) = Rules!Add("filter", "return")
        /\ UpLast(5) = Rules!Add("filter", "reject")
    BY DEF UpLast
  <1>10. /\ r = m + 14 => UpBack[r] = UpFirst(9)
         /\ r = m + 13 => UpBack[r] = UpFirst(8)
         /\ r = m + 12 => UpBack[r] = UpFirst(7)
         /\ r = m + 11 => UpBack[r] = UpFirst(6)
         /\ r = m + 10 => UpBack[r] = UpFirst(5)
         /\ r = m + 9 => UpBack[r] = UpFirst(4)
         /\ r = m + 8 => UpBack[r] = UpFirst(3)
         /\ r = m + 7 => UpBack[r] = UpFirst(2)
         /\ r = m + 6 => UpBack[r] = UpFirst(1)
    BY <1>1, <1>6
  <1>11. r \in m + 9 .. m + 12 => r = m + 9 \/ r = m + 10 \/ r = m + 11 \/ r = m + 12
    BY <1>1
  <1>12. r \in m + 9 .. m + 12 =>
            \/ UpBack[r] \in {Rules!Cmd("flush", "filter"), Rules!Cmd("flush", "nat")}
            \/ UpBack[r] \in {Rules!Cmd("delete", "filter"), Rules!Cmd("delete", "nat")}
    BY <1>8, <1>10, <1>11, Zenon
  <1>13. /\ r = 5 => UpBack[r] = UpLast(5)
         /\ r = 4 => UpBack[r] = UpLast(4)
         /\ r = 3 => UpBack[r] = UpLast(3)
         /\ r = 2 => UpBack[r] = UpLast(2)
         /\ r = 1 => UpBack[r] = UpLast(1)
    BY <1>4
  <1> HIDE DEF j
  <1>14. /\ r = m + 14 => UpBack[r] = Rules!Cmd("unhook", "filter")
         /\ r = m + 13 => UpBack[r] = Rules!Cmd("unhook", "nat")
         /\ r = m + 8 => UpBack[r] = Rules!Cmd("new", "filter")
         /\ r = m + 7 => UpBack[r] = Rules!Cmd("new", "nat")
         /\ r = m + 6 => UpBack[r] = Rules!Add("filter", "replies")
    BY <1>8, <1>10, Zenon
  <1>15. /\ r = 5 => UpBack[r] = Rules!Add("filter", "reject")
         /\ r = 4 => UpBack[r] = Rules!Add("filter", "return")
         /\ r = 3 => UpBack[r] = Rules!Add("nat", "return")
         /\ r = 2 => UpBack[r] = Rules!Cmd("hook", "filter")
         /\ r = 1 => UpBack[r] = Rules!Cmd("hook", "nat")
    BY <1>9, <1>13, Zenon
  <1> QED
    BY <1>7, <1>12, <1>14, <1>15, Zenon DEF j, m


(* Where in `up` with m / 2 destinations the r-th command from its end is.   *)
LEMMA UpPlaces ==
    ASSUME NEW m \in Nat, NEW r \in Nat, r >= 1, r <= m + 14
    PROVE  /\ \/ r = m + 14 \/ r = m + 13 \/ r \in m + 9 .. m + 12 \/ r = m + 8 \/ r = m + 7
              \/ r = m + 6 \/ r \in 6 .. m + 5 \/ r = 5 \/ r = 4 \/ r = 3 \/ r = 2 \/ r = 1
           /\ r \in m + 9 .. m + 12 =>
                 /\ r >= 2 /\ r <= m + 13 /\ r >= 1 /\ r <= m + 12
                 /\ ~(r - 1 <= 1) /\ r - 1 # 0 /\ ~(r - 1 <= m + 7) /\ ~(r - 1 <= m + 6)
  OBVIOUS

(* One command of `up` that succeeds and is done.                           *)
LEMMA UpGoesOn ==
    ASSUME RulesTyped, env' = env, NEW r \in 1 .. 2 * Len(env) + 14, UpState(r),
           NEW c \in Command, c = UpBack[r], Rules!Possible(c), Rules!Effect(c),
           c.op = "unhook" => jumps[c.table] = 0
    PROVE  UpState(r - 1)'
  <1> DEFINE n == Len(env)
             m == 2 * n
             F == FilterRules
             N == NatRules
             fr == chain["filter"].rules
             nr == chain["nat"].rules
             j == m + 6 - r
             i == (j + 1) \div 2
  <1>1. env \in Seq(Networks) /\ n \in Nat /\ m \in Nat
    BY DEF RulesTyped
  <1>2. /\ "filter" \in Rules!Tables /\ "nat" \in Rules!Tables
        /\ fr \in Seq(Rules!Rules) /\ nr \in Seq(Rules!Rules)
        /\ jumps["filter"] \in Nat /\ jumps["nat"] \in Nat
    BY DEF RulesTyped, Rules!Tables
  <1>3. /\ c.op \in {"new", "delete", "flush", "hook", "unhook", "append"}
        /\ c.op = "append" => c.rule \in Rules!Rules
    BY DEF Command
  <1>4. /\ \A t \in Rules!Tables : t # c.table => chain'[t] = chain[t] /\ jumps'[t] = jumps[t]
        /\ c.op \in {"hook", "unhook"} => chain' = chain
        /\ c.op \notin {"hook", "unhook"} => jumps' = jumps
        /\ c.op \in {"new", "flush"} => chain'[c.table].rules = <<>>
        /\ c.op = "append" => chain'[c.table].rules = Append(chain[c.table].rules, c.rule)
        /\ c.op = "hook" => jumps'[c.table] = jumps[c.table] + 1
        /\ c.op = "unhook" => jumps'[c.table] = 0
    <2>1. c.op = "unhook" =>
            jumps'[c.table] = IF jumps[c.table] > 0 THEN jumps[c.table] - 1 ELSE jumps[c.table]
      BY CommandEffect, Zenon
    <2>2. c.op = "unhook" => jumps'[c.table] = 0
      BY <2>1
    <2> QED
      BY <2>2, CommandEffect, Zenon
  <1>5. /\ r >= 2 /\ r <= m + 13 => jumps["filter"] = 0
        /\ r >= 1 /\ r <= m + 12 => jumps["nat"] = 0
        /\ r <= 1 => jumps["filter"] = 1
        /\ r <= m + 7 => StartOf(fr, F, FilterLen(n, r))
        /\ r <= m + 6 => StartOf(nr, N, NatLen(n, r))
    BY DEF UpState
  <1>6. F' = F /\ N' = N /\ Len(env') = n
    BY DEF FilterRules, NatRules
  <1>7. /\ F[1] = "replies" /\ \A k \in 1 .. n : F[k + 1] = env[k] /\ N[k] = env[k]
        /\ F[n + 2] = "reject" /\ F[n + 3] = "return" /\ N[n + 1] = "return"
    BY <1>1, CompleteChains
  <1> DEFINE Goal ==
        /\ r - 1 >= 2 /\ r - 1 <= m + 13 => jumps'["filter"] = 0
        /\ r - 1 >= 1 /\ r - 1 <= m + 12 => jumps'["nat"] = 0
        /\ r - 1 <= 1 => jumps'["filter"] = 1
        /\ r - 1 = 0 => jumps'["nat"] = 1
        /\ r - 1 <= m + 7 => StartOf(chain'["filter"].rules, F, FilterLen(n, r - 1))
        /\ r - 1 <= m + 6 => StartOf(chain'["nat"].rules, N, NatLen(n, r - 1))
  <1>8. /\ r = m + 14 => c = Rules!Cmd("unhook", "filter")
        /\ r = m + 13 => c = Rules!Cmd("unhook", "nat")
        /\ r \in m + 9 .. m + 12 =>
              \/ c \in {Rules!Cmd("flush", "filter"), Rules!Cmd("flush", "nat")}
              \/ c \in {Rules!Cmd("delete", "filter"), Rules!Cmd("delete", "nat")}
        /\ r = m + 8 => c = Rules!Cmd("new", "filter")
        /\ r = m + 7 => c = Rules!Cmd("new", "nat")
        /\ r = m + 6 => c = Rules!Add("filter", "replies")
        /\ r \in 6 .. m + 5 => c = Rules!Add(IF j % 2 = 1 THEN "filter" ELSE "nat", env[i])
        /\ r = 5 => c = Rules!Add("filter", "reject")
        /\ r = 4 => c = Rules!Add("filter", "return")
        /\ r = 3 => c = Rules!Add("nat", "return")
        /\ r = 2 => c = Rules!Cmd("hook", "filter")
        /\ r = 1 => c = Rules!Cmd("hook", "nat")
    BY <1>1, UpNext
  <1>9. /\ \A x, t : Rules!Cmd(x, t).op = x /\ Rules!Cmd(x, t).table = t
        /\ \A t, x : /\ Rules!Add(t, x).op = "append" /\ Rules!Add(t, x).table = t
                     /\ Rules!Add(t, x).rule = x
    BY DEF Rules!Cmd, Rules!Add
  <1>10. r \in Nat /\ r >= 1 /\ r <= m + 14
    BY <1>1
  <1>11. r \in 6 .. m + 5 =>
            /\ i \in 1 .. n
            /\ j % 2 = 1 => /\ FilterLen(n, r) = i /\ FilterLen(n, r - 1) = i + 1
                            /\ NatLen(n, r - 1) = NatLen(n, r)
            /\ j % 2 # 1 => /\ NatLen(n, r) = i - 1 /\ NatLen(n, r - 1) = i
                            /\ FilterLen(n, r - 1) = FilterLen(n, r)
    BY <1>1, DestinationLengths
  <1>12. /\ r >= m + 7 => FilterLen(n, r - 1) = 0
         /\ r >= m + 6 => NatLen(n, r - 1) = 0
         /\ r = m + 6 => FilterLen(n, r) = 0 /\ FilterLen(n, r - 1) = 1
         /\ r = 5 => /\ FilterLen(n, r) = n + 1 /\ FilterLen(n, r - 1) = n + 2
                     /\ NatLen(n, r) = n /\ NatLen(n, r - 1) = n
         /\ r = 4 => /\ FilterLen(n, r) = n + 2 /\ FilterLen(n, r - 1) = n + 3
                     /\ NatLen(n, r) = n /\ NatLen(n, r - 1) = n
         /\ r = 3 => /\ FilterLen(n, r) = n + 3 /\ FilterLen(n, r - 1) = n + 3
                     /\ NatLen(n, r) = n /\ NatLen(n, r - 1) = n + 1
         /\ r < 3 => /\ FilterLen(n, r) = n + 3 /\ NatLen(n, r) = n + 1
    BY <1>1, <1>10, ChainLengths
  <1>13. r < 3 => FilterLen(n, r - 1) = n + 3 /\ NatLen(n, r - 1) = n + 1
    <2>1. r < 3 => r - 1 \in Nat /\ r - 1 < 3
      BY <1>10
    <2> QED
      BY <1>1, <2>1, ChainLengths
  <1>14. \A f : StartOf(<<>>, f, 0)
    BY DEF StartOf
  <1> SUFFICES Goal
    BY <1>6 DEF UpState
  <1> HIDE DEF n, m, F, N, i, j
  <1>15. CASE r = m + 14
    <2>1. c.op = "unhook" /\ c.table = "filter"
      <3>1. c = Rules!Cmd("unhook", "filter")
        BY <1>8, <1>15
      <3> QED
        BY <1>9, <3>1
    <2> QED
      BY <1>1, <1>2, <1>4, <1>15, <2>1
  <1>16. CASE r = m + 13
    <2>1. c.op = "unhook" /\ c.table = "nat"
      <3>1. c = Rules!Cmd("unhook", "nat")
        BY <1>8, <1>16
      <3> QED
        BY <1>9, <3>1
    <2>2. jumps'["nat"] = 0 /\ jumps'["filter"] = jumps["filter"]
      BY <1>2, <1>4, <2>1
    <2>3. jumps["filter"] = 0
      BY <1>1, <1>5, <1>16
    <2> QED
      BY <1>1, <1>16, <2>2, <2>3
  <1>17. CASE r \in m + 9 .. m + 12
    <2>1. c.op = "flush" \/ c.op = "delete"
      <3>1. \/ c \in {Rules!Cmd("flush", "filter"), Rules!Cmd("flush", "nat")}
            \/ c \in {Rules!Cmd("delete", "filter"), Rules!Cmd("delete", "nat")}
        BY <1>8, <1>17
      <3> QED
        BY <1>9, <3>1, Zenon
    <2>2. jumps' = jumps
      BY <1>4, <2>1
    <2>3. /\ r >= 2 /\ r <= m + 13 /\ r >= 1 /\ r <= m + 12
          /\ ~(r - 1 <= 1) /\ r - 1 # 0 /\ ~(r - 1 <= m + 7) /\ ~(r - 1 <= m + 6)
      BY <1>1, <1>10, <1>17, UpPlaces, Zenon
    <2> QED
      BY <1>5, <2>2, <2>3
  <1>18. CASE r = m + 8
    <2>1. c.op = "new" /\ c.table = "filter"
      <3>1. c = Rules!Cmd("new", "filter")
        BY <1>8, <1>18
      <3> QED
        BY <1>9, <3>1
    <2>2. jumps' = jumps /\ chain'["filter"].rules = <<>>
      BY <1>4, <2>1
    <2>3. StartOf(chain'["filter"].rules, F, FilterLen(n, r - 1))
      BY <1>1, <1>12, <1>14, <1>18, <2>2
    <2>4. jumps["filter"] = 0 /\ jumps["nat"] = 0
      BY <1>1, <1>5, <1>18
    <2> QED
      BY <1>1, <1>18, <2>2, <2>3, <2>4
  <1>19. CASE r = m + 7
    <2>1. c.op = "new" /\ c.table = "nat"
      <3>1. c = Rules!Cmd("new", "nat")
        BY <1>8, <1>19
      <3> QED
        BY <1>9, <3>1
    <2>2. jumps' = jumps /\ chain'["nat"].rules = <<>> /\ chain'["filter"] = chain["filter"]
      BY <1>2, <1>4, <2>1
    <2>3. StartOf(chain'["nat"].rules, N, NatLen(n, r - 1))
      BY <1>1, <1>12, <1>14, <1>19, <2>2
    <2>4. StartOf(chain'["filter"].rules, F, FilterLen(n, r - 1))
      <3>1. FilterLen(n, r) = 0 /\ FilterLen(n, r - 1) = 0
        BY <1>1, <1>19 DEF FilterLen, m
      <3> QED
        BY <1>5, <1>1, <1>19, <2>2, <3>1
    <2> QED
      BY <1>1, <1>2, <1>5, <1>19, <2>2, <2>3, <2>4
  <1>20. ASSUME c.op = "append", c.table = "filter", NEW k \in Nat, r \in 3 .. m + 6,
                FilterLen(n, r) = k, FilterLen(n, r - 1) = k + 1, c.rule = F[k + 1],
                NatLen(n, r) = NatLen(n, r - 1)
         PROVE  Goal
    <2>1. /\ jumps' = jumps /\ chain'["filter"].rules = Append(fr, c.rule)
          /\ chain'["nat"] = chain["nat"]
      BY <1>2, <1>4, <1>20
    <2>2. StartOf(fr, F, k) /\ StartOf(nr, N, NatLen(n, r - 1))
      BY <1>1, <1>5, <1>20
    <2>3. StartOf(Append(fr, c.rule), F, k + 1)
      BY <1>2, <1>3, <1>20, <2>2, OneMore
    <2>4. /\ StartOf(chain'["filter"].rules, F, FilterLen(n, r - 1))
          /\ StartOf(chain'["nat"].rules, N, NatLen(n, r - 1))
      BY <1>20, <2>1, <2>2, <2>3
    <2>5. jumps'["filter"] = 0 /\ jumps'["nat"] = 0 /\ r - 1 >= 2
      BY <1>1, <1>5, <1>20, <2>1
    <2> QED
      BY <1>10, <2>4, <2>5
  <1>21. ASSUME c.op = "append", c.table = "nat", NEW k \in Nat, r \in 3 .. m + 5,
                NatLen(n, r) = k, NatLen(n, r - 1) = k + 1, c.rule = N[k + 1],
                FilterLen(n, r) = FilterLen(n, r - 1)
         PROVE  Goal
    <2>1. /\ jumps' = jumps /\ chain'["nat"].rules = Append(nr, c.rule)
          /\ chain'["filter"] = chain["filter"]
      BY <1>2, <1>4, <1>21
    <2>2. StartOf(nr, N, k) /\ StartOf(fr, F, FilterLen(n, r - 1))
      BY <1>1, <1>5, <1>21
    <2>3. StartOf(Append(nr, c.rule), N, k + 1)
      BY <1>2, <1>3, <1>21, <2>2, OneMore
    <2>4. /\ StartOf(chain'["filter"].rules, F, FilterLen(n, r - 1))
          /\ StartOf(chain'["nat"].rules, N, NatLen(n, r - 1))
      BY <1>21, <2>1, <2>2, <2>3
    <2>5. jumps'["filter"] = 0 /\ jumps'["nat"] = 0 /\ r - 1 >= 2
      BY <1>1, <1>5, <1>21, <2>1
    <2> QED
      BY <1>10, <2>4, <2>5
  <1>22. CASE r = m + 6
    <2>1. c.op = "append" /\ c.table = "filter" /\ c.rule = F[0 + 1]
      BY <1>7, <1>8, <1>9, <1>22
    <2>2. NatLen(n, r) = 0
      BY <1>1, <1>22 DEF NatLen, m
    <2>3. /\ r \in 3 .. m + 6 /\ FilterLen(n, r) = 0 /\ FilterLen(n, r - 1) = 0 + 1
          /\ NatLen(n, r) = NatLen(n, r - 1)
      BY <1>1, <1>12, <1>22, <2>2
    <2> QED
      BY <1>20, <2>1, <2>3
  <1>23. CASE r \in 6 .. m + 5
    <2>1. CASE j % 2 = 1
      <3>1. c.op = "append" /\ c.table = "filter" /\ c.rule = env[i]
        <4>1. c = Rules!Add(IF j % 2 = 1 THEN "filter" ELSE "nat", env[i])
          BY <1>8, <1>23
        <4>2. c = Rules!Add("filter", env[i])
          BY <4>1, <2>1
        <4> QED
          BY <1>9, <4>2
      <3>2. c.rule = F[i + 1] /\ i \in Nat /\ r \in 3 .. m + 6
        BY <1>1, <1>7, <1>11, <1>23, <3>1
      <3> QED
        BY <1>11, <1>20, <1>23, <2>1, <3>1, <3>2
    <2>2. CASE j % 2 # 1
      <3>1. c.op = "append" /\ c.table = "nat" /\ c.rule = env[i]
        <4>1. c = Rules!Add(IF j % 2 = 1 THEN "filter" ELSE "nat", env[i])
          BY <1>8, <1>23
        <4>2. c = Rules!Add("nat", env[i])
          BY <4>1, <2>2
        <4> QED
          BY <1>9, <4>2
      <3>3. i \in 1 .. n /\ N[i] = env[i]
        BY <1>7, <1>11, <1>23
      <3>4. i - 1 \in Nat /\ (i - 1) + 1 = i /\ r \in 3 .. m + 5
        BY <1>1, <1>23, <3>3
      <3>2. c.rule = N[(i - 1) + 1] /\ i - 1 \in Nat /\ (i - 1) + 1 = i /\ r \in 3 .. m + 5
        BY <3>1, <3>3, <3>4
      <3> QED
        BY <1>11, <1>21, <1>23, <2>2, <3>1, <3>2
    <2> QED
      BY <2>1, <2>2
  <1>24. CASE r = 5 \/ r = 4
    <2>1. c.op = "append" /\ c.table = "filter" /\ c.rule = F[FilterLen(n, r) + 1]
      BY <1>1, <1>7, <1>8, <1>9, <1>12, <1>24
    <2>2. /\ FilterLen(n, r) \in Nat /\ FilterLen(n, r - 1) = FilterLen(n, r) + 1
          /\ NatLen(n, r) = NatLen(n, r - 1) /\ r \in 3 .. m + 6
      BY <1>1, <1>12, <1>24
    <2> QED
      BY <1>20, <2>1, <2>2
  <1>25. CASE r = 3
    <2>1. c.op = "append" /\ c.table = "nat" /\ c.rule = N[NatLen(n, r) + 1]
      BY <1>1, <1>7, <1>8, <1>9, <1>12, <1>25
    <2>2. /\ NatLen(n, r) \in Nat /\ NatLen(n, r - 1) = NatLen(n, r) + 1
          /\ FilterLen(n, r) = FilterLen(n, r - 1) /\ r \in 3 .. m + 5
      BY <1>1, <1>12, <1>25
    <2> QED
      BY <1>21, <2>1, <2>2
  <1>26. CASE r = 2
    <2>1. c.op = "hook" /\ c.table = "filter"
      <3>1. c = Rules!Cmd("hook", "filter")
        BY <1>8, <1>26
      <3> QED
        BY <1>9, <3>1
    <2>2. chain' = chain /\ jumps'["filter"] = jumps["filter"] + 1 /\ jumps'["nat"] = jumps["nat"]
      BY <1>2, <1>4, <2>1
    <2> QED
      BY <1>1, <1>2, <1>5, <1>12, <1>13, <1>26, <2>2
  <1>27. CASE r = 1
    <2>1. c.op = "hook" /\ c.table = "nat"
      <3>1. c = Rules!Cmd("hook", "nat")
        BY <1>8, <1>27
      <3> QED
        BY <1>9, <3>1
    <2>2. chain' = chain /\ jumps'["nat"] = jumps["nat"] + 1 /\ jumps'["filter"] = jumps["filter"]
      BY <1>2, <1>4, <2>1
    <2>3. jumps'["nat"] = 1 /\ jumps'["filter"] = 1
      BY <1>1, <1>5, <1>27, <2>2
    <2>4. /\ FilterLen(n, r - 1) = FilterLen(n, r) /\ NatLen(n, r - 1) = NatLen(n, r)
          /\ r <= m + 7 /\ r <= m + 6 /\ ~(r - 1 >= 2) /\ ~(r - 1 >= 1)
      BY <1>1, <1>12, <1>13, <1>27
    <2>5. /\ StartOf(chain'["filter"].rules, F, FilterLen(n, r - 1))
          /\ StartOf(chain'["nat"].rules, N, NatLen(n, r - 1))
      BY <1>5, <2>2, <2>4
    <2> QED
      BY <2>3, <2>4, <2>5
  <1>28. Goal
    <2>1. \/ r = m + 14 \/ r = m + 13 \/ r \in m + 9 .. m + 12 \/ r = m + 8 \/ r = m + 7
          \/ r = m + 6 \/ r \in 6 .. m + 5 \/ r = 5 \/ r = 4 \/ r = 3 \/ r = 2 \/ r = 1
      BY <1>1, <1>10, UpPlaces, Zenon
    <2> HIDE DEF Goal
    <2> QED
      BY <1>15, <1>16, <1>17, <1>18, <1>19, <1>22, <1>23, <1>24, <1>25, <1>26, <1>27, <2>1
  <1> QED
    BY <1>28


(* What kind of command it is tells where `up` stands.                      *)
LEMMA UpOps ==
    ASSUME env \in Seq(Networks), NEW r \in 1 .. 2 * Len(env) + 14
    PROVE  LET m == 2 * Len(env)
           IN  /\ UpBack[r].op = "unhook" =>
                     \/ r = m + 14
                     \/ r = m + 13 /\ UpBack[r].table = "nat"
               /\ UpBack[r].op \in Rules!Ignored => r \in m + 9 .. m + 12
  <1> DEFINE m == 2 * Len(env)
             c == UpBack[r]
             j == m + 6 - r
  <1>1. m \in Nat
    OBVIOUS
  <1>2. /\ \A x, t : Rules!Cmd(x, t).op = x /\ Rules!Cmd(x, t).table = t
        /\ \A t, x : Rules!Add(t, x).op = "append"
    BY DEF Rules!Cmd, Rules!Add
  <1>3. /\ r = m + 14 => c = Rules!Cmd("unhook", "filter")
        /\ r = m + 13 => c = Rules!Cmd("unhook", "nat")
        /\ r \in m + 9 .. m + 12 =>
              \/ c \in {Rules!Cmd("flush", "filter"), Rules!Cmd("flush", "nat")}
              \/ c \in {Rules!Cmd("delete", "filter"), Rules!Cmd("delete", "nat")}
        /\ r = m + 8 => c = Rules!Cmd("new", "filter")
        /\ r = m + 7 => c = Rules!Cmd("new", "nat")
        /\ r = m + 6 => c = Rules!Add("filter", "replies")
        /\ r \in 6 .. m + 5 =>
              c = Rules!Add(IF j % 2 = 1 THEN "filter" ELSE "nat", env[(j + 1) \div 2])
        /\ r = 5 => c = Rules!Add("filter", "reject")
        /\ r = 4 => c = Rules!Add("filter", "return")
        /\ r = 3 => c = Rules!Add("nat", "return")
        /\ r = 2 => c = Rules!Cmd("hook", "filter")
        /\ r = 1 => c = Rules!Cmd("hook", "nat")
    BY UpNext
  <1>4. r \in 1 .. m + 14
    OBVIOUS
  <1> HIDE DEF c, j, m
  <1>5. /\ r = m + 14 => c.op = "unhook"
        /\ r = m + 13 => c.op = "unhook" /\ c.table = "nat"
        /\ r = m + 8 \/ r = m + 7 => c.op = "new"
        /\ r = m + 6 \/ r = 5 \/ r = 4 \/ r = 3 => c.op = "append"
        /\ r = 2 \/ r = 1 => c.op = "hook"
    BY <1>2, <1>3
  <1>6. r \in 6 .. m + 5 => c.op = "append"
    BY <1>2, <1>3
  <1>7. r \in m + 9 .. m + 12 => c.op = "flush" \/ c.op = "delete"
    BY <1>2, <1>3, Zenon
  <1>8. \/ r = m + 14 \/ r = m + 13 \/ r \in m + 9 .. m + 12 \/ r = m + 8 \/ r = m + 7
        \/ r = m + 6 \/ r \in 6 .. m + 5 \/ r = 5 \/ r = 4 \/ r = 3 \/ r = 2 \/ r = 1
    BY <1>1, <1>4
  <1>9. c.op = "unhook" => \/ r = m + 14
                           \/ r = m + 13 /\ c.table = "nat"
    BY <1>5, <1>6, <1>7, <1>8
  <1>10. c.op \in Rules!Ignored => r \in m + 9 .. m + 12
    BY <1>5, <1>6, <1>8 DEF Rules!Ignored
  <1> QED
    BY <1>9, <1>10 DEF c, m

(* One command of `up` that fails and is ignored: it is one of those that   *)
(* clear away what an earlier run has left.                                 *)
LEMMA UpIgnores ==
    ASSUME RulesTyped, env' = env, NEW r \in 1 .. 2 * Len(env) + 14, UpState(r),
           UpBack[r].op \in Rules!Ignored, chain' = chain, jumps' = jumps
    PROVE  UpState(r - 1)'
  <1>1. env \in Seq(Networks) /\ Len(env) \in Nat
    BY DEF RulesTyped
  <1>2. r \in 2 * Len(env) + 9 .. 2 * Len(env) + 12
    BY <1>1, UpOps
  <1>3. jumps["filter"] = 0 /\ jumps["nat"] = 0
    BY <1>1, <1>2 DEF UpState
  <1> QED
    BY <1>1, <1>2, <1>3 DEF UpState

(* The commands of `down`, one by one.                                      *)
LEMMA DownNext ==
    /\ DownBack[6] = Rules!Cmd("unhook", "filter") /\ DownBack[5] = Rules!Cmd("unhook", "nat")
    /\ DownBack[4] = Rules!Cmd("flush", "filter") /\ DownBack[3] = Rules!Cmd("delete", "filter")
    /\ DownBack[2] = Rules!Cmd("flush", "nat") /\ DownBack[1] = Rules!Cmd("delete", "nat")
  BY DEF DownBack

(* One command of `down` that succeeds and is done.                         *)
LEMMA DownGoesOn ==
    ASSUME RulesTyped, faults' = faults, NEW r \in 1 .. 6, DownState(r),
           NEW c \in Command, c = DownBack[r], Rules!Possible(c), Rules!Effect(c),
           c.op = "unhook" => jumps[c.table] = 0
    PROVE  DownState(r - 1)'
  <1>1. /\ "filter" \in Rules!Tables /\ "nat" \in Rules!Tables
        /\ jumps["filter"] \in Nat /\ jumps["nat"] \in Nat
    BY DEF RulesTyped, Rules!Tables
  <1>2. /\ \A t \in Rules!Tables : t # c.table => chain'[t] = chain[t] /\ jumps'[t] = jumps[t]
        /\ c.op \in {"hook", "unhook"} => chain' = chain
        /\ c.op \notin {"hook", "unhook"} => jumps' = jumps
        /\ c.op \in {"new", "flush"} => chain'[c.table].rules = <<>>
        /\ c.op = "delete" => chain'[c.table] = Rules!NoChain
        /\ c.op = "unhook" => jumps'[c.table] = 0
    <2>1. c.op = "unhook" =>
            jumps'[c.table] = IF jumps[c.table] > 0 THEN jumps[c.table] - 1 ELSE jumps[c.table]
      BY CommandEffect, Zenon
    <2>2. c.op = "unhook" => jumps'[c.table] = 0
      BY <2>1
    <2> QED
      BY <2>2, CommandEffect, Zenon
  <1>3. \A x, t : Rules!Cmd(x, t).op = x /\ Rules!Cmd(x, t).table = t
    BY DEF Rules!Cmd
  <1>4. Rules!NoChain.rules = <<>>
    BY DEF Rules!NoChain
  <1>5. CASE r = 6
    <2>1. c.op = "unhook" /\ c.table = "filter"
      BY <1>3, <1>5, DownNext
    <2> QED
      BY <1>1, <1>2, <1>5, <2>1 DEF DownState
  <1>6. CASE r = 5
    <2>1. c.op = "unhook" /\ c.table = "nat"
      BY <1>3, <1>6, DownNext
    <2> QED
      BY <1>1, <1>2, <1>6, <2>1 DEF DownState
  <1>7. CASE r = 4
    <2>1. c.op = "flush" /\ c.table = "filter"
      BY <1>3, <1>7, DownNext
    <2> QED
      BY <1>1, <1>2, <1>7, <2>1 DEF DownState
  <1>8. CASE r = 3
    <2>1. c.op = "delete" /\ c.table = "filter"
      BY <1>3, <1>8, DownNext
    <2> QED
      BY <1>1, <1>2, <1>4, <1>8, <2>1 DEF DownState
  <1>9. CASE r = 2
    <2>1. c.op = "flush" /\ c.table = "nat"
      BY <1>3, <1>9, DownNext
    <2> QED
      BY <1>1, <1>2, <1>4, <1>9, <2>1 DEF DownState
  <1>10. CASE r = 1
    <2>1. c.op = "delete" /\ c.table = "nat"
      BY <1>3, <1>10, DownNext
    <2> QED
      BY <1>1, <1>2, <1>4, <1>10, <2>1 DEF DownState
  <1> QED
    BY <1>5, <1>6, <1>7, <1>8, <1>9, <1>10

(* One command of `down` that fails and is ignored: without a fault there   *)
(* was nothing to flush or to delete.                                       *)
LEMMA DownIgnores ==
    ASSUME RulesTyped, NEW r \in 1 .. 6, DownState(r), chain' = chain, jumps' = jumps,
           DownBack[r].op \in Rules!Ignored,
           \/ ~Rules!Possible(DownBack[r]) /\ faults' = faults
           \/ faults' = faults + 1
    PROVE  DownState(r - 1)'
  <1> DEFINE c == DownBack[r]
  <1>1. c.op \in {"flush", "delete"}
    BY DEF Rules!Ignored
  <1>2. \A x, t : Rules!Cmd(x, t).op = x /\ Rules!Cmd(x, t).table = t
    BY DEF Rules!Cmd
  <1>3. /\ "filter" \in Rules!Tables /\ "nat" \in Rules!Tables /\ faults \in Nat
        /\ \A t \in Rules!Tables : /\ ~chain[t].made => chain[t] = Rules!NoChain
                                   /\ chain[t] \in [made : BOOLEAN, rules : Seq(Rules!Rules)]
    BY DEF RulesTyped, Rules!Tables
  <1>4. r \in 1 .. 4
    <2>1. r # 6 /\ r # 5
      BY <1>1, <1>2, DownNext
    <2> QED
      BY <2>1
  <1>5. jumps["filter"] = 0 /\ jumps["nat"] = 0
    BY <1>4 DEF DownState
  <1>6. CASE faults' = faults + 1
    BY <1>3, <1>4, <1>5, <1>6 DEF DownState
  <1>7. CASE ~Rules!Possible(c) /\ faults' = faults
    <2>1. \A t \in Rules!Tables : chain[t] = Rules!NoChain => chain[t].rules = <<>>
      BY DEF Rules!NoChain
    <2>2. c.op = "flush" => chain[c.table].made = FALSE
      BY <1>7, <1>1 DEF Rules!Possible
    <2>3. c.op = "delete" => \/ chain[c.table] # [made |-> TRUE, rules |-> <<>>]
                             \/ jumps[c.table] # 0
      BY <1>7, <1>1 DEF Rules!Possible
    <2>4. CASE r = 4
      <3>1. c.op = "flush" /\ c.table = "filter"
        BY <1>2, <2>4, DownNext
      <3> QED
        BY <1>3, <1>5, <1>7, <2>1, <2>2, <2>4, <3>1 DEF DownState
    <2>5. CASE r = 3
      <3>1. c.op = "delete" /\ c.table = "filter"
        BY <1>2, <2>5, DownNext
      <3>2. faults = 0 => chain["filter"].rules = <<>>
        BY <2>5 DEF DownState
      <3>3. faults = 0 => chain["filter"] = Rules!NoChain
        BY <1>3, <1>5, <2>3, <3>1, <3>2
      <3> QED
        BY <1>5, <1>7, <2>5, <3>2, <3>3 DEF DownState
    <2>6. CASE r = 2
      <3>1. c.op = "flush" /\ c.table = "nat"
        BY <1>2, <2>6, DownNext
      <3> QED
        BY <1>3, <1>5, <1>7, <2>1, <2>2, <2>6, <3>1 DEF DownState
    <2>7. CASE r = 1
      <3>1. c.op = "delete" /\ c.table = "nat"
        BY <1>2, <2>7, DownNext
      <3>2. faults = 0 => /\ chain["nat"].rules = <<>> /\ chain["filter"] = Rules!NoChain
                          /\ chain["filter"].rules = <<>>
        BY <2>7 DEF DownState
      <3>3. faults = 0 => chain["nat"] = Rules!NoChain
        BY <1>3, <1>5, <2>3, <3>1, <3>2
      <3> QED
        BY <1>5, <1>7, <2>7, <3>2, <3>3 DEF DownState
    <2> QED
      BY <1>4, <2>4, <2>5, <2>6, <2>7
  <1> QED
    BY <1>6, <1>7


(* Nothing is set up before the first start of the unit.                    *)
LEMMA RulesInit == Rules!Init => RulesInv
  <1> SUFFICES ASSUME Rules!Init PROVE RulesInv
    OBVIOUS
  <1>1. /\ env \in Rules!Destinations /\ todo = <<>> /\ verb = "none" /\ exit = "none" /\ faults = 0
        /\ chain = [t \in Rules!Tables |-> Rules!NoChain] /\ jumps = [t \in Rules!Tables |-> 0]
    BY DEF Rules!Init
  <1>2. env \in Seq(Networks)
    BY <1>1, DestinationsTyped
  <1>3. RulesTyped
    BY <1>1, <1>2 DEF RulesTyped, Rules!NoChain
  <1>4. UpAt /\ DownAt /\ Rules!UpIsExact /\ Rules!DownUnhooks
    BY <1>1 DEF UpAt, DownAt, Rules!UpIsExact, Rules!DownUnhooks
  <1>5. jumps["filter"] = 0
    BY <1>1 DEF Rules!Tables
  <1>6. Rules!HookedIsConfined
    BY <1>5 DEF Rules!HookedIsConfined
  <1> QED
    BY <1>3, <1>4, <1>6 DEF RulesInv

(* A script begins: `up` or `down`.                                         *)
LEMMA RulesBegin == RulesInv /\ (Rules!Start \/ Rules!StopUnit) => RulesInv'
  <1> SUFFICES ASSUME RulesInv, Rules!Start \/ Rules!StopUnit PROVE RulesInv'
    OBVIOUS
  <1>1. /\ exit' = "none" /\ env' = env /\ chain' = chain /\ jumps' = jumps /\ faults' = faults
        /\ \/ verb' = "up" /\ todo' = Rules!UpCommands
           \/ verb' = "down" /\ todo' = Rules!DownCommands
    BY DEF Rules!Start, Rules!StopUnit, Rules!Begin
  <1>2. env \in Seq(Networks) /\ RulesTyped /\ Rules!HookedIsConfined
    BY DEF RulesInv, RulesTyped
  <1>3. Len(env) \in Nat
    BY <1>2
  <1>4. Rules!HookedIsConfined' /\ Rules!UpIsExact' /\ Rules!DownUnhooks'
    BY <1>1, <1>2 DEF Rules!HookedIsConfined, Rules!UpIsExact, Rules!DownUnhooks
  <1>5. CASE verb' = "up" /\ todo' = Rules!UpCommands
    <2>1. /\ todo' \in Seq(Command) /\ Len(todo') = 2 * Len(env) + 14
          /\ Remaining(todo', UpBack)
      BY <1>2, <1>5, UpBegins
    <2>2. UpBack' = UpBack
      BY <1>1 DEF UpBack, Rules!PerDestination
    <2>3. UpState(Len(todo))'
      BY <1>1, <1>3, <2>1 DEF UpState
    <2>4. UpAt' /\ DownAt'
      BY <1>1, <1>3, <1>5, <2>1, <2>2, <2>3 DEF UpAt, DownAt, Remaining
    <2>5. RulesTyped'
      BY <1>1, <1>2, <1>5, <2>1 DEF RulesTyped
    <2> QED
      BY <1>4, <2>4, <2>5 DEF RulesInv
  <1>6. CASE verb' = "down" /\ todo' = Rules!DownCommands
    <2>1. todo' \in Seq(Command) /\ Len(todo') = 6 /\ Remaining(todo', DownBack)
      BY <1>6, DownBegins
    <2>2. DownState(Len(todo))'
      BY <2>1 DEF DownState
    <2>3. UpAt' /\ DownAt'
      BY <1>6, <2>1, <2>2 DEF UpAt, DownAt, Remaining
    <2>4. RulesTyped'
      BY <1>1, <1>2, <1>6, <2>1 DEF RulesTyped
    <2> QED
      BY <1>4, <2>3, <2>4 DEF RulesInv
  <1> QED
    BY <1>1, <1>5, <1>6

(* A script ends, or nothing of one is at work: another gateway.env, a      *)
(* boot, a fault, a refused command.                                        *)
LEMMA RulesBreak ==
    RulesInv /\ (Rules!Reconfigure \/ Rules!Boot \/ Rules!Refused \/ Rules!Fault) => RulesInv'
  <1> SUFFICES ASSUME RulesInv, Rules!Reconfigure \/ Rules!Boot \/ Rules!Refused \/ Rules!Fault
               PROVE  RulesInv'
    OBVIOUS
  <1>1. RulesTyped /\ Rules!HookedIsConfined
    BY DEF RulesInv
  <1>2. /\ verb' = "none" /\ todo' = <<>> /\ exit' \in {"none", "fault"}
        /\ env' \in Rules!Destinations /\ faults' \in Nat
    <2>1. CASE Rules!Reconfigure
      BY <1>1, <2>1 DEF Rules!Reconfigure, RulesTyped
    <2>2. CASE Rules!Boot
      BY <1>1, <2>2 DEF Rules!Boot, RulesTyped
    <2>3. CASE Rules!Refused
      BY <1>1, <2>3 DEF Rules!Refused, Rules!Abort, RulesTyped
    <2>4. CASE Rules!Fault
      BY <1>1, <2>4 DEF Rules!Fault, Rules!Abort, RulesTyped
    <2> QED
      BY <2>1, <2>2, <2>3, <2>4
  <1>3. \/ chain' = chain /\ jumps' = jumps
        \/ chain' = [t \in Rules!Tables |-> Rules!NoChain] /\ jumps' = [t \in Rules!Tables |-> 0]
    BY DEF Rules!Reconfigure, Rules!Boot, Rules!Refused, Rules!Fault, Rules!Abort
  <1>4. UpAt' /\ DownAt' /\ Rules!UpIsExact' /\ Rules!DownUnhooks'
    BY <1>2 DEF UpAt, DownAt, Rules!UpIsExact, Rules!DownUnhooks
  <1>5. env' \in Seq(Networks)
    BY <1>2, DestinationsTyped
  <1>6. CASE chain' = chain /\ jumps' = jumps
    <2>1. Rules!HookedIsConfined'
      BY <1>1, <1>6 DEF Rules!HookedIsConfined
    <2>2. RulesTyped'
      BY <1>1, <1>2, <1>5, <1>6 DEF RulesTyped
    <2> QED
      BY <1>4, <2>1, <2>2 DEF RulesInv
  <1>7. CASE chain' = [t \in Rules!Tables |-> Rules!NoChain] /\ jumps' = [t \in Rules!Tables |-> 0]
    <2>1. jumps'["filter"] = 0
      BY <1>7 DEF Rules!Tables
    <2>2. Rules!HookedIsConfined'
      BY <2>1 DEF Rules!HookedIsConfined
    <2>3. RulesTyped'
      BY <1>2, <1>5, <1>7 DEF RulesTyped, Rules!NoChain
    <2> QED
      BY <1>4, <2>2, <2>3 DEF RulesInv
  <1> QED
    BY <1>3, <1>6, <1>7

(* A chain with as many rules as the complete one is the complete one.      *)
LEMMA AllThere ==
    ASSUME NEW S, NEW s \in Seq(S), NEW f \in Seq(S), StartOf(s, f, Len(f))
    PROVE  s = f
  <1>1. Len(s) = Len(f) /\ \A i \in 1 .. Len(s) : s[i] = f[i]
    BY DEF StartOf
  <1> QED
    BY <1>1, SeqEqual

(* A script that has run to its end.                                        *)
LEMMA RulesFinish == RulesInv /\ Rules!Finish => RulesInv'
  <1> SUFFICES ASSUME RulesInv, Rules!Finish PROVE RulesInv'
    OBVIOUS
  <1>1. /\ RulesTyped /\ UpAt /\ DownAt /\ Rules!HookedIsConfined
        /\ verb # "none" /\ todo = <<>> /\ exit' = verb /\ verb' = "none"
        /\ env' = env /\ chain' = chain /\ jumps' = jumps /\ todo' = todo /\ faults' = faults
    BY DEF RulesInv, Rules!Finish
  <1>2. Len(todo) = 0 /\ Len(env) \in Nat
    BY <1>1 DEF RulesTyped
  <1>3. RulesTyped' /\ UpAt' /\ DownAt' /\ Rules!HookedIsConfined'
    <2>1. RulesTyped'
      BY <1>1 DEF RulesTyped
    <2>2. UpAt' /\ DownAt'
      BY <1>1 DEF UpAt, DownAt
    <2>3. Rules!HookedIsConfined'
      BY <1>1 DEF Rules!HookedIsConfined
    <2> QED
      BY <2>1, <2>2, <2>3
  <1>4. Rules!UpIsExact'
    <2> SUFFICES ASSUME verb = "up" PROVE Rules!UpIsExact'
      BY <1>1 DEF Rules!UpIsExact
    <2>1. UpState(0)
      BY <1>1, <1>2 DEF UpAt
    <2>2. jumps["filter"] = 1 /\ jumps["nat"] = 1
      BY <2>1 DEF UpState
    <2>3. /\ StartOf(chain["filter"].rules, FilterRules, FilterLen(Len(env), 0))
          /\ StartOf(chain["nat"].rules, NatRules, NatLen(Len(env), 0))
      BY <1>2, <2>1 DEF UpState
    <2>4. FilterLen(Len(env), 0) = Len(env) + 3 /\ NatLen(Len(env), 0) = Len(env) + 1
      BY <1>2, ChainLengths
    <2>5. chain["filter"].rules = FilterRules /\ chain["nat"].rules = NatRules
      <3>1. /\ chain["filter"].rules \in Seq(Rules!Rules) /\ chain["nat"].rules \in Seq(Rules!Rules)
            /\ env \in Seq(Networks)
        BY <1>1 DEF RulesTyped, Rules!Tables
      <3>2. /\ FilterRules \in Seq(Rules!Rules) /\ NatRules \in Seq(Rules!Rules)
            /\ Len(FilterRules) = Len(env) + 3 /\ Len(NatRules) = Len(env) + 1
        BY <3>1, CompleteChains
      <3>3. /\ StartOf(chain["filter"].rules, FilterRules, Len(FilterRules))
            /\ StartOf(chain["nat"].rules, NatRules, Len(NatRules))
        BY <2>3, <2>4, <3>2
      <3> QED
        BY <3>1, <3>2, <3>3, AllThere
    <2>6. \A t \in Rules!Tables : jumps'[t] = 1
      BY <1>1, <2>2 DEF Rules!Tables
    <2> QED
      BY <1>1, <2>5, <2>6, Zenon DEF Rules!UpIsExact, FilterRules, NatRules
  <1>5. Rules!DownUnhooks'
    <2> SUFFICES ASSUME verb = "down" PROVE Rules!DownUnhooks'
      BY <1>1 DEF Rules!DownUnhooks
    <2>1. DownState(0)
      BY <1>1, <1>2 DEF DownAt
    <2>2. /\ \A t \in Rules!Tables : jumps[t] = 0
          /\ faults = 0 => \A t \in Rules!Tables : chain[t] = Rules!NoChain
      BY <2>1 DEF DownState, Rules!Tables
    <2> QED
      BY <1>1, <2>2 DEF Rules!DownUnhooks
  <1> QED
    BY <1>3, <1>4, <1>5 DEF RulesInv


(* One command of a script that succeeds.                                   *)
LEMMA RulesSucceed == RulesInv /\ Rules!Succeeds => RulesInv'
  <1> SUFFICES ASSUME RulesInv, Rules!Succeeds PROVE RulesInv'
    OBVIOUS
  <1> DEFINE c == Head(todo)
             again == c.op = "unhook" /\ jumps[c.table] > 0
  <1>1. /\ RulesTyped /\ UpAt /\ DownAt /\ Rules!HookedIsConfined
        /\ todo # <<>> /\ Rules!Possible(c) /\ Rules!Effect(c)
        /\ todo' = IF again THEN todo ELSE Tail(todo)
        /\ env' = env /\ verb' = verb /\ exit' = exit /\ faults' = faults
    BY DEF RulesInv, Rules!Succeeds
  <1>2. todo \in Seq(Command) /\ env \in Seq(Networks) /\ env \in Rules!Destinations
    BY <1>1 DEF RulesTyped
  <1>3. verb \in {"up", "down"} /\ exit = "none"
    BY <1>1 DEF RulesTyped
  <1>4. Rules!UpIsExact' /\ Rules!DownUnhooks'
    BY <1>1, <1>3 DEF Rules!UpIsExact, Rules!DownUnhooks
  <1>5. /\ Len(todo) \in Nat /\ Len(todo) > 0 /\ c \in Command
        /\ Tail(todo) \in Seq(Command) /\ Len(Tail(todo)) = Len(todo) - 1
    BY <1>1, <1>2, EmptySeq, HeadTailProperties
  <1> DEFINE r == Len(todo)
  <1>6. RulesTyped'
    <2>1. /\ chain' \in [Rules!Tables -> [made : BOOLEAN, rules : Seq(Rules!Rules)]]
          /\ jumps' \in [Rules!Tables -> Nat]
          /\ \A t \in Rules!Tables : ~chain'[t].made => chain'[t] = Rules!NoChain
      BY <1>1, <1>5, CommandEffect
    <2>2. todo' \in Seq(Command)
      BY <1>1, <1>2, <1>5
    <2>3. env' \in Rules!Destinations /\ env' \in Seq(Networks) /\ verb' \in {"none", "up", "down"}
          /\ verb' # "none" /\ exit' = "none" /\ faults' \in Nat
      BY <1>1, <1>2, <1>3 DEF RulesTyped
    <2> QED
      BY <2>1, <2>2, <2>3 DEF RulesTyped
  <1>7. /\ c.table \in Rules!Tables
        /\ "filter" \in Rules!Tables /\ "nat" \in Rules!Tables
        /\ c.op = "unhook" => chain' = chain
        /\ \A t \in Rules!Tables : t # c.table => jumps'[t] = jumps[t]
        /\ jumps \in [Rules!Tables -> Nat]
    <2>1. "filter" \in Rules!Tables /\ "nat" \in Rules!Tables
      BY DEF Rules!Tables
    <2> QED
      BY <1>1, <1>5, <2>1, CommandEffect DEF RulesTyped
  <1>8. UpBack' = UpBack
    BY <1>1 DEF UpBack, Rules!PerDestination
  <1>9. UpAt' /\ DownAt'
    <2>1. CASE verb = "up"
      <3>1. r <= 2 * Len(env) + 14 /\ Remaining(todo, UpBack) /\ UpState(r)
        BY <1>1, <2>1 DEF UpAt
      <3>2. c = UpBack[r] /\ Remaining(Tail(todo), UpBack)
        BY <1>1, <1>2, <3>1, NextCommand
      <3>3. r \in 1 .. 2 * Len(env) + 14 /\ Len(env) \in Nat
        BY <1>2, <1>5, <3>1
      <3>4. PICK k \in 1 .. 2 * Len(env) + 14 : k = r
        BY <3>3
      <3>5. CASE again
        <4>1. UpState(k)'
          <5>1. c = UpBack[k] /\ UpBack[k].op = "unhook"
            BY <3>2, <3>4, <3>5
          <5>2. \/ k = 2 * Len(env) + 14
                \/ k = 2 * Len(env) + 13 /\ UpBack[k].table = "nat"
            BY <1>2, <5>1, UpOps
          <5>3. CASE k = 2 * Len(env) + 14
            BY <1>1, <3>3, <5>3 DEF UpState
          <5>4. CASE k = 2 * Len(env) + 13 /\ UpBack[k].table = "nat"
            <6>1. c.table = "nat"
              BY <5>1, <5>4
            <6>2. jumps["filter"] = 0
              BY <3>1, <3>3, <3>4, <5>4 DEF UpState
            <6>3. jumps'["filter"] = 0
              BY <1>7, <6>1, <6>2
            <6> QED
              BY <1>1, <3>3, <5>4, <6>3 DEF UpState
          <5> QED
            BY <5>2, <5>3, <5>4
        <4>2. todo' = todo
          BY <1>1, <3>5
        <4>3. Len(todo') = k /\ Len(env') = Len(env)
          BY <1>1, <4>2, <3>4
        <4>4. UpState(Len(todo))'
          BY <4>1, <4>3 DEF UpState
        <4> QED
          BY <1>1, <1>8, <2>1, <3>1, <4>2, <4>4 DEF UpAt, DownAt, Remaining
      <3>6. CASE ~again
        <4>1. c.op = "unhook" => jumps[c.table] = 0
          BY <1>7, <3>6
        <4>2. UpState(k - 1)'
          BY <1>1, <1>5, <3>1, <3>2, <3>4, <4>1, UpGoesOn
        <4>3. todo' = Tail(todo)
          BY <1>1, <3>6
        <4>4. Len(todo') = k - 1
          BY <1>5, <3>4, <4>3
        <4>5. UpState(Len(todo))'
          BY <4>2, <4>4 DEF UpState
        <4>6. Remaining(todo', UpBack)
          BY <3>2, <4>3
        <4>7. Len(todo') <= 2 * Len(env) + 14
          BY <3>3, <4>4
        <4> QED
          BY <1>1, <1>8, <2>1, <4>5, <4>6, <4>7 DEF UpAt, DownAt, Remaining
      <3> QED
        BY <3>5, <3>6
    <2>2. CASE verb = "down"
      <3>1. r <= 6 /\ Remaining(todo, DownBack) /\ DownState(r)
        BY <1>1, <2>2 DEF DownAt
      <3>2. c = DownBack[r] /\ Remaining(Tail(todo), DownBack)
        BY <1>1, <1>2, <3>1, NextCommand
      <3>3. r \in 1 .. 6
        BY <1>5, <3>1
      <3>4. PICK k \in 1 .. 6 : k = r
        BY <3>3
      <3>5. CASE again
        <4>1. \A x, t : Rules!Cmd(x, t).op = x /\ Rules!Cmd(x, t).table = t
          BY DEF Rules!Cmd
        <4>2. k = 6 \/ (k = 5 /\ c.table = "nat")
          <5>1. c = DownBack[k] /\ c.op = "unhook"
            BY <3>2, <3>4, <3>5
          <5>2. k # 4 /\ k # 3 /\ k # 2 /\ k # 1
            BY <4>1, <5>1, DownNext
          <5>3. k = 5 => c.table = "nat"
            BY <4>1, <5>1, DownNext
          <5> HIDE DEF c
          <5> QED
            BY <5>2, <5>3
        <4>3. DownState(k)'
          <5>1. CASE k = 6
            BY <1>1, <5>1 DEF DownState
          <5>2. CASE k = 5 /\ c.table = "nat"
            <6>1. jumps["filter"] = 0
              BY <3>1, <3>4, <5>2 DEF DownState
            <6>2. jumps'["filter"] = 0
              BY <1>7, <5>2, <6>1
            <6> QED
              BY <1>1, <5>2, <6>2 DEF DownState
          <5> QED
            BY <4>2, <5>1, <5>2
        <4>4. todo' = todo
          BY <1>1, <3>5
        <4>5. DownState(Len(todo))'
          BY <3>4, <4>3, <4>4 DEF DownState
        <4> QED
          BY <1>1, <2>2, <3>1, <4>4, <4>5 DEF UpAt, DownAt, Remaining
      <3>6. CASE ~again
        <4>1. c.op = "unhook" => jumps[c.table] = 0
          BY <1>7, <3>6
        <4>2. DownState(k - 1)'
          BY <1>1, <1>5, <3>1, <3>2, <3>4, <4>1, DownGoesOn
        <4>3. todo' = Tail(todo)
          BY <1>1, <3>6
        <4>4. Len(todo') = k - 1
          BY <1>5, <3>4, <4>3
        <4>5. DownState(Len(todo))'
          BY <4>2, <4>4 DEF DownState
        <4>6. Remaining(todo', DownBack) /\ Len(todo') <= 6
          BY <3>2, <4>3, <4>4
        <4> QED
          BY <1>1, <2>2, <4>5, <4>6 DEF UpAt, DownAt, Remaining
      <3> QED
        BY <3>5, <3>6
    <2> QED
      BY <1>3, <2>1, <2>2
  <1>10. Rules!HookedIsConfined'
    <2> SUFFICES ASSUME jumps'["filter"] > 0
                 PROVE  \E d \in Rules!Destinations :
                           chain'["filter"].rules = <<"replies">> \o d \o <<"reject", "return">>
      BY Zenon DEF Rules!HookedIsConfined
    <2>1. CASE c.op = "unhook"
      <3>1. jumps'[c.table] = IF jumps[c.table] > 0 THEN jumps[c.table] - 1 ELSE jumps[c.table]
        BY <1>1, <1>5, <2>1, CommandEffect
      <3>2. jumps["filter"] > 0
        <4>1. CASE c.table = "filter"
          BY <1>7, <3>1, <4>1
        <4>2. CASE c.table # "filter"
          BY <1>7, <4>2
        <4> QED
          BY <4>1, <4>2
      <3>3. chain' = chain
        BY <1>7, <2>1
      <3> QED
        BY <1>1, <3>2, <3>3, Zenon DEF Rules!HookedIsConfined
    <2>2. CASE c.op # "unhook" /\ verb = "up"
      <3>1. Len(todo') = r - 1 /\ Len(env) \in Nat /\ r <= 2 * Len(env) + 14
        BY <1>1, <1>2, <1>5, <2>2 DEF UpAt
      <3>2. UpState(Len(todo))' /\ Len(env') = Len(env)
        BY <1>1, <1>9, <2>2 DEF UpAt
      <3>3. PICK k \in Nat : k = Len(todo')
        <4>1. Len(todo') \in Nat
          BY <1>5, <3>1
        <4> QED
          BY <4>1
      <3>4. k < 2
        <4>1. k >= 2 /\ k <= 2 * Len(env) + 13 => jumps'["filter"] = 0
          BY <3>2, <3>3 DEF UpState
        <4> QED
          BY <1>5, <3>1, <3>3, <4>1
      <3>5. FilterRules' = FilterRules
        BY <1>1 DEF FilterRules
      <3>6. k <= 2 * Len(env) + 7 =>
               StartOf(chain'["filter"].rules, FilterRules, FilterLen(Len(env), k))
        BY <3>2, <3>3, <3>5 DEF UpState
      <3>7. /\ StartOf(chain'["filter"].rules, FilterRules, FilterLen(Len(env), k))
            /\ FilterLen(Len(env), k) = Len(env) + 3
        <4>1. k < 3 /\ k <= 2 * Len(env) + 7
          BY <3>1, <3>4
        <4>2. FilterLen(Len(env), k) = Len(env) + 3
          BY <3>1, <4>1, ChainLengths
        <4> QED
          BY <3>6, <4>1, <4>2
      <3>8. /\ FilterRules \in Seq(Rules!Rules) /\ Len(FilterRules) = Len(env) + 3
            /\ chain'["filter"].rules \in Seq(Rules!Rules)
        BY <1>2, <1>6, <1>7, CompleteChains DEF RulesTyped
      <3>9. chain'["filter"].rules = FilterRules
        BY <3>7, <3>8, AllThere
      <3> QED
        BY <1>2, <3>9, Zenon DEF FilterRules
    <2>3. CASE c.op # "unhook" /\ verb = "down"
      <3>1. Len(todo') = r - 1 /\ r <= 6
        BY <1>1, <1>5, <2>3 DEF DownAt
      <3>2. DownState(Len(todo))'
        BY <1>1, <1>9, <2>3 DEF DownAt
      <3>3. jumps'["filter"] = 0
        BY <1>5, <3>1, <3>2 DEF DownState
      <3> QED
        BY <3>3
    <2> QED
      BY <1>3, <2>1, <2>2, <2>3
  <1> QED
    BY <1>4, <1>6, <1>9, <1>10 DEF RulesInv


(* One command of a script that fails and is ignored.                       *)
LEMMA RulesIgnore == RulesInv /\ Rules!FailsIgnored => RulesInv'
  <1> SUFFICES ASSUME RulesInv, Rules!FailsIgnored PROVE RulesInv'
    OBVIOUS
  <1> DEFINE c == Head(todo)
             r == Len(todo)
  <1>1. /\ RulesTyped /\ UpAt /\ DownAt /\ Rules!HookedIsConfined
        /\ todo # <<>> /\ c.op \in Rules!Ignored /\ todo' = Tail(todo)
        /\ \/ ~Rules!Possible(c) /\ faults' = faults
           \/ faults' = faults + 1
        /\ env' = env /\ chain' = chain /\ jumps' = jumps /\ verb' = verb /\ exit' = exit
    BY DEF RulesInv, Rules!FailsIgnored
  <1>2. todo \in Seq(Command) /\ env \in Seq(Networks) /\ faults \in Nat
    BY <1>1 DEF RulesTyped
  <1>3. verb \in {"up", "down"} /\ exit = "none"
    BY <1>1 DEF RulesTyped
  <1>4. Rules!UpIsExact' /\ Rules!DownUnhooks' /\ Rules!HookedIsConfined'
    BY <1>1, <1>3 DEF Rules!UpIsExact, Rules!DownUnhooks, Rules!HookedIsConfined
  <1>5. /\ r \in Nat /\ r > 0
        /\ Tail(todo) \in Seq(Command) /\ Len(Tail(todo)) = r - 1
    BY <1>1, <1>2, EmptySeq, HeadTailProperties
  <1>6. RulesTyped'
    <2>1. todo' \in Seq(Command) /\ faults' \in Nat
      BY <1>1, <1>2, <1>5
    <2> QED
      BY <1>1, <1>3, <2>1 DEF RulesTyped
  <1>7. UpBack' = UpBack
    BY <1>1 DEF UpBack, Rules!PerDestination
  <1>8. CASE verb = "up"
    <2>1. r <= 2 * Len(env) + 14 /\ Remaining(todo, UpBack) /\ UpState(r)
      BY <1>1, <1>8 DEF UpAt
    <2>2. c = UpBack[r] /\ Remaining(Tail(todo), UpBack)
      BY <1>1, <1>2, <2>1, NextCommand
    <2>3. r \in 1 .. 2 * Len(env) + 14 /\ Len(env) \in Nat
      BY <1>2, <1>5, <2>1
    <2>4. PICK k \in 1 .. 2 * Len(env) + 14 : k = r
      BY <2>3
    <2>5. UpState(k - 1)'
      BY <1>1, <2>1, <2>2, <2>4, UpIgnores
    <2>6. Len(todo') = k - 1 /\ Len(todo') <= 2 * Len(env) + 14
      BY <1>1, <1>5, <2>3, <2>4
    <2>7. UpState(Len(todo))'
      BY <2>5, <2>6 DEF UpState
    <2>8. Remaining(todo', UpBack)
      BY <1>1, <2>2
    <2>9. UpAt' /\ DownAt'
      BY <1>1, <1>7, <1>8, <2>6, <2>7, <2>8 DEF UpAt, DownAt, Remaining
    <2> QED
      BY <1>4, <1>6, <2>9 DEF RulesInv
  <1>9. CASE verb = "down"
    <2>1. r <= 6 /\ Remaining(todo, DownBack) /\ DownState(r)
      BY <1>1, <1>9 DEF DownAt
    <2>2. c = DownBack[r] /\ Remaining(Tail(todo), DownBack)
      BY <1>1, <1>2, <2>1, NextCommand
    <2>3. PICK k \in 1 .. 6 : k = r
      BY <1>5, <2>1
    <2>4. DownState(k - 1)'
      BY <1>1, <2>1, <2>2, <2>3, DownIgnores
    <2>5. Len(todo') = k - 1 /\ Len(todo') <= 6
      BY <1>1, <1>5, <2>3
    <2>6. DownState(Len(todo))'
      BY <2>4, <2>5 DEF DownState
    <2>7. Remaining(todo', DownBack)
      BY <1>1, <2>2
    <2>8. UpAt' /\ DownAt'
      BY <1>1, <1>9, <2>5, <2>6, <2>7 DEF UpAt, DownAt, Remaining
    <2> QED
      BY <1>4, <1>6, <2>8 DEF RulesInv
  <1> QED
    BY <1>3, <1>8, <1>9

(* Every step of the packet filter.                                         *)
LEMMA RulesStep == RulesInv /\ Rules!Next => RulesInv'
  BY RulesBegin, RulesBreak, RulesSucceed, RulesIgnore, RulesFinish DEF Rules!Next

----------------------------------------------------------------------------
(***************************************************************************)
(* The route check.  Prefixes first: masking keeps the addresses, and the   *)
(* check's comparison of two prefixes is exact.                             *)
(***************************************************************************)
(* The powers of two of the route check are those of the lemmas.            *)
LEMMA RoutePowers == Routes!Pow2 = Pow2
  BY DEF Routes!Pow2, Pow2

(* A word is two bytes.                                                     *)
LEMMA Bytes ==
    /\ Width \in Nat /\ Width \div 2 \in Nat /\ Width = (Width \div 2) + (Width \div 2)
    /\ Routes!Byte = Pow2[Width \div 2] /\ Routes!Byte \in Nat /\ Routes!Byte > 0
    /\ Pow2[Width] = Routes!Byte * Routes!Byte /\ Pow2[Width] \in Nat
    /\ \A a : a \in Routes!AddressSpace <=> a \in Nat /\ a < Pow2[Width]
  <1>1. Width \in Nat /\ Width % 2 = 0
    BY PartsAssumption DEF Routes!WidthAssumption
  <1>2. Width \div 2 \in Nat /\ Width = (Width \div 2) + (Width \div 2)
    BY <1>1
  <1>3. Pow2[Width] \in Nat /\ Pow2[Width \div 2] \in Nat /\ Pow2[Width \div 2] > Width \div 2
    BY <1>1, <1>2, Pow2Exceeds
  <1>4. Pow2[Width] = Pow2[Width \div 2] * Pow2[Width \div 2]
    BY <1>2, Pow2Sum
  <1>5. Routes!Byte = Pow2[Width \div 2]
    BY RoutePowers DEF Routes!Byte
  <1>6. \A a : a \in Routes!AddressSpace <=> a \in Nat /\ a < Pow2[Width]
    BY <1>3, RoutePowers DEF Routes!AddressSpace
  <1> QED
    BY <1>1, <1>2, <1>3, <1>4, <1>5, <1>6

(* A prefix holds a power of two of addresses.                              *)
LEMMA RouteSize ==
    ASSUME NEW p \in Routes!Prefix
    PROVE  /\ p.bits \in 0 .. Width /\ p.addr \in Nat /\ p.addr < Pow2[Width]
           /\ Width - p.bits \in Nat
           /\ p = [addr |-> p.addr, bits |-> p.bits]
           /\ Routes!Size(p) = Pow2[Width - p.bits]
           /\ Routes!Size(p) \in Nat /\ Routes!Size(p) > 0
  <1>1. /\ p.bits \in 0 .. Width /\ p.addr \in Routes!AddressSpace
        /\ p = [addr |-> p.addr, bits |-> p.bits]
    BY DEF Routes!Prefix
  <1>2. p.addr \in Nat /\ p.addr < Pow2[Width]
    BY <1>1, Bytes
  <1>3. Width - p.bits \in Nat
    BY <1>1, Bytes
  <1>4. Routes!Size(p) = Pow2[Width - p.bits]
    BY RoutePowers DEF Routes!Size
  <1>5. Pow2[Width - p.bits] \in Nat /\ Pow2[Width - p.bits] > Width - p.bits
    BY <1>3, Pow2Exceeds
  <1> QED
    BY <1>1, <1>2, <1>3, <1>4, <1>5

(* Masking a prefix leaves its addresses what they are.                     *)
LEMMA MaskedRoute ==
    ASSUME NEW p \in Routes!Prefix
    PROVE  /\ Routes!Masked(p) \in Routes!Prefix /\ Routes!Masked(p).bits = p.bits
           /\ Routes!Members(Routes!Masked(p)) = Routes!Members(p)
  <1> DEFINE s == Routes!Size(p)
             m == p.addr - (p.addr % s)
             q == [addr |-> m, bits |-> p.bits]
  <1>1. s \in Nat /\ s > 0 /\ p.addr \in Nat /\ p.addr < Pow2[Width] /\ p.bits \in 0 .. Width
    BY RouteSize
  <1>2. /\ p.addr \div s \in Nat /\ p.addr % s \in Nat
        /\ p.addr = ((p.addr \div s) * s) + (p.addr % s)
    BY <1>1, DivMod
  <1>3. m \in Nat /\ m <= p.addr /\ m = (p.addr \div s) * s + 0
    <2>1. \A x, k, d, r \in Nat : x = k * d + r => x - r \in Nat /\ x - r <= x /\ x - r = k * d + 0
      OBVIOUS
    <2> DEFINE k == p.addr \div s
               c == p.addr % s
    <2>2. k \in Nat /\ c \in Nat /\ p.addr = k * s + c /\ m = p.addr - c
      BY <1>2
    <2> HIDE DEF s, k, c, m
    <2>3. m \in Nat /\ m <= p.addr /\ m = k * s + 0
      BY <1>1, <2>1, <2>2
    <2> QED
      BY <2>3 DEF k
  <1>4. m \div s = p.addr \div s
    <2> DEFINE k == p.addr \div s
    <2>1. m = k * s + 0 /\ k \in Nat
      BY <1>2, <1>3
    <2> HIDE DEF s, k, m
    <2>2. (k * s + 0) \div s = k
      BY <1>1, <2>1, DivUnique
    <2> QED
      BY <2>1, <2>2 DEF k
  <1>5. Routes!Masked(p) = q
    BY RouteSize DEF Routes!Masked
  <1>6. q \in Routes!Prefix
    <2>1. m \in Routes!AddressSpace
      BY <1>1, <1>3, Bytes
    <2> QED
      BY <1>1, <2>1 DEF Routes!Prefix
  <1>7. Routes!Size(q) = s
    BY DEF Routes!Size
  <1>8. \A a : Routes!PrefixContains(q, a) = Routes!PrefixContains(p, a)
    BY <1>4, <1>7 DEF Routes!PrefixContains
  <1>9. Routes!Members(q) = Routes!Members(p)
    BY <1>8 DEF Routes!Members
  <1> QED
    BY <1>5, <1>6, <1>9

(* Two prefixes overlap exactly when they have an address in common.        *)
LEMMA RoutesMeet ==
    ASSUME NEW p \in Routes!Prefix, NEW q \in Routes!Prefix
    PROVE  Routes!Overlap(p, q) <=> Routes!Members(p) \cap Routes!Members(q) # {}
  <1>1. ASSUME NEW r \in Routes!Prefix
        PROVE  r.addr \in Routes!Members(r) /\ r.addr \in Routes!AddressSpace
    BY DEF Routes!Prefix, Routes!Members, Routes!PrefixContains
  <1>2. ASSUME Routes!Overlap(p, q) PROVE Routes!Members(p) \cap Routes!Members(q) # {}
    BY <1>1, <1>2 DEF Routes!Overlap, Routes!Members
  <1>3. ASSUME NEW r \in Routes!Prefix, NEW s \in Routes!Prefix, r.bits >= s.bits,
               NEW a \in Routes!Members(r) \cap Routes!Members(s)
        PROVE  Routes!PrefixContains(s, r.addr)
    <2> DEFINE i == Width - r.bits
               j == Width - s.bits
    <2>1. /\ i \in Nat /\ j \in Nat /\ i <= j /\ r.addr \in Nat /\ s.addr \in Nat
          /\ Routes!Size(r) = Pow2[i] /\ Routes!Size(s) = Pow2[j]
      BY <1>3, RouteSize, Bytes
    <2>2. a \in Nat /\ Routes!PrefixContains(r, a) /\ Routes!PrefixContains(s, a)
      BY Bytes DEF Routes!Members
    <2>3. a \div Pow2[i] = r.addr \div Pow2[i] /\ a \div Pow2[j] = s.addr \div Pow2[j]
      BY <2>1, <2>2 DEF Routes!PrefixContains
    <2>4. a \div Pow2[j] = r.addr \div Pow2[j]
      <3> HIDE DEF i, j
      <3> QED
        BY <2>1, <2>2, <2>3, Nested
    <2> QED
      BY <2>1, <2>3, <2>4 DEF Routes!PrefixContains
  <1>4. ASSUME NEW a \in Routes!Members(p) \cap Routes!Members(q) PROVE Routes!Overlap(p, q)
    <2>1. p.bits >= q.bits \/ q.bits >= p.bits
      BY RouteSize
    <2> QED
      BY <1>3, <2>1 DEF Routes!Overlap
  <1> QED
    BY <1>2, <1>4

----------------------------------------------------------------------------
(***************************************************************************)
(* The words of /proc/net/route.  Read in network order, the bits of a mask *)
(* are those of the number that its bytes make.                             *)
(***************************************************************************)
Swap(word) == (word % Routes!Byte) * Routes!Byte + (word \div Routes!Byte)

(* Exchanging the bytes of a word gives a word.                             *)
LEMMA SwapWord ==
    ASSUME NEW w \in Routes!Word
    PROVE  /\ w % Routes!Byte \in Nat /\ w % Routes!Byte < Routes!Byte
           /\ w \div Routes!Byte \in Nat /\ w \div Routes!Byte < Routes!Byte
           /\ Swap(w) \in Nat /\ Swap(w) < Pow2[Width]
  <1> DEFINE b == Routes!Byte
             x == w % b
             y == w \div b
  <1>1. w \in Nat /\ w < b * b /\ b \in Nat /\ b > 0 /\ Pow2[Width] = b * b
    BY Bytes DEF Routes!Word
  <1> HIDE DEF b
  <1>2. x \in Nat /\ x < b /\ y \in Nat /\ w = (y * b) + x
    BY <1>1, DivMod
  <1> HIDE DEF x, y
  <1>3. y < b
    BY <1>1, <1>2
  <1>4. x * b + y \in Nat /\ x * b + y < b * b
    <2>1. (x + 1) * b <= b * b
      BY <1>1, <1>2
    <2> QED
      BY <1>1, <1>2, <1>3, <2>1
  <1> QED
    BY <1>1, <1>2, <1>3, <1>4 DEF Swap, b, x, y

\* The bits of a mask as netMaskBits meets them.
MaskBits(w) ==
    Routes!BitsOf(Routes!PutUint(w)[1]) \o Routes!BitsOf(Routes!PutUint(w)[2])

\* The number that the first j of Width bits make.
Top(m, j) == m \div Pow2[Width - j]

(* Bit j is the lowest bit of the number that the first j bits make.        *)
LEMMA BitsInOrder ==
    ASSUME NEW w \in Routes!Word, NEW j \in 1 .. Width
    PROVE  MaskBits(w)[j] = (Top(Swap(w), j) % 2 = 1)
  <1> DEFINE h == Width \div 2
             B == Routes!Byte
             x == w % B
             y == w \div B
  <1>1. /\ h \in Nat /\ Width = h + h /\ B = Pow2[h] /\ B \in Nat /\ B > 0
        /\ x \in Nat /\ x < B /\ y \in Nat /\ y < B /\ Swap(w) = x * B + y
        /\ j \in Nat
    BY Bytes, SwapWord DEF Swap
  <1> HIDE DEF B
  <1>2. Routes!PutUint(w)[1] = x /\ Routes!PutUint(w)[2] = y
    BY DEF Routes!PutUint, B
  <1>3. \A v : Routes!BitsOf(v) = [i \in 1 .. h |-> (v \div Pow2[h - i]) % 2 = 1]
    BY RoutePowers DEF Routes!BitsOf
  <1> HIDE DEF h, x, y
  <1>4. ASSUME NEW v PROVE Routes!BitsOf(v) \in Seq(BOOLEAN) /\ Len(Routes!BitsOf(v)) = h
    <2>1. \A i \in 1 .. h : ((v \div Pow2[h - i]) % 2 = 1) \in BOOLEAN
      OBVIOUS
    <2>2. Routes!BitsOf(v) \in [1 .. h -> BOOLEAN]
      BY <1>3, <2>1
    <2> QED
      BY <1>1, <2>2
  <1>5. MaskBits(w)[j] = IF j <= h THEN Routes!BitsOf(x)[j] ELSE Routes!BitsOf(y)[j - h]
    BY <1>1, <1>2, <1>4 DEF MaskBits
  <1>6. CASE j <= h
    <2>1. h - j \in Nat /\ h + (h - j) = Width - j /\ j \in 1 .. h
      BY <1>1, <1>6
    <2> DEFINE d == Pow2[h - j]
    <2>2. d \in Nat /\ d > 0 /\ Pow2[Width - j] = B * d
      <3> DEFINE k == h - j
      <3>1. k \in Nat /\ h \in Nat /\ Width - j = h + k
        BY <1>1, <2>1
      <3> HIDE DEF k
      <3>2. Pow2[h + k] = Pow2[h] * Pow2[k] /\ Pow2[k] \in Nat /\ Pow2[k] > k
        BY <3>1, Pow2Sum, Pow2Exceeds
      <3> QED
        BY <1>1, <3>1, <3>2 DEF k
    <2>3. Routes!BitsOf(x)[j] = ((x \div d) % 2 = 1)
      BY <1>3, <2>1
    <2> HIDE DEF d
    <2>4. (x * B + y) \div (B * d) = ((x * B + y) \div B) \div d
      BY <1>1, <2>2, DivDiv
    <2>5. (x * B + y) \div B = x
      BY <1>1, DivUnique
    <2> QED
      BY <1>1, <1>5, <1>6, <2>2, <2>3, <2>4, <2>5 DEF Top
  <1>7. CASE ~(j <= h)
    <2> DEFINE i == j - h
               k == Width - j
               d == Pow2[k]
               e == Pow2[i - 1]
    <2>1. i \in 1 .. h /\ i \in Nat /\ i - 1 \in Nat /\ k \in Nat /\ k + i = h /\ h - i = k
          /\ (i - 1) + 1 = i
      BY <1>1, <1>7
    <2>2. d \in Nat /\ d > 0 /\ e \in Nat /\ Pow2[i] = 2 * e /\ B = d * Pow2[i]
      <3> HIDE DEF i, k
      <3>1. Pow2[k + i] = Pow2[k] * Pow2[i]
        BY <2>1, Pow2Sum
      <3>2. Pow2[(i - 1) + 1] = 2 * Pow2[i - 1]
        BY <2>1, Pow2Facts
      <3> QED
        BY <1>1, <2>1, <3>1, <3>2, Pow2Exceeds
    <2>3. Routes!BitsOf(y)[i] = ((y \div d) % 2 = 1)
      BY <1>3, <2>1
    <2>4. MaskBits(w)[j] = Routes!BitsOf(y)[i]
      BY <1>5, <1>7
    <2>5. Top(Swap(w), j) = (x * B + y) \div d
      BY <1>1 DEF Top
    <2> DEFINE q == y \div d
               r == y % d
    <2> HIDE DEF d, e, i, k
    <2>6. q \in Nat /\ r \in Nat /\ r < d /\ y = q * d + r
      BY <1>1, <2>2, DivMod
    <2>7. (x * B + y) = (2 * (x * e) + q) * d + r
      <3> HIDE DEF q, r
      <3>1. B = d * (2 * e)
        BY <2>2
      <3>2. x * (d * (2 * e)) = (2 * (x * e)) * d
        BY <1>1, <2>2
      <3>3. (2 * (x * e)) * d + q * d = (2 * (x * e) + q) * d
        BY <1>1, <2>2, <2>6
      <3> QED
        BY <1>1, <2>2, <2>6, <3>1, <3>2, <3>3
    <2>8. (x * B + y) \div d = 2 * (x * e) + q
      <3> DEFINE z == 2 * (x * e) + q
      <3> HIDE DEF q, r
      <3>1. z \in Nat
        BY <1>1, <2>2, <2>6
      <3> HIDE DEF z
      <3>2. (z * d + r) \div d = z
        BY <2>2, <2>6, <3>1, DivUnique
      <3> QED
        BY <2>7, <3>2 DEF z
    <2>9. (2 * (x * e) + q) % 2 = q % 2
      <3> HIDE DEF q
      <3>1. x * e \in Nat
        BY <1>1, <2>2
      <3>2. \A u, v \in Nat : (2 * u + v) % 2 = v % 2
        OBVIOUS
      <3> QED
        BY <2>6, <3>1, <3>2
    <2> QED
      BY <2>3, <2>4, <2>5, <2>8, <2>9
  <1> QED
    BY <1>6, <1>7

\* What the loop of netMaskBits keeps.
Counts == [bits : Int, zeroSeen : BOOLEAN]

(* One turn of the loop.                                                    *)
LEMMA Turn ==
    ASSUME NEW acc \in Counts, NEW set \in BOOLEAN
    PROVE  /\ Routes!CountBit(acc, set) \in Counts
           /\ acc.bits < 0 => Routes!CountBit(acc, set) = acc
           /\ acc.bits >= 0 /\ acc.zeroSeen /\ set => Routes!CountBit(acc, set).bits = -1
           /\ acc.bits >= 0 /\ ~acc.zeroSeen /\ set =>
                 Routes!CountBit(acc, set) = [bits |-> acc.bits + 1, zeroSeen |-> FALSE]
           /\ acc.bits >= 0 /\ ~set =>
                 Routes!CountBit(acc, set) = [bits |-> acc.bits, zeroSeen |-> TRUE]
  <1>0. acc.bits \in Int /\ (acc.bits >= 0 => ~(acc.bits < 0))
    BY DEF Counts
  <1>1. CASE acc.bits < 0
    <2>1. Routes!CountBit(acc, set) = acc
      BY <1>1 DEF Routes!CountBit
    <2> QED
      BY <1>0, <1>1, <2>1
  <1>2. CASE acc.bits >= 0 /\ acc.zeroSeen /\ set
    <2>1. Routes!CountBit(acc, set) = [bits |-> -1, zeroSeen |-> TRUE]
      BY <1>0, <1>2, Zenon DEF Routes!CountBit
    <2>2. [bits |-> -1, zeroSeen |-> TRUE] \in Counts
      BY DEF Counts
    <2>3. Routes!CountBit(acc, set).bits = -1
      BY <2>1
    <2> QED
      BY <1>0, <1>2, <2>1, <2>2, <2>3, Zenon
  <1>3. CASE acc.bits >= 0 /\ ~acc.zeroSeen /\ set
    <2>1. Routes!CountBit(acc, set) = [bits |-> acc.bits + 1, zeroSeen |-> FALSE]
      BY <1>0, <1>3, Zenon DEF Routes!CountBit
    <2>2. [bits |-> acc.bits + 1, zeroSeen |-> FALSE] \in Counts
      BY <1>0 DEF Counts
    <2> QED
      BY <1>0, <1>3, <2>1, <2>2, Zenon
  <1>4. CASE acc.bits >= 0 /\ ~set
    <2>1. Routes!CountBit(acc, set) = [bits |-> acc.bits, zeroSeen |-> TRUE]
      BY <1>0, <1>4, Zenon DEF Routes!CountBit
    <2>2. [bits |-> acc.bits, zeroSeen |-> TRUE] \in Counts
      BY <1>0 DEF Counts
    <2> QED
      BY <1>0, <1>4, <2>1, <2>2, Zenon
  <1> QED
    BY <1>0, <1>1, <1>2, <1>3, <1>4

\* The runs of the loop over the bits of a mask.
Loops(w) ==
    {f \in [0 .. Width -> Counts] :
        /\ f[0] = [bits |-> 0, zeroSeen |-> FALSE]
        /\ \A i \in 0 .. Width - 1 : f[i + 1] = Routes!CountBit(f[i], MaskBits(w)[i + 1])}

(* The bits are truth values.                                               *)
LEMMA BitsTyped == ASSUME NEW w \in Routes!Word PROVE \A j \in 1 .. Width : MaskBits(w)[j] \in BOOLEAN
  BY BitsInOrder

(* netMaskBits returns what a run of its loop ends with.                    *)
LEMMA LoopRuns ==
    ASSUME NEW w \in Routes!Word
    PROVE  \E f \in Loops(w) : Routes!NetMaskBits(Routes!PutUint(w)) = f[Width].bits
  <1> DEFINE start == [bits |-> 0, zeroSeen |-> FALSE]
             bit(i) == MaskBits(w)[i]
             E(f) == f = [i \in 0 .. Width |->
                             IF i = 0 THEN start ELSE Routes!CountBit(f[i - 1], bit(i))]
             loop == CHOOSE f : E(f)
             step == [n \in Nat |-> [acc \in Counts |->
                         IF n < Width THEN Routes!CountBit(acc, bit(n + 1)) ELSE acc]]
  <1>1. Width \in Nat
    BY Bytes
  <1>2. start \in Counts
    BY DEF Counts
  <1>3. step \in [Nat -> [Counts -> Counts]]
    <2>1. ASSUME NEW n \in Nat, NEW acc \in Counts, n < Width
          PROVE  Routes!CountBit(acc, bit(n + 1)) \in Counts
      <3>1. n + 1 \in 1 .. Width
        BY <1>1, <2>1
      <3>2. bit(n + 1) \in BOOLEAN
        BY <3>1, BitsTyped
      <3> QED
        BY <3>2, Turn
    <2> HIDE DEF bit
    <2> QED
      BY <2>1
  <1>4. PICK g \in Runs(Counts, start, step, Width) : TRUE
    <2> HIDE DEF start, step
    <2> QED
      BY <1>1, <1>2, <1>3, RunExists
  <1>5. /\ g \in [0 .. Width -> Counts] /\ g[0] = start
        /\ \A i \in 0 .. Width - 1 : g[i + 1] = step[i][g[i]]
    <2> HIDE DEF start, step
    <2> QED
      BY <1>4 DEF Runs
  <1>6. ASSUME NEW i \in 0 .. Width - 1
        PROVE  g[i + 1] = Routes!CountBit(g[i], bit(i + 1)) /\ g[i] \in Counts
    <2>1. i \in Nat /\ i < Width /\ i \in 0 .. Width
      BY <1>1
    <2>2. g[i] \in Counts
      BY <1>5, <2>1
    <2> HIDE DEF bit
    <2>3. step[i][g[i]] = Routes!CountBit(g[i], bit(i + 1))
      BY <2>1, <2>2
    <2> HIDE DEF step
    <2> QED
      BY <1>5, <2>2, <2>3
  <1>7. E(g)
    <2>1. ASSUME NEW i \in 0 .. Width
          PROVE  g[i] = IF i = 0 THEN start ELSE Routes!CountBit(g[i - 1], bit(i))
      <3>1. CASE i = 0
        BY <1>5, <3>1
      <3>2. CASE i # 0
        <4>1. i - 1 \in 0 .. Width - 1 /\ (i - 1) + 1 = i
          BY <1>1, <3>2
        <4> HIDE DEF bit, start
        <4> QED
          BY <1>6, <3>2, <4>1
      <3> QED
        BY <3>1, <3>2
    <2>2. g = [i \in 0 .. Width |-> g[i]]
      BY <1>5
    <2> HIDE DEF bit, start
    <2> QED
      BY <2>1, <2>2
  <1>8. E(loop)
    <2> HIDE DEF E
    <2> QED
      BY <1>7
  <1>9. Routes!NetMaskBits(Routes!PutUint(w)) = loop[Width].bits
    BY DEF Routes!NetMaskBits, MaskBits
  <1>10. \A i \in 0 .. Width :
            loop[i] = IF i = 0 THEN start ELSE Routes!CountBit(loop[i - 1], bit(i))
    <2> HIDE DEF loop, bit, start
    <2> QED
      BY <1>8
  <1>11. ASSUME NEW i \in Nat PROVE i <= Width => loop[i] = g[i]
    <2> DEFINE S == {n \in Nat : n <= Width => loop[n] = g[n]}
    <2>1. 0 \in S
      <3> HIDE DEF loop, bit, start
      <3> QED
        BY <1>1, <1>5, <1>10
    <2>2. ASSUME NEW n \in Nat, n \in S PROVE n + 1 \in S
      <3>1. SUFFICES ASSUME n + 1 <= Width PROVE loop[n + 1] = g[n + 1]
        OBVIOUS
      <3>2. n + 1 \in 0 .. Width /\ n + 1 # 0 /\ (n + 1) - 1 = n /\ n \in 0 .. Width - 1 /\ n <= Width
        BY <1>1, <3>1
      <3>3. loop[n] = g[n]
        BY <2>2, <3>2
      <3> HIDE DEF loop, bit, start
      <3>4. loop[n + 1] = Routes!CountBit(loop[n], bit(n + 1))
        BY <1>10, <3>2
      <3> QED
        BY <1>6, <3>2, <3>3, <3>4
    <2>3. Nat \subseteq S
      <3> HIDE DEF S
      <3> QED
        BY <2>1, <2>2, SetInduction
    <2> QED
      BY <2>3
  <1>12. g \in Loops(w)
    BY <1>5, <1>6 DEF Loops
  <1>13. loop[Width] = g[Width]
    <2> HIDE DEF loop
    <2> QED
      BY <1>1, <1>11
  <1> HIDE DEF loop
  <1> QED
    BY <1>9, <1>12, <1>13

\* n ones and then zeros, j bits in all.
Ones(j, n) == Pow2[j] - Pow2[j - n]

(* The ones in front of the zeros can be counted.                           *)
LEMMA OnesUnique ==
    ASSUME NEW j \in Nat, NEW n \in 0 .. j, NEW k \in 0 .. j, Ones(j, n) = Ones(j, k)
    PROVE  n = k
  <1>1. j - n \in Nat /\ j - k \in Nat
    OBVIOUS
  <1>2. Pow2[j] \in Nat /\ Pow2[j - n] \in Nat /\ Pow2[j - k] \in Nat
    BY <1>1, Pow2Exceeds
  <1>3. Pow2[j - n] = Pow2[j - k]
    BY <1>2 DEF Ones
  <1>4. j - n = j - k
    BY <1>1, <1>3, Pow2Injective
  <1> QED
    BY <1>4

(* One more bit: a zero leaves the ones what they are, a one must follow    *)
(* ones only.                                                               *)
LEMMA OneMoreBit ==
    ASSUME NEW j \in Nat, NEW t \in Nat, NEW b \in {0, 1}, NEW k \in 0 .. j + 1
    PROVE  2 * t + b = Ones(j + 1, k) <=>
              \/ b = 0 /\ k <= j /\ t = Ones(j, k)
              \/ b = 1 /\ k = j + 1 /\ t = Ones(j, j)
  <1>1. Pow2[0] = 1 /\ Pow2[j] \in Nat /\ Pow2[j + 1] = 2 * Pow2[j]
    BY Pow2Facts
  <1>2. CASE k <= j
    <2>1. j - k \in Nat /\ (j + 1) - k = (j - k) + 1
      BY <1>2
    <2>2. Pow2[j - k] \in Nat /\ Pow2[(j - k) + 1] = 2 * Pow2[j - k]
      BY <2>1, Pow2Facts
    <2>3. Ones(j + 1, k) = 2 * Ones(j, k) /\ Ones(j, k) \in Int
      BY <1>1, <2>1, <2>2 DEF Ones
    <2> HIDE DEF Ones
    <2> QED
      BY <1>2, <2>3
  <1>3. CASE k = j + 1
    <2>1. (j + 1) - k = 0 /\ j - j = 0
      BY <1>3
    <2>2. Ones(j + 1, k) = 2 * Pow2[j] - 1 /\ Ones(j, j) = Pow2[j] - 1
      BY <1>1, <2>1 DEF Ones
    <2> QED
      BY <1>1, <1>3, <2>2
  <1> QED
    BY <1>2, <1>3

(* The numbers that more and more bits of a word make.                      *)
LEMMA TopNext ==
    ASSUME NEW m \in Nat, m < Pow2[Width]
    PROVE  /\ Top(m, 0) = 0 /\ Top(m, Width) = m
           /\ \A j \in 0 .. Width : Top(m, j) \in Nat
           /\ \A j \in 0 .. Width - 1 : Top(m, j + 1) = 2 * Top(m, j) + (Top(m, j + 1) % 2)
  <1>1. Width \in Nat /\ Width - 0 = Width /\ Width - Width = 0
    BY Bytes
  <1>2. Top(m, 0) = 0
    <2>1. Pow2[Width] \in Nat /\ Top(m, 0) = m \div Pow2[Width]
      BY <1>1, Pow2Exceeds DEF Top
    <2>2. \A a, b \in Nat : a < b => a \div b = 0
      OBVIOUS
    <2> QED
      BY <2>1, <2>2
  <1>3. Top(m, Width) = m
    <2>1. Top(m, Width) = m \div 1
      BY <1>1, Pow2Facts DEF Top
    <2> QED
      BY <2>1
  <1>4. ASSUME NEW j \in 0 .. Width PROVE Top(m, j) \in Nat
    <2>1. Width - j \in Nat
      BY <1>1
    <2>2. Pow2[Width - j] \in Nat /\ Pow2[Width - j] > Width - j
      BY <2>1, Pow2Exceeds
    <2>3. Pow2[Width - j] > 0
      BY <2>1, <2>2
    <2> QED
      BY <2>2, <2>3, DivMod DEF Top
  <1>5. ASSUME NEW j \in 0 .. Width - 1
        PROVE  Top(m, j + 1) = 2 * Top(m, j) + (Top(m, j + 1) % 2)
    <2> DEFINE k == Width - (j + 1)
               d == Pow2[k]
    <2>1. k \in Nat /\ Width - j = k + 1 /\ j + 1 \in 0 .. Width
      BY <1>1
    <2>2. d \in Nat /\ d > 0 /\ Pow2[Width - j] = d * 2
      <3> HIDE DEF k
      <3>1. Pow2[k] \in Nat /\ Pow2[k] > k /\ Pow2[k + 1] = 2 * Pow2[k]
        BY <2>1, Pow2Facts, Pow2Exceeds
      <3> QED
        BY <2>1, <3>1
    <2>3. Top(m, j + 1) = m \div d /\ Top(m, j) = m \div (d * 2)
      BY <2>2 DEF Top
    <2> HIDE DEF k, d
    <2>4. m \div (d * 2) = (m \div d) \div 2
      BY <2>2, DivDiv
    <2>5. Top(m, j + 1) \in Nat
      BY <1>4, <2>1
    <2>6. \A a \in Nat : a = 2 * (a \div 2) + (a % 2)
      OBVIOUS
    <2> QED
      BY <2>3, <2>4, <2>5, <2>6
  <1> QED
    BY <1>2, <1>3, <1>4, <1>5

\* What the loop has found out after j bits that make the number t.
Counted(acc, j, t) ==
    IF acc.bits < 0
      THEN \A k \in 0 .. j : t # Ones(j, k)
      ELSE /\ acc.bits \in 0 .. j /\ t = Ones(j, acc.bits)
           /\ acc.zeroSeen <=> acc.bits < j

(* A turn of the loop keeps it found out.                                   *)
LEMMA TurnCounts ==
    ASSUME NEW acc \in Counts, NEW set \in BOOLEAN, NEW j \in Nat, NEW t \in Nat,
           Counted(acc, j, t)
    PROVE  Counted(Routes!CountBit(acc, set), j + 1, 2 * t + (IF set THEN 1 ELSE 0))
  <1> DEFINE b == IF set THEN 1 ELSE 0
             u == 2 * t + b
             r == Routes!CountBit(acc, set)
  <1>1. b \in {0, 1} /\ (set <=> b = 1) /\ acc.bits \in Int /\ acc.zeroSeen \in BOOLEAN
    BY DEF Counts
  <1>2. \A k \in 0 .. j + 1 :
           u = Ones(j + 1, k) <=> \/ b = 0 /\ k <= j /\ t = Ones(j, k)
                                  \/ b = 1 /\ k = j + 1 /\ t = Ones(j, j)
    <2> HIDE DEF b
    <2> QED
      BY <1>1, OneMoreBit
  <1>3. j \in 0 .. j /\ j + 1 \in 0 .. j + 1 /\ 0 .. j \subseteq 0 .. j + 1
    OBVIOUS
  <1> HIDE DEF b, u
  <1>4. CASE acc.bits < 0
    <2>1. r = acc
      BY <1>4, Turn
    <2>2. \A k \in 0 .. j : t # Ones(j, k)
      BY <1>4 DEF Counted
    <2>3. \A k \in 0 .. j + 1 : u # Ones(j + 1, k)
      BY <1>2, <1>3, <2>2
    <2>4. Counted(r, j + 1, u)
      BY <1>4, <2>1, <2>3 DEF Counted
    <2> QED
      BY <2>4 DEF u, b
  <1>5. CASE acc.bits >= 0
    <2>1. /\ acc.bits \in 0 .. j /\ t = Ones(j, acc.bits)
          /\ acc.zeroSeen <=> acc.bits < j
      BY <1>1, <1>5 DEF Counted
    <2>2. CASE acc.zeroSeen /\ set
      <3>1. r.bits = -1
        BY <1>5, <2>2, Turn
      <3>2. t # Ones(j, j)
        BY <1>3, <2>1, <2>2, OnesUnique
      <3>3. b = 1
        BY <1>1, <2>2
      <3>4. \A k \in 0 .. j + 1 : u # Ones(j + 1, k)
        BY <1>2, <3>2, <3>3
      <3> HIDE DEF r
      <3>5. Counted(r, j + 1, u)
        BY <3>1, <3>4 DEF Counted
      <3> QED
        BY <3>5 DEF u, b, r
    <2>3. CASE ~acc.zeroSeen /\ set
      <3>1. r = [bits |-> acc.bits + 1, zeroSeen |-> FALSE]
        BY <1>5, <2>3, Turn
      <3>2. acc.bits = j
        BY <2>1, <2>3
      <3>3. b = 1
        BY <1>1, <2>3
      <3>4. u = Ones(j + 1, j + 1)
        BY <1>2, <1>3, <2>1, <3>2, <3>3
      <3> HIDE DEF r
      <3>5. r.bits = j + 1 /\ r.zeroSeen = FALSE
        BY <3>1, <3>2
      <3>6. Counted(r, j + 1, u)
        BY <3>4, <3>5 DEF Counted
      <3> QED
        BY <3>6 DEF u, b, r
    <2>4. CASE ~set
      <3>1. r = [bits |-> acc.bits, zeroSeen |-> TRUE]
        BY <1>5, <2>4, Turn
      <3>2. b = 0
        BY <1>1, <2>4
      <3>3. u = Ones(j + 1, acc.bits)
        BY <1>2, <2>1, <3>2
      <3> HIDE DEF r
      <3>4. r.bits = acc.bits /\ r.zeroSeen = TRUE
        BY <3>1
      <3>5. Counted(r, j + 1, u)
        BY <2>1, <3>3, <3>4 DEF Counted
      <3> QED
        BY <3>5 DEF u, b, r
    <2> QED
      BY <1>1, <2>2, <2>3, <2>4
  <1> QED
    BY <1>1, <1>4, <1>5

(* netMaskBits counts the ones of a mask, and finds out that a word is no   *)
(* mask.                                                                    *)
LEMMA MaskExact ==
    ASSUME NEW w \in Routes!Word
    PROVE  LET n == Routes!NetMaskBits(Routes!PutUint(w)) IN
           /\ n \in Int
           /\ n < 0 => \A k \in 0 .. Width : Swap(w) # Ones(Width, k)
           /\ n >= 0 => n \in 0 .. Width /\ Swap(w) = Ones(Width, n)
  <1> DEFINE m == Swap(w)
  <1>1. PICK f \in Loops(w) : Routes!NetMaskBits(Routes!PutUint(w)) = f[Width].bits
    BY LoopRuns
  <1>2. /\ f \in [0 .. Width -> Counts] /\ f[0] = [bits |-> 0, zeroSeen |-> FALSE]
        /\ \A i \in 0 .. Width - 1 : f[i + 1] = Routes!CountBit(f[i], MaskBits(w)[i + 1])
    BY <1>1 DEF Loops
  <1>3. Width \in Nat /\ m \in Nat /\ m < Pow2[Width]
    BY Bytes, SwapWord
  <1> HIDE DEF m
  <1>4. /\ Top(m, 0) = 0 /\ Top(m, Width) = m
        /\ \A j \in 0 .. Width : Top(m, j) \in Nat
        /\ \A j \in 0 .. Width - 1 : Top(m, j + 1) = 2 * Top(m, j) + (Top(m, j + 1) % 2)
    BY <1>3, TopNext
  <1> DEFINE S == {j \in Nat : j <= Width => Counted(f[j], j, Top(m, j))}
  <1>5. 0 \in S
    <2>1. f[0].bits = 0 /\ f[0].zeroSeen = FALSE
      BY <1>2
    <2>2. Ones(0, 0) = 0
      BY Pow2Facts DEF Ones
    <2>3. Counted(f[0], 0, 0)
      BY <2>1, <2>2 DEF Counted
    <2> QED
      BY <1>4, <2>3
  <1>6. ASSUME NEW j \in Nat, j \in S PROVE j + 1 \in S
    <2>1. SUFFICES ASSUME j + 1 <= Width PROVE Counted(f[j + 1], j + 1, Top(m, j + 1))
      OBVIOUS
    <2>2. /\ j \in 0 .. Width - 1 /\ j \in 0 .. Width /\ j <= Width
          /\ j + 1 \in 1 .. Width /\ j + 1 \in 0 .. Width
      BY <1>3, <2>1
    <2> DEFINE set == MaskBits(w)[j + 1]
               t == Top(m, j)
    <2>3. set \in BOOLEAN /\ (set <=> Top(m, j + 1) % 2 = 1)
      BY <2>2, BitsInOrder DEF m
    <2>4. t \in Nat /\ Top(m, j + 1) \in Nat /\ Top(m, j + 1) = 2 * t + (Top(m, j + 1) % 2)
      BY <1>4, <2>2
    <2>5. Counted(f[j], j, t) /\ f[j] \in Counts /\ f[j + 1] = Routes!CountBit(f[j], set)
      BY <1>2, <1>6, <2>2
    <2> HIDE DEF set, t
    <2>6. Counted(Routes!CountBit(f[j], set), j + 1, 2 * t + (IF set THEN 1 ELSE 0))
      BY <2>3, <2>4, <2>5, TurnCounts
    <2>7. Top(m, j + 1) = 2 * t + (IF set THEN 1 ELSE 0)
      <3>1. \A a \in Nat : a % 2 = 0 \/ a % 2 = 1
        OBVIOUS
      <3>2. CASE set
        BY <2>3, <2>4, <3>2
      <3>3. CASE ~set
        <4>1. Top(m, j + 1) % 2 = 0
          BY <2>3, <2>4, <3>1, <3>3
        <4> QED
          BY <2>4, <3>3, <4>1
      <3> QED
        BY <2>3, <3>2, <3>3
    <2> QED
      BY <2>5, <2>6, <2>7
  <1>7. Nat \subseteq S
    <2> HIDE DEF S
    <2> QED
      BY <1>5, <1>6, SetInduction
  <1>8. Counted(f[Width], Width, m)
    <2>1. Width \in S
      <3> HIDE DEF S
      <3> QED
        BY <1>3, <1>7
    <2> QED
      BY <1>3, <1>4, <2>1
  <1>9. f[Width].bits \in Int
    <2>1. f[Width] \in Counts
      BY <1>2, <1>3
    <2> QED
      BY <2>1 DEF Counts
  <1> QED
    BY <1>1, <1>8, <1>9 DEF Counted, m

(* A line is read as the route it stands for.                               *)
LEMMA ParseExact ==
    ASSUME NEW d \in Routes!Word, NEW w \in Routes!Word, NEW dev
    PROVE  /\ Routes!Parse(d, w, dev) = Routes!Meaning(d, w, dev)
           /\ \A e \in Routes!Parse(d, w, dev) : e.prefix \in Routes!Prefix
  <1> DEFINE n == Routes!NetMaskBits(Routes!PutUint(w))
             route(k) == [prefix |-> Routes!Masked([addr |-> Swap(d), bits |-> k]), dev |-> dev]
             lengths == {k \in 0 .. Width : Swap(w) = Ones(Width, k)}
  <1>1. /\ n \in Int
        /\ n < 0 => \A k \in 0 .. Width : Swap(w) # Ones(Width, k)
        /\ n >= 0 => n \in 0 .. Width /\ Swap(w) = Ones(Width, n)
    BY MaskExact
  <1>2. Routes!FromBytes(Routes!PutUint(d)) = Swap(d)
    BY DEF Routes!FromBytes, Routes!PutUint, Swap
  <1>3. Routes!Parse(d, w, dev) = IF n < 0 THEN {} ELSE {route(n)}
    BY <1>2 DEF Routes!Parse
  <1>4. Routes!Meaning(d, w, dev) = {route(k) : k \in lengths}
    BY RoutePowers DEF Routes!Meaning, Swap, Ones
  <1>5. Swap(d) \in Routes!AddressSpace /\ Width \in Nat
    BY SwapWord, Bytes
  <1> HIDE DEF n
  <1>6. CASE n < 0
    BY <1>1, <1>3, <1>4, <1>6
  <1>7. CASE n >= 0
    <2>1. n \in 0 .. Width /\ Swap(w) = Ones(Width, n)
      BY <1>1, <1>7
    <2>2. \A k \in 0 .. Width : Swap(w) = Ones(Width, k) => k = n
      BY <1>5, <2>1, OnesUnique
    <2>3. lengths = {n}
      BY <2>1, <2>2
    <2>4. [addr |-> Swap(d), bits |-> n] \in Routes!Prefix
      BY <1>5, <2>1 DEF Routes!Prefix
    <2>5. route(n).prefix \in Routes!Prefix
      BY <2>4, MaskedRoute
    <2>6. Routes!Parse(d, w, dev) = {route(n)}
      BY <1>1, <1>3, <1>7
    <2> HIDE DEF route, lengths
    <2> QED
      BY <1>4, <2>3, <2>5, <2>6
  <1> QED
    BY <1>1, <1>6, <1>7

----------------------------------------------------------------------------
(***************************************************************************)
(* The check.  The routes read are the kernel's, so that comparing prefix   *)
(* with prefix finds exactly the addresses reached another way.             *)
(***************************************************************************)
RoutesInv ==
    /\ address \in Routes!Prefix /\ routes \in SUBSET Routes!Prefix
    /\ read = table /\ \A e \in table : e.prefix \in Routes!Prefix
    /\ Routes!CheckExact

(* Prefixes conflict with the routes read exactly when an address of theirs *)
(* is reached another way.                                                  *)
LEMMA ConflictsExact ==
    ASSUME RoutesInv, NEW targets \in SUBSET Routes!Prefix, NEW ignored
    PROVE  Routes!Conflicts(targets, ignored)
             <=> Routes!Covered(targets) \cap Routes!Covered(Routes!Elsewhere(ignored)) # {}
  <1> DEFINE others == {e \in table : e.prefix.bits # 0 /\ e.dev \notin ignored}
  <1>1. \A t \in targets : \A e \in others :
            Routes!Overlap(t, e.prefix)
              <=> Routes!Members(t) \cap Routes!Members(e.prefix) # {}
    BY RoutesMeet DEF RoutesInv
  <1>2. Routes!Conflicts(targets, ignored)
          <=> \E t \in targets : \E e \in others : Routes!Overlap(t, e.prefix)
    BY DEF Routes!Conflicts, RoutesInv
  <1>3. Routes!Covered(Routes!Elsewhere(ignored))
          = UNION {Routes!Members(e.prefix) : e \in others}
    BY DEF Routes!Covered, Routes!Elsewhere
  <1>4. Routes!Covered(targets) = UNION {Routes!Members(t) : t \in targets}
    BY DEF Routes!Covered
  <1> HIDE DEF others
  <1>5. ASSUME NEW t \in targets, NEW e \in others,
               Routes!Members(t) \cap Routes!Members(e.prefix) # {}
        PROVE  Routes!Covered(targets) \cap Routes!Covered(Routes!Elsewhere(ignored)) # {}
    BY <1>3, <1>4, <1>5
  <1>6. ASSUME Routes!Covered(targets) \cap Routes!Covered(Routes!Elsewhere(ignored)) # {}
        PROVE  \E t \in targets : \E e \in others :
                   Routes!Members(t) \cap Routes!Members(e.prefix) # {}
    <2>1. PICK a : a \in Routes!Covered(targets)
                   /\ a \in Routes!Covered(Routes!Elsewhere(ignored))
      BY <1>6
    <2>2. PICK t \in targets : a \in Routes!Members(t)
      BY <1>4, <2>1
    <2>3. PICK e \in others : a \in Routes!Members(e.prefix)
      BY <1>3, <2>1
    <2> QED
      BY <2>2, <2>3
  <1> QED
    BY <1>1, <1>2, <1>5, <1>6

(* The host's route check begins with its invariant.                        *)
LEMMA RoutesInit == Routes!Init => RoutesInv
  <1> SUFFICES ASSUME Routes!Init PROVE RoutesInv
    OBVIOUS
  <1>1. address \in Routes!Prefix /\ table = {} /\ read = {} /\ verdict = "reading"
    BY DEF Routes!Init
  <1>2. routes \in RouteSets
    BY DEF Routes!Init
  <1>3. routes \in SUBSET Routes!Prefix
    BY <1>2, PartsAssumption DEF Routes!RoutesAssumption
  <1>4. Routes!CheckExact
    BY <1>1 DEF Routes!CheckExact
  <1> QED
    BY <1>1, <1>3, <1>4 DEF RoutesInv

(* The check of a client and that of a gateway.                             *)
LEMMA CheckStep == RoutesInv /\ Routes!Check /\ UNCHANGED Routes!config => RoutesInv'
  <1> SUFFICES ASSUME RoutesInv, Routes!Check, UNCHANGED Routes!config PROVE RoutesInv'
    OBVIOUS
  <1>1. role' = role /\ address' = address /\ routes' = routes /\ table' = table /\ read' = read
    BY DEF Routes!Check, Routes!config
  <1> DEFINE masked == {Routes!Masked(r) : r \in routes}
             only   == {Routes!Masked(address)}
             near   == {"device"}
             far    == {"device", "egress"}
             taken(ignored)  == Routes!Covered(Routes!Elsewhere(ignored))
             meet(P, ignored) == Routes!Covered(P) \cap taken(ignored) # {}
  <1>2. /\ routes \in SUBSET Routes!Prefix /\ masked \in SUBSET Routes!Prefix
        /\ only \in SUBSET Routes!Prefix /\ only \cup masked \in SUBSET Routes!Prefix
    BY MaskedRoute DEF RoutesInv
  <1>3. Routes!Covered(only) = Routes!Covered({address})
    BY MaskedRoute DEF Routes!Covered, RoutesInv
  <1>4. Routes!Covered(masked) = Routes!Covered(routes)
    <2>1. \A r \in routes : Routes!Members(Routes!Masked(r)) = Routes!Members(r)
      BY MaskedRoute DEF RoutesInv
    <2> QED
      BY <2>1 DEF Routes!Covered
  <1>5. Routes!Covered(only \cup masked) = Routes!Covered(only) \cup Routes!Covered(masked)
    BY DEF Routes!Covered
  <1>6. Routes!ClientConflict <=> meet({address}, near) \/ meet(routes, near)
    <2>1. Routes!ClientConflict <=> Routes!Conflicts(only \cup masked, near)
      BY DEF Routes!ClientConflict
    <2>2. Routes!Conflicts(only \cup masked, near) <=> meet(only \cup masked, near)
      BY <1>2, ConflictsExact
    <2> HIDE DEF only, masked, near
    <2>3. meet(only \cup masked, near) <=> meet({address}, near) \/ meet(routes, near)
      BY <1>3, <1>4, <1>5
    <2> QED
      BY <2>1, <2>2, <2>3
  <1>7. Routes!GatewayConflict <=> meet({address}, near) \/ meet(routes, far)
    <2>1. Routes!GatewayConflict
            <=> Routes!Conflicts(only, near) \/ Routes!Conflicts(routes, far)
      BY DEF Routes!GatewayConflict
    <2>2. Routes!Conflicts(only, near) <=> meet(only, near)
      BY <1>2, ConflictsExact
    <2>3. Routes!Conflicts(routes, far) <=> meet(routes, far)
      BY <1>2, ConflictsExact
    <2> HIDE DEF only, near, far
    <2> QED
      BY <1>3, <2>1, <2>2, <2>3
  <1> DEFINE clash == \/ meet({address}, near)
                      \/ Routes!Covered(routes)
                           \cap (IF role = "client" THEN taken(near) ELSE taken(far)) # {}
  <1>8. verdict' = IF clash THEN "conflict" ELSE "ok"
    <2>1. verdict' = IF IF role = "client" THEN Routes!ClientConflict ELSE Routes!GatewayConflict
                     THEN "conflict" ELSE "ok"
      BY DEF Routes!Check
    <2> HIDE DEF taken, near, far
    <2>2. CASE role = "client"
      BY <1>6, <2>1, <2>2
    <2>3. CASE role # "client"
      BY <1>7, <2>1, <2>3
    <2> QED
      BY <2>2, <2>3
  <1>9. \A i : Routes!Elsewhere(i)' = Routes!Elsewhere(i)
    BY <1>1 DEF Routes!Elsewhere
  <1>10. Routes!CheckExact'
    <2>1. verdict' = "conflict" <=> clash
      <3> HIDE DEF clash
      <3> QED
        BY <1>8
    <2> QED
      BY <1>1, <2>1 DEF Routes!CheckExact, Routes!Elsewhere, Routes!Covered
  <1> QED
    BY <1>1, <1>10 DEF RoutesInv

(* Every step of the route check.                                           *)
LEMMA RoutesStep == RoutesInv /\ Routes!Next => RoutesInv'
  <1> SUFFICES ASSUME RoutesInv, Routes!Next PROVE RoutesInv'
    OBVIOUS
  <1>1. CASE Routes!Check /\ UNCHANGED Routes!config
    BY <1>1, CheckStep
  <1>2. ASSUME UNCHANGED Routes!config, verdict = "reading", verdict' = verdict,
               read' = table', \A e \in table' : e.prefix \in Routes!Prefix
        PROVE  RoutesInv'
    <2>1. Routes!CheckExact'
      BY <1>2 DEF Routes!CheckExact
    <2> QED
      BY <1>2, <2>1 DEF RoutesInv, Routes!config
  <1>3. ASSUME NEW d \in Routes!Word, NEW w \in Routes!Word, NEW dev,
               Routes!Scan(d, w, dev), UNCHANGED Routes!config
        PROVE  RoutesInv'
    <2>1. /\ Routes!Parse(d, w, dev) = Routes!Meaning(d, w, dev)
          /\ \A e \in Routes!Parse(d, w, dev) : e.prefix \in Routes!Prefix
      BY ParseExact
    <2>2. /\ verdict = "reading" /\ verdict' = verdict
          /\ read' = read \cup Routes!Parse(d, w, dev)
          /\ table' = table \cup Routes!Meaning(d, w, dev)
      BY <1>3 DEF Routes!Scan
    <2>3. read' = table' /\ \A e \in table' : e.prefix \in Routes!Prefix
      BY <2>1, <2>2 DEF RoutesInv
    <2> QED
      BY <1>2, <1>3, <2>2, <2>3
  <1>4. CASE Routes!ScanGarbled /\ UNCHANGED Routes!config
    BY <1>2, <1>4 DEF Routes!ScanGarbled, RoutesInv
  <1>5. CASE Routes!ReadFails /\ UNCHANGED Routes!config
    <2>1. Routes!CheckExact'
      BY <1>5 DEF Routes!ReadFails, Routes!CheckExact
    <2> QED
      BY <1>5, <2>1 DEF RoutesInv, Routes!ReadFails, Routes!config
  <1> QED
    BY <1>1, <1>3, <1>4, <1>5 DEF Routes!Next

----------------------------------------------------------------------------
(***************************************************************************)
(* The host: a step moves one part and leaves the others as they are.      *)
(***************************************************************************)
HostInv == UpgradeInv /\ RulesInv /\ SettingInv /\ RoutesInv /\ LogInv

(* A part that does not move keeps its invariant.                           *)
LEMMA PartsRest ==
    /\ UpgradeInv /\ UNCHANGED upgradeVars => UpgradeInv'
    /\ RulesInv /\ UNCHANGED rulesVars => RulesInv'
    /\ SettingInv /\ UNCHANGED settingVars => SettingInv'
    /\ RoutesInv /\ UNCHANGED routesVars => RoutesInv'
    /\ LogInv /\ UNCHANGED logVars => LogInv'
  <1>1. UpgradeInv /\ UNCHANGED upgradeVars => UpgradeInv'
    BY DEF UpgradeInv, upgradeVars, UpgradeTyped, FoundKept, Gaps, NewTried,
           Unrisked, Upgrade!ExitTellsTruth, Upgrade!WorkingBinaryKept, Upgrade!Runs
  <1>2. RulesInv /\ UNCHANGED rulesVars => RulesInv'
    <2> SUFFICES ASSUME RulesInv, UNCHANGED rulesVars PROVE RulesInv'
      OBVIOUS
    <2>1. /\ env' = env /\ chain' = chain /\ jumps' = jumps /\ todo' = todo /\ verb' = verb
          /\ exit' = exit /\ faults' = faults
      BY DEF rulesVars
    <2>2. RulesTyped'
      BY <2>1 DEF RulesInv, RulesTyped
    <2>3. Rules!HookedIsConfined' /\ Rules!UpIsExact' /\ Rules!DownUnhooks'
      BY <2>1 DEF RulesInv, Rules!HookedIsConfined, Rules!UpIsExact, Rules!DownUnhooks
    <2>4. UpBack' = UpBack /\ FilterRules' = FilterRules /\ NatRules' = NatRules
      BY <2>1 DEF UpBack, FilterRules, NatRules, Rules!PerDestination
    <2>5. UpAt'
      BY <2>1, <2>4 DEF RulesInv, UpAt, UpState
    <2>6. DownAt'
      BY <2>1 DEF RulesInv, DownAt, DownState
    <2> QED
      BY <2>2, <2>3, <2>5, <2>6 DEF RulesInv
  <1>3. SettingInv /\ UNCHANGED settingVars => SettingInv'
    <2> SUFFICES ASSUME SettingInv, UNCHANGED settingVars PROVE SettingInv'
      OBVIOUS
    <2>1. /\ own' = own /\ kernel' = kernel /\ saved' = saved /\ conf' = conf
          /\ steps' = steps /\ goal' = goal /\ result' = result /\ losses' = losses
      BY DEF settingVars
    <2>2. SettingTyped' /\ Unapplied' = Unapplied
      BY <2>1 DEF SettingInv, SettingTyped, Unapplied
    <2>3. GatewayAt'
      BY <2>1, <2>2 DEF SettingInv, GatewayAt
    <2>4. ClientAt'
      BY <2>1, <2>2 DEF SettingInv, ClientAt
    <2>5. UninstallAt'
      BY <2>1, <2>2 DEF SettingInv, UninstallAt
    <2>6. Setting!OwnSettingRemembered' /\ Setting!ForwardingFollowsRole'
      BY <2>1 DEF SettingInv, Setting!OwnSettingRemembered, Setting!ForwardingFollowsRole,
                  Setting!Unlinking
    <2> QED
      BY <2>2, <2>3, <2>4, <2>5, <2>6 DEF SettingInv
  <1>4. LogInv /\ UNCHANGED logVars => LogInv'
    BY DEF LogInv, logVars, LogTyped, Numbered, SizeInv, FitsInv, Log!GenerationBounded
  <1>5. RoutesInv /\ UNCHANGED routesVars => RoutesInv'
    BY DEF RoutesInv, routesVars, Routes!CheckExact, Routes!Elsewhere, Routes!Covered
  <1> QED
    BY <1>1, <1>2, <1>3, <1>4, <1>5

(* The invariant of the host, for any number of steps of any part.          *)
THEOREM HostInvariance == Spec => []HostInv
  <1>1. Init => HostInv
    BY UpgradeInit, RulesInit, SettingInit, RoutesInit, LogInit DEF Init, HostInv
  <1>2. HostInv /\ [Next]_<<part, upgradeVars, rulesVars, settingVars, routesVars, logVars>>
            => HostInv'
    <2> SUFFICES ASSUME HostInv,
                        [Next]_<<part, upgradeVars, rulesVars, settingVars, routesVars, logVars>>
                 PROVE  HostInv'
      OBVIOUS
    <2>1. UpgradeInv /\ RulesInv /\ SettingInv /\ RoutesInv /\ LogInv
      BY DEF HostInv
    <2>2. CASE Upgrades
      BY <2>1, <2>2, UpgradeStep, PartsRest DEF Upgrades, HostInv
    <2>3. CASE Filters
      BY <2>1, <2>3, RulesStep, PartsRest DEF Filters, HostInv
    <2>4. CASE Forwards
      BY <2>1, <2>4, SettingStep, PartsRest DEF Forwards, HostInv
    <2>5. CASE ChecksRoutes
      BY <2>1, <2>5, RoutesStep, PartsRest DEF ChecksRoutes, HostInv
    <2>6. CASE Logs
      BY <2>1, <2>6, LogStep, PartsRest DEF Logs, HostInv
    <2>7. CASE UNCHANGED <<part, upgradeVars, rulesVars, settingVars, routesVars, logVars>>
      BY <2>1, <2>7, PartsRest DEF HostInv
    <2> QED
      BY <2>2, <2>3, <2>4, <2>5, <2>6, <2>7 DEF Next
  <1> QED
    BY <1>1, <1>2, PTL DEF Spec

(* For any binaries and networks and any number of cut-short scripts: a     *)
(* script of the host that ends with a message or with success has done     *)
(* what it says, as ScriptsTellTruth spells it out for upgrade-linux.sh,    *)
(* rollback-linux.sh, wsn-gateway.sh, the installer and the uninstaller.    *)
THEOREM ScriptsHonest == Spec => []ScriptsTellTruth
  <1>1. HostInv => ScriptsTellTruth
    BY DEF HostInv, UpgradeInv, RulesInv, SettingInv, ScriptsTellTruth
  <1> QED
    BY <1>1, HostInvariance, PTL

(* For any binaries and any number of cut-short scripts: /opt/wsn keeps a   *)
(* working binary as long as no upgrade is begun of a client that does not  *)
(* run, and the host's own value of ip_forward is in force or saved unless  *)
(* one of the two accidents of OwnSettingRemembered has cost it.            *)
THEOREM Repairable == Spec => []RepairIsPossible
  <1>1. HostInv => RepairIsPossible
    BY DEF HostInv, UpgradeInv, SettingInv, RepairIsPossible
  <1> QED
    BY <1>1, HostInvariance, PTL

(* For any corporate networks: packets of the overlay never pass through a  *)
(* chain of wsn-gateway.sh that is not complete.                            *)
THEOREM Confined == Spec => []HookedIsConfined
  <1>1. HostInv => HookedIsConfined
    BY DEF HostInv, RulesInv, HookedIsConfined
  <1> QED
    BY <1>1, HostInvariance, PTL

(* For lines of any length and any limit: a rotation that fails at any      *)
(* operation, or is cut short, loses only the oldest lines of the log.      *)
THEOREM LogKept == Spec => []LogKeepsLatest
  <1>1. HostInv => LogKeepsLatest
    BY LogPromise DEF HostInv
  <1> QED
    BY <1>1, HostInvariance, PTL

(* For addresses of any even width, any routes of the configuration and any *)
(* lines of /proc/net/route: the check refuses exactly when an address of   *)
(* the tunnel is one that the host already reaches another way.             *)
THEOREM RoutesChecked == Spec => []CheckExact
  <1>1. HostInv => CheckExact
    BY DEF HostInv, RoutesInv, CheckExact
  <1> QED
    BY <1>1, HostInvariance, PTL
============================================================================
