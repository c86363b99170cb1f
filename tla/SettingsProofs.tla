---------------------------- MODULE SettingsProofs ----------------------------
(* Proofs about Preferences, for any settings, entries and texts.            *)
EXTENDS Preferences, SequenceTheorems, FiniteSetTheorems, WellFoundedInduction, TLAPS

-----------------------------------------------------------------------------
(* ScanOptions: the flags. *)

Plain == {"UDP_SCAN", "FASTSCAN", "OSSCAN", "USE_PORT_RANGE", "DONT_PING"}

(* The flags say what the options say, but for those of RPC and identd.      *)
FlagsAre(f, o) ==
  /\ f \intersect SCAN_MASK = {TcpFlag[o.tcp]}
  /\ f \intersect TIMING_MASK = {TimingFlag[o.timing]}
  /\ \A i \in Plain : i \in f <=> i \in o.on
  /\ "RPC_SCAN" \in f <=> "IDENTD_SCAN" \in f

(* Those follow the OS scan. *)
Follow(f, o) == "RPC_SCAN" \in f <=> "OSSCAN" \in o.on

LEMMA Masks ==
  /\ SCAN_MASK = {"TCP_CONNECT_SCAN", "TCP_SYN_SCAN", "STEALTH_FIN", "STEALTH_XMAS", "STEALTH_NULL"}
  /\ TIMING_MASK = {"TIMING_NORMAL", "TIMING_PARANOID", "TIMING_SNEAKY", "TIMING_POLITE",
                    "TIMING_AGGRESSIVE", "TIMING_INSANE"}
  /\ \A o \in AllOptions : TcpFlag[o.tcp] \in SCAN_MASK /\ TimingFlag[o.timing] \in TIMING_MASK
<1>1. SCAN_MASK = {"TCP_CONNECT_SCAN", "TCP_SYN_SCAN", "STEALTH_FIN", "STEALTH_XMAS", "STEALTH_NULL"}
  BY DEF SCAN_MASK, TcpFlag
<1>2. TIMING_MASK = {"TIMING_NORMAL", "TIMING_PARANOID", "TIMING_SNEAKY", "TIMING_POLITE",
                     "TIMING_AGGRESSIVE", "TIMING_INSANE"}
  BY DEF TIMING_MASK, TimingFlag
<1>3. \A o \in AllOptions : o.tcp \in DOMAIN TcpFlag /\ o.timing \in DOMAIN TimingFlag
  BY DEF AllOptions
<1>. QED BY <1>1, <1>2, <1>3 DEF SCAN_MASK, TIMING_MASK

(* What a setting does to f, which becomes g. *)
Applied(f, i, o, g) ==
  /\ IF i = "TCP_SCAN" THEN g \intersect SCAN_MASK = {TcpFlag[o.tcp]}
     ELSE g \intersect SCAN_MASK = f \intersect SCAN_MASK
  /\ IF i = "TIMING" THEN g \intersect TIMING_MASK = {TimingFlag[o.timing]}
     ELSE g \intersect TIMING_MASK = f \intersect TIMING_MASK
  /\ \A p \in Plain : IF i = p THEN p \in g <=> p \in o.on ELSE p \in g <=> p \in f
  /\ \A p \in {"RPC_SCAN", "IDENTD_SCAN"} :
       IF i = p THEN p \in g <=> "OSSCAN" \in o.on ELSE p \in g <=> p \in f

(* A setting that is applied keeps what the flags of other settings say.     *)
LEMMA ApplyMembers ==
  ASSUME NEW f, NEW i, NEW o \in AllOptions,
         i \in Plain \union {"TCP_SCAN", "TIMING", "RPC_SCAN", "IDENTD_SCAN"},
         NEW g, g = apply_the_setting(f, i, o)
  PROVE  Applied(f, i, o, g)
<1>. USE DEF Applied
<1>1. g = (f \ FlagsOf(i)) \union SetBy(i, o)
  BY DEF apply_the_setting
<1>2. /\ TcpFlag[o.tcp] \in SCAN_MASK /\ TimingFlag[o.timing] \in TIMING_MASK
  BY Masks
<1>3. /\ SCAN_MASK \intersect TIMING_MASK = {}
      /\ \A p \in Plain \union {"RPC_SCAN", "IDENTD_SCAN"} : p \notin SCAN_MASK /\ p \notin TIMING_MASK
  BY Masks DEF Plain
<1>4. CASE i = "TCP_SCAN"
  <2>1. g = (f \ SCAN_MASK) \union {TcpFlag[o.tcp]}
    BY <1>1, <1>4 DEF FlagsOf, SetBy
  <2>. QED BY <1>2, <1>3, <1>4, <2>1 DEF Plain
<1>5. CASE i = "TIMING"
  <2>1. g = (f \ TIMING_MASK) \union {TimingFlag[o.timing]}
    BY <1>1, <1>5 DEF FlagsOf, SetBy
  <2>. QED BY <1>2, <1>3, <1>5, <2>1 DEF Plain
<1>6. CASE i \in {"RPC_SCAN", "IDENTD_SCAN"}
  <2>1. g = (f \ {i}) \union (IF "OSSCAN" \in o.on THEN {i} ELSE {})
    BY <1>1, <1>6 DEF FlagsOf, SetBy
  <2>. QED BY <1>3, <1>6, <2>1 DEF Plain
<1>7. CASE i \in Plain
  <2>1. g = (f \ {i}) \union (IF i \in o.on THEN {i} ELSE {})
    BY <1>1, <1>7 DEF FlagsOf, SetBy, Plain
  <2>. QED BY <1>3, <1>7, <2>1 DEF Plain
<1>. QED BY <1>4, <1>5, <1>6, <1>7

(* Apply and the start of the program: all flags. *)
LEMMA ApplyAll ==
  ASSUME NEW f, NEW o \in AllOptions
  PROVE  FlagsAre(apply_all_settings(f, o), o) /\ Follow(apply_all_settings(f, o), o)
<1> DEFINE g1 == apply_the_setting(f, "UDP_SCAN", o)
<1> DEFINE g2 == apply_the_setting(g1, "TCP_SCAN", o)
<1> DEFINE g3 == apply_the_setting(g2, "FASTSCAN", o)
<1> DEFINE g4 == apply_the_setting(g3, "OSSCAN", o)
<1> DEFINE g5 == apply_the_setting(g4, "USE_PORT_RANGE", o)
<1> DEFINE g6 == apply_the_setting(g5, "DONT_PING", o)
<1> DEFINE g7 == apply_the_setting(g6, "TIMING", o)
<1> DEFINE g8 == apply_the_setting(g7, "RPC_SCAN", o)
<1> DEFINE g9 == apply_the_setting(g8, "IDENTD_SCAN", o)
<1>0. apply_all_settings(f, o) = g9
  BY DEF apply_all_settings
<1>. USE DEF Plain
<1>1. Applied(f, "UDP_SCAN", o, g1)
  BY ApplyMembers DEF Applied
<1>2. Applied(g1, "TCP_SCAN", o, g2)
  BY ApplyMembers DEF Applied
<1>3. Applied(g2, "FASTSCAN", o, g3)
  BY ApplyMembers DEF Applied
<1>4. Applied(g3, "OSSCAN", o, g4)
  BY ApplyMembers DEF Applied
<1>5. Applied(g4, "USE_PORT_RANGE", o, g5)
  BY ApplyMembers DEF Applied
<1>6. Applied(g5, "DONT_PING", o, g6)
  BY ApplyMembers DEF Applied
<1>7. Applied(g6, "TIMING", o, g7)
  BY ApplyMembers DEF Applied
<1>8. Applied(g7, "RPC_SCAN", o, g8)
  BY ApplyMembers DEF Applied
<1>9. Applied(g8, "IDENTD_SCAN", o, g9)
  BY ApplyMembers DEF Applied
<1> HIDE DEF g1, g2, g3, g4, g5, g6, g7, g8, g9
<1>. QED BY <1>0, <1>1, <1>2, <1>3, <1>4, <1>5, <1>6, <1>7, <1>8, <1>9 DEF Applied, FlagsAre, Follow

(* A file: all but those of RPC and identd.  *)
LEMMA ReadAll ==
  ASSUME read_options, options \in AllOptions, saved \in AllOptions,
         NEW f, f = options_os_scan_flags
  PROVE  FlagsAre(options_os_scan_flags', saved)
<1> DEFINE g1 == apply_the_setting(f, "TCP_SCAN", saved)
<1> DEFINE g2 == apply_the_setting(g1, "TIMING", saved)
<1> DEFINE g3 == apply_the_setting(g2, "UDP_SCAN", saved)
<1> DEFINE g4 == apply_the_setting(g3, "RPC_SCAN", options)
<1> DEFINE g5 == apply_the_setting(g4, "IDENTD_SCAN", options)
<1> DEFINE g6 == apply_the_setting(g5, "FASTSCAN", saved)
<1> DEFINE g7 == apply_the_setting(g6, "OSSCAN", saved)
<1> DEFINE g8 == apply_the_setting(g7, "DONT_PING", saved)
<1> DEFINE g9 == apply_the_setting(g8, "USE_PORT_RANGE", saved)
<1>0. options_os_scan_flags' = g9
  BY DEF read_options
<1>. USE DEF Plain
<1>1. Applied(f, "TCP_SCAN", saved, g1)
  BY ApplyMembers DEF Applied
<1>2. Applied(g1, "TIMING", saved, g2)
  BY ApplyMembers DEF Applied
<1>3. Applied(g2, "UDP_SCAN", saved, g3)
  BY ApplyMembers DEF Applied
<1>4. Applied(g3, "RPC_SCAN", options, g4)
  BY ApplyMembers DEF Applied
<1>5. Applied(g4, "IDENTD_SCAN", options, g5)
  BY ApplyMembers DEF Applied
<1>6. Applied(g5, "FASTSCAN", saved, g6)
  BY ApplyMembers DEF Applied
<1>7. Applied(g6, "OSSCAN", saved, g7)
  BY ApplyMembers DEF Applied
<1>8. Applied(g7, "DONT_PING", saved, g8)
  BY ApplyMembers DEF Applied
<1>9. Applied(g8, "USE_PORT_RANGE", saved, g9)
  BY ApplyMembers DEF Applied
<1> HIDE DEF g1, g2, g3, g4, g5, g6, g7, g8, g9
<1>. QED BY <1>0, <1>1, <1>2, <1>3, <1>4, <1>5, <1>6, <1>7, <1>8, <1>9 DEF Applied, FlagsAre

(* The words of a command line say what the options say, but for "-sR" and   *)
(* "-I".                                                                     *)
LEMMA MaskedWords ==
  ASSUME NEW f, NEW o \in AllOptions, FlagsAre(f, o)
  PROVE  /\ OneOf(f, SCAN_MASK, ScanWord) = {ScanWord[TcpFlag[o.tcp]]}
         /\ OneOf(f, TIMING_MASK, TimingWord) = {TimingWord[TimingFlag[o.timing]]}
BY Masks DEF OneOf, FlagsAre

MeantTcp(t) ==
  [Connect |-> {"-sT"}, SYN |-> {"-sS"}, FIN |-> {"-sF"}, XMAS |-> {"-sX"}, NULLScan |-> {"-sN"}][t]
MeantTiming(t) ==
  [Normal |-> "-T Normal", Paranoid |-> "-T Paranoid", Sneaky |-> "-T Sneaky",
   Polite |-> "-T Polite", Aggressive |-> "-T Aggressive", Insane |-> "-T Insane"][t]
MeantOn(on) ==
  UNION {[OSSCAN |-> {"-O"}, UDP_SCAN |-> {"-sU"}, FASTSCAN |-> {"-F"},
          DONT_PING |-> {"-P0"}, RPC_SCAN |-> {}, IDENTD_SCAN |-> {},
          USE_PORT_RANGE |-> {}][i] : i \in on}

LEMMA ChoiceWords ==
  ASSUME NEW o \in AllOptions
  PROVE  /\ {ScanWord[TcpFlag[o.tcp]]} = MeantTcp(o.tcp)
         /\ TimingWord[TimingFlag[o.timing]] = MeantTiming(o.timing)
         /\ ScanWord[TcpFlag[o.tcp]] \notin {"-sR", "-I"}
         /\ TimingWord[TimingFlag[o.timing]] \notin {"-sR", "-I"}
<1>1. /\ o.tcp \in {"Connect", "SYN", "FIN", "XMAS", "NULLScan"}
      /\ o.timing \in {"Normal", "Paranoid", "Sneaky", "Polite", "Aggressive", "Insane"}
  BY DEF AllOptions, TcpFlag, TimingFlag
<1>2. /\ TcpFlag["Connect"] = "TCP_CONNECT_SCAN" /\ TcpFlag["SYN"] = "TCP_SYN_SCAN"
      /\ TcpFlag["FIN"] = "STEALTH_FIN" /\ TcpFlag["XMAS"] = "STEALTH_XMAS"
      /\ TcpFlag["NULLScan"] = "STEALTH_NULL"
  BY DEF TcpFlag
<1>3. /\ TimingFlag["Normal"] = "TIMING_NORMAL" /\ TimingFlag["Paranoid"] = "TIMING_PARANOID"
      /\ TimingFlag["Sneaky"] = "TIMING_SNEAKY" /\ TimingFlag["Polite"] = "TIMING_POLITE"
      /\ TimingFlag["Aggressive"] = "TIMING_AGGRESSIVE" /\ TimingFlag["Insane"] = "TIMING_INSANE"
  BY DEF TimingFlag
<1>4. /\ {ScanWord[TcpFlag[o.tcp]]} = MeantTcp(o.tcp)
      /\ ScanWord[TcpFlag[o.tcp]] \notin {"-sR", "-I"}
  BY <1>1, <1>2 DEF ScanWord, MeantTcp
<1>5. /\ TimingWord[TimingFlag[o.timing]] = MeantTiming(o.timing)
      /\ TimingWord[TimingFlag[o.timing]] \notin {"-sR", "-I"}
  <2>1. /\ MeantTiming("Normal") = "-T Normal" /\ MeantTiming("Paranoid") = "-T Paranoid"
        /\ MeantTiming("Sneaky") = "-T Sneaky" /\ MeantTiming("Polite") = "-T Polite"
        /\ MeantTiming("Aggressive") = "-T Aggressive" /\ MeantTiming("Insane") = "-T Insane"
    BY DEF MeantTiming
  <2>2. /\ TimingWord["TIMING_NORMAL"] = "-T Normal" /\ TimingWord["TIMING_PARANOID"] = "-T Paranoid"
        /\ TimingWord["TIMING_SNEAKY"] = "-T Sneaky" /\ TimingWord["TIMING_POLITE"] = "-T Polite"
        /\ TimingWord["TIMING_AGGRESSIVE"] = "-T Aggressive"
        /\ TimingWord["TIMING_INSANE"] = "-T Insane"
    BY DEF TimingWord
  <2>. QED BY <1>1, <1>3, <2>1, <2>2
<1>. QED BY <1>4, <1>5

LEMMA PlainWords ==
  ASSUME NEW f, NEW o \in AllOptions, FlagsAre(f, o),
         NEW W, W = {Word[i] : i \in f \intersect DOMAIN Word}
  PROVE  /\ W \ {"-sR", "-I"} = MeantOn(o.on)
         /\ W \intersect {"-sR", "-I"} = IF "RPC_SCAN" \in f THEN {"-sR", "-I"} ELSE {}
<1>1. /\ Word["OSSCAN"] = "-O" /\ Word["UDP_SCAN"] = "-sU" /\ Word["RPC_SCAN"] = "-sR"
      /\ Word["IDENTD_SCAN"] = "-I" /\ Word["FASTSCAN"] = "-F" /\ Word["DONT_PING"] = "-P0"
      /\ DOMAIN Word = {"OSSCAN", "UDP_SCAN", "RPC_SCAN", "IDENTD_SCAN", "FASTSCAN", "DONT_PING"}
  BY DEF Word
<1>2. /\ "-O" \in W <=> "OSSCAN" \in f
      /\ "-sU" \in W <=> "UDP_SCAN" \in f
      /\ "-F" \in W <=> "FASTSCAN" \in f
      /\ "-P0" \in W <=> "DONT_PING" \in f
      /\ "-sR" \in W <=> "RPC_SCAN" \in f
      /\ "-I" \in W <=> "IDENTD_SCAN" \in f
      /\ \A w \in W : w \in {"-O", "-sU", "-F", "-P0", "-sR", "-I"}
  BY <1>1
<1> DEFINE M(i) == [OSSCAN |-> {"-O"}, UDP_SCAN |-> {"-sU"}, FASTSCAN |-> {"-F"},
          DONT_PING |-> {"-P0"}, RPC_SCAN |-> {}, IDENTD_SCAN |-> {},
          USE_PORT_RANGE |-> {}][i]
<1>3. /\ M("OSSCAN") = {"-O"} /\ M("UDP_SCAN") = {"-sU"} /\ M("FASTSCAN") = {"-F"}
      /\ M("DONT_PING") = {"-P0"} /\ M("RPC_SCAN") = {} /\ M("IDENTD_SCAN") = {}
      /\ M("USE_PORT_RANGE") = {}
  OBVIOUS
<1>4. MeantOn(o.on) = UNION {M(i) : i \in o.on}
  BY DEF MeantOn
<1>5. \A i \in o.on : i \in Toggles
  BY DEF AllOptions
<1> HIDE DEF M
<1>6. \A w : w \in MeantOn(o.on) <=> \E i \in o.on : w \in M(i)
  BY <1>4
<1>7. /\ "-O" \in MeantOn(o.on) <=> "OSSCAN" \in o.on
      /\ "-sU" \in MeantOn(o.on) <=> "UDP_SCAN" \in o.on
      /\ "-F" \in MeantOn(o.on) <=> "FASTSCAN" \in o.on
      /\ "-P0" \in MeantOn(o.on) <=> "DONT_PING" \in o.on
      /\ \A w \in MeantOn(o.on) : w \in {"-O", "-sU", "-F", "-P0"}
  BY <1>3, <1>5, <1>6 DEF Toggles
<1>8. \A i \in Plain : i \in f <=> i \in o.on
  BY DEF FlagsAre
<1>9. /\ "OSSCAN" \in f <=> "OSSCAN" \in o.on
      /\ "UDP_SCAN" \in f <=> "UDP_SCAN" \in o.on
      /\ "FASTSCAN" \in f <=> "FASTSCAN" \in o.on
      /\ "DONT_PING" \in f <=> "DONT_PING" \in o.on
      /\ "RPC_SCAN" \in f <=> "IDENTD_SCAN" \in f
  BY <1>8 DEF Plain, FlagsAre
<1>. QED BY <1>2, <1>7, <1>9

LEMMA CommandWords ==
  ASSUME NEW f, NEW o \in AllOptions, FlagsAre(f, o), NEW ports,
         NEW words, words = runNmapScan(f, ports).words
  PROVE  /\ words \ {"-sR", "-I"} = Meant(o)
         /\ words \intersect {"-sR", "-I"} = IF "RPC_SCAN" \in f THEN {"-sR", "-I"} ELSE {}
<1> DEFINE W == {Word[i] : i \in f \intersect DOMAIN Word}
           T == {ScanWord[TcpFlag[o.tcp]]}
           S == {TimingWord[TimingFlag[o.timing]]}
<1>1. words = T \union S \union W
  BY MaskedWords DEF runNmapScan
<1>2. Meant(o) = T \union S \union MeantOn(o.on)
  <2>1. Meant(o) = MeantTcp(o.tcp) \union {MeantTiming(o.timing)} \union MeantOn(o.on)
    BY DEF Meant, MeantTcp, MeantTiming, MeantOn
  <2>. QED BY <2>1, ChoiceWords
<1>3. /\ W \ {"-sR", "-I"} = MeantOn(o.on)
      /\ W \intersect {"-sR", "-I"} = IF "RPC_SCAN" \in f THEN {"-sR", "-I"} ELSE {}
  BY PlainWords
<1>4. T \intersect {"-sR", "-I"} = {} /\ S \intersect {"-sR", "-I"} = {}
  BY ChoiceWords
<1> HIDE DEF W, T, S
<1>. QED BY <1>1, <1>2, <1>3, <1>4

-----------------------------------------------------------------------------
(* ScanOptions: the receive buffer. *)

(* Some natural number of a set of them is the least. *)
LEMMA LeastNat ==
  ASSUME NEW T, T \subseteq Nat, T # {}
  PROVE  \E m \in T : \A n \in T : m <= n
<1>1. \E m \in T : \A n \in T : ~(<<n, m>> \in OpToRel(<, Nat))
  BY NatLessThanWellFounded, WFMin
<1>2. PICK m \in T : \A n \in T : ~(<<n, m>> \in OpToRel(<, Nat))
  BY <1>1
<1>3. ASSUME NEW n \in T
      PROVE  m <= n
  <2>1. <<n, m>> \in Nat \X Nat /\ <<n, m>>[1] = n /\ <<n, m>>[2] = m
    OBVIOUS
  <2>2. OpToRel(<, Nat) = {ss \in Nat \X Nat : ss[1] < ss[2]}
    BY DEF OpToRel
  <2>3. n < m => <<n, m>> \in OpToRel(<, Nat)
    BY <2>1, <2>2
  <2>4. ~(n < m)
    BY <1>2, <2>3, Zenon
  <2>5. m \in Nat /\ n \in Nat
    OBVIOUS
  <2>. QED BY <2>4, <2>5
<1>. QED BY <1>3

LEMMA MinIsLeast ==
  ASSUME NEW T, T \subseteq Nat, T # {}
  PROVE  Min(T) \in T /\ \A n \in T : Min(T) <= n
<1>1. \E m \in T : \A n \in T : m <= n
  BY LeastNat
<1>. QED BY <1>1 DEF Min

LEMMA MaxOfTwo ==
  ASSUME NEW m \in Nat, NEW n \in Nat
  PROVE  Max({m, n}) \in Nat /\ m <= Max({m, n}) /\ n <= Max({m, n}) /\ Max({m, n}) \in {m, n}
<1>1. \E x \in {m, n} : \A y \in {m, n} : x >= y
  OBVIOUS
<1>. QED BY <1>1 DEF Max

LEMMA MaxIsGreatest ==
  ASSUME NEW k \in Nat, NEW T, T \subseteq 0..k, T # {}
  PROVE  Max(T) \in T /\ \A n \in T : n <= Max(T)
<1> DEFINE D == {d \in 0..k : k - d \in T}
<1>1. D \subseteq Nat
  OBVIOUS
<1>2. D # {}
  <2>1. PICK t \in T : TRUE
    OBVIOUS
  <2>2. t \in 0..k /\ k - t \in 0..k /\ k - (k - t) = t
    BY <2>1
  <2>. QED BY <2>1, <2>2
<1>3. PICK m \in D : \A n \in D : m <= n
  BY <1>1, <1>2, LeastNat
<1>4. k - m \in T /\ m \in 0..k
  BY <1>3
<1>5. ASSUME NEW n \in T PROVE k - m >= n
  <2>1. n \in 0..k /\ k - n \in 0..k /\ k - (k - n) = n
    BY <1>5
  <2>2. k - n \in D
    BY <2>1
  <2>3. m <= k - n
    BY <1>3, <2>2
  <2>. QED BY <1>4, <2>1, <2>3
<1>6. \E x \in T : \A y \in T : x >= y
  BY <1>4, <1>5
<1>7. Max(T) \in T /\ \A y \in T : Max(T) >= y
  BY <1>6 DEF Max
<1>. QED BY <1>7

(* What the receive buffer always is; and how far anything has reached.      *)
BufferOK(b) ==
  /\ b \in Seq(Chars) /\ Len(b) \in Nat \ {0}
  /\ b[Len(b)] = NUL
  /\ \A o \in Settable : Len(o.ports) < Len(b)
  /\ \A bytes \in Others : Len(bytes) < Len(b)

Reached(b, n) == n \in Nat /\ \A i \in 1..Len(b) : b[i] # NUL => i <= n

LEMMA ReachIsFar ==
  ASSUME NEW b \in Seq(Chars)
  PROVE  Reached(b, Reach(b))
<1> DEFINE T == {0} \union {i \in DOMAIN b : b[i] # NUL}
<1>1. Len(b) \in Nat /\ DOMAIN b = 1..Len(b)
  BY LenProperties
<1>2. T \subseteq 0..Len(b) /\ T # {}
  BY <1>1
<1>3. Max(T) \in T /\ \A n \in T : n <= Max(T)
  BY <1>1, <1>2, MaxIsGreatest
<1>. QED BY <1>1, <1>2, <1>3 DEF Reach, Reached

LEMMA BufferStarts ==
  ASSUME NEW b \in Buffers
  PROVE  BufferOK(b)
<1>1. /\ b \in Seq(Chars) /\ b # <<>> /\ Last(b) = NUL
      /\ \A o \in Settable : Len(o.ports) < Len(b)
      /\ \A bytes \in Others : Len(bytes) < Len(b)
  BY ScanOptionsAssumption
<1>2. Len(b) \in Nat /\ Len(b) # 0
  BY <1>1, LenProperties, EmptySeq
<1>. QED BY <1>1, <1>2 DEF BufferOK, Last

(* Bytes that are received overwrite the start of the buffer. *)
LEMMA OverProps ==
  ASSUME NEW b, BufferOK(b), NEW bytes \in Seq(Chars), Len(bytes) <= Len(b),
         Len(bytes) = Len(b) => bytes[Len(bytes)] = NUL,
         NEW c, c = Over(bytes, b)
  PROVE  /\ BufferOK(c)
         /\ \A i \in 1..Len(c) : c[i] = IF i <= Len(bytes) THEN bytes[i] ELSE b[i]
         /\ Len(c) = Len(b)
<1>1. b \in Seq(Chars) /\ Len(b) \in Nat \ {0} /\ Len(bytes) \in Nat
  BY LenProperties DEF BufferOK
<1>2. /\ DOMAIN b = 1..Len(b)
      /\ \A i \in 1..Len(b) : b[i] \in Chars
      /\ \A i \in 1..Len(bytes) : bytes[i] \in Chars
  BY <1>1, ElementOfSeq, LenProperties
<1>3. c = [i \in 1..Len(b) |-> IF i <= Len(bytes) THEN bytes[i] ELSE b[i]]
  BY <1>2 DEF Over
<1>4. \A i \in 1..Len(b) : (IF i <= Len(bytes) THEN bytes[i] ELSE b[i]) \in Chars
  BY <1>1, <1>2
<1>5. c \in [1..Len(b) -> Chars]
  BY <1>3, <1>4
<1>6. c \in Seq(Chars) /\ Len(c) = Len(b)
  BY <1>1, <1>5, IsASeq
<1>7. \A i \in 1..Len(c) : c[i] = IF i <= Len(bytes) THEN bytes[i] ELSE b[i]
  BY <1>3, <1>6
<1>8. c[Len(c)] = NUL
  BY <1>1, <1>6, <1>7 DEF BufferOK
<1>. QED BY <1>1, <1>6, <1>7, <1>8 DEF BufferOK

(* A sequence with one more element. *)
LEMMA OneMore ==
  ASSUME NEW S, NEW p \in Seq(S), NEW z \in S, NEW q, q = p \o <<z>>
  PROVE  /\ q \in Seq(S) /\ Len(q) = Len(p) + 1
         /\ \A i \in 1..Len(p) : q[i] = p[i]
         /\ q[Len(p) + 1] = z
<1>1. <<z>> \in Seq(S) /\ Len(<<z>>) = 1 /\ <<z>>[1] = z
  OBVIOUS
<1>2. /\ q \in Seq(S) /\ Len(q) = Len(p) + 1
      /\ \A i \in 1..(Len(p) + 1) :
           q[i] = IF i <= Len(p) THEN p[i] ELSE <<z>>[i - Len(p)]
  BY <1>1, ConcatProperties
<1>3. Len(p) \in Nat
  BY LenProperties
<1>4. /\ Len(p) + 1 \in 1..(Len(p) + 1) /\ ~(Len(p) + 1 <= Len(p))
      /\ (Len(p) + 1) - Len(p) = 1
      /\ \A i \in 1..Len(p) : i \in 1..(Len(p) + 1) /\ i <= Len(p)
  BY <1>3
<1>5. q[Len(p) + 1] = <<z>>[1]
  BY <1>2, <1>4
<1>6. \A i \in 1..Len(p) : q[i] = p[i]
  BY <1>2, <1>4
<1>. QED BY <1>1, <1>2, <1>5, <1>6

(* The ports of a request are received, perhaps with the start of the next;  *)
(* and what the agent reads where they are.                                  *)
Received(b, n, ports, next0, c, far) ==
  /\ BufferOK(b) /\ Reached(b, n)
  /\ ports \in Seq(Chars \ {NUL}) /\ Len(ports) < Len(b)
  /\ next0 \in {<<>>, <<NUL>>}
  /\ c = Over(ports \o next0, b)
  /\ far = Max({n, Len(ports)})

ReadBack(ports, c, far) ==
  /\ BufferOK(c) /\ Reached(c, far)
  /\ String(c) \in Seq(Chars)
  /\ IsPrefix(ports, String(c))
  /\ far <= Len(ports) => String(c) = ports

LEMMA PortsAreRead ==
  ASSUME NEW b, NEW n, NEW ports, NEW next0, NEW c, NEW far,
         Received(b, n, ports, next0, c, far)
  PROVE  ReadBack(ports, c, far)
<1>. USE DEF Received
<1> DEFINE bytes == ports \o next0
           l == Len(ports)
<1>1. /\ Len(b) \in Nat \ {0} /\ l \in Nat /\ n \in Nat
      /\ NUL \in Chars /\ ports \in Seq(Chars)
      /\ \A i \in 1..l : ports[i] \in Chars /\ ports[i] # NUL
  <2>1. Len(b) \in Nat \ {0} /\ b[Len(b)] \in Chars /\ b[Len(b)] = NUL
    BY ElementOfSeq DEF BufferOK
  <2>2. Len(ports) \in Nat /\ DOMAIN ports = 1..Len(ports)
    BY LenProperties
  <2>3. \A i \in 1..Len(ports) : ports[i] \in Chars \ {NUL}
    BY ElementOfSeq
  <2>4. ports \in Seq(Chars)
    OBVIOUS
  <2>. QED BY <2>1, <2>2, <2>3, <2>4 DEF Reached
<1>2. /\ bytes \in Seq(Chars) /\ Len(bytes) \in {l, l + 1}
      /\ \A i \in 1..l : bytes[i] = ports[i]
      /\ Len(bytes) = l + 1 => bytes[l + 1] = NUL
  <2>1. CASE next0 = <<>>
    <3>1. bytes = ports
      BY <1>1, <2>1, ConcatEmptySeq
    <3>. QED BY <1>1, <3>1
  <2>2. CASE next0 = <<NUL>>
    <3>1. ports \in Seq(Chars) /\ NUL \in Chars /\ bytes = ports \o <<NUL>>
      BY <1>1, <2>2
    <3>. QED BY <3>1, OneMore
  <2>. QED BY <2>1, <2>2
<1> HIDE DEF bytes
<1>3. /\ BufferOK(c) /\ Len(c) = Len(b)
      /\ \A i \in 1..Len(c) : c[i] = IF i <= Len(bytes) THEN bytes[i] ELSE b[i]
  <2>1. c = Over(bytes, b)
    BY DEF bytes
  <2>2. Len(bytes) <= Len(b) /\ (Len(bytes) = Len(b) => bytes[Len(bytes)] = NUL)
    BY <1>1, <1>2
  <2>. QED BY <1>1, <1>2, <2>1, <2>2, OverProps
<1>4. /\ \A i \in 1..l : c[i] = ports[i] /\ c[i] # NUL
      /\ \A i \in (l + 1)..Len(c) : c[i] # NUL => i <= n
  <2>1. \A i \in 1..l : c[i] = ports[i] /\ c[i] # NUL
    BY <1>1, <1>2, <1>3
  <2>2. ASSUME NEW i \in (l + 1)..Len(c), c[i] # NUL PROVE i <= n
    <3>1. c[i] = b[i]
      BY <1>1, <1>2, <1>3, <2>2
    <3>. QED BY <1>1, <1>3, <2>2, <3>1 DEF Reached
  <2>. QED BY <2>1, <2>2
<1>5. far \in Nat /\ n <= far /\ l <= far
  BY <1>1, MaxOfTwo
<1>6. Reached(c, far)
  <2>1. ASSUME NEW i \in 1..Len(c), c[i] # NUL PROVE i <= far
    <3>1. CASE i <= l
      BY <1>1, <1>3, <1>5, <3>1
    <3>2. CASE i > l
      <4>1. i \in (l + 1)..Len(c)
        BY <1>1, <1>3, <3>2
      <4>2. i <= n
        BY <1>4, <2>1, <4>1
      <4>. QED BY <1>1, <1>5, <4>2
    <3>. QED BY <1>1, <3>1, <3>2
  <2>. QED BY <1>5, <2>1 DEF Reached
<1> DEFINE Z == {i \in DOMAIN c : c[i] = NUL}
           m == Min(Z)
<1>7. /\ Z \subseteq Nat /\ Len(c) \in Z
      /\ c \in Seq(Chars) /\ DOMAIN c = 1..Len(c)
  <2>1. c \in Seq(Chars) /\ Len(c) \in Nat \ {0} /\ c[Len(c)] = NUL
    BY <1>3 DEF BufferOK
  <2>2. DOMAIN c = 1..Len(c)
    BY <2>1, LenProperties
  <2>. QED BY <2>1, <2>2
<1>8. m \in Z /\ \A i \in Z : m <= i
  BY <1>7, MinIsLeast
<1>9. m \in (l + 1)..Len(c)
  BY <1>1, <1>4, <1>7, <1>8
<1>10. String(c) = SubSeq(c, 1, m - 1)
  BY DEF String
<1> HIDE DEF m, Z
<1>11. /\ String(c) \in Seq(Chars) /\ Len(String(c)) = m - 1
       /\ \A i \in 1..(m - 1) : String(c)[i] = c[i]
  BY <1>1, <1>3, <1>7, <1>9, <1>10, SubSeqProperties
<1>12. IsPrefix(ports, String(c))
  <2>1. l <= Len(String(c)) /\ \A i \in 1..l : String(c)[i] = ports[i]
    BY <1>1, <1>4, <1>9, <1>11
  <2>2. SubSeq(ports, 1, l) = SubSeq(String(c), 1, l)
    <3>1. /\ SubSeq(ports, 1, l) \in Seq(Chars) /\ Len(SubSeq(ports, 1, l)) = l
          /\ \A i \in 1..l : SubSeq(ports, 1, l)[i] = ports[i]
      BY <1>1
    <3>2. /\ SubSeq(String(c), 1, l) \in Seq(Chars) /\ Len(SubSeq(String(c), 1, l)) = l
          /\ \A i \in 1..l : SubSeq(String(c), 1, l)[i] = String(c)[i]
      BY <1>1, <1>11, <2>1
    <3>. QED BY <2>1, <3>1, <3>2, SeqEqual
  <2>. QED BY <2>1, <2>2 DEF IsPrefix
<1>13. ASSUME far <= l PROVE String(c) = ports
  <2>1. \A i \in (l + 1)..Len(c) : c[i] = NUL
    BY <1>1, <1>3, <1>4, <1>5, <1>13
  <2>2. l + 1 \in Z
    BY <1>1, <1>3, <1>7, <2>1 DEF Z
  <2>3. m = l + 1
    BY <1>1, <1>3, <1>8, <1>9, <2>2
  <2>. QED BY <1>1, <1>4, <1>11, <2>3, SeqEqual
<1>. QED BY <1>3, <1>6, <1>11, <1>12, <1>13 DEF ReadBack

-----------------------------------------------------------------------------
(* ScanOptions: the invariant. *)

(* The flags of the GUI are those of its options. *)
GuiFlags ==
  /\ options \in Settable /\ (saved # Nothing => saved \in Settable)
  /\ FlagsAre(options_os_scan_flags, options)
  /\ ~opened => Follow(options_os_scan_flags, options)

(* A request says what was asked for. *)
RequestIsAsAsked ==
  /\ request # Nothing \/ command # Nothing => asked.options \in Settable
  /\ request # Nothing =>
       /\ FlagsAre(request.options, asked.options)
       /\ ~asked.opened => Follow(request.options, asked.options)
       /\ request.ports = asked.options.ports

ScanInv ==
  GuiFlags /\ BufferOK(buffer) /\ Reached(buffer, longest) /\ RequestIsAsAsked /\ ScanIsAsAsked

LEMMA SettableProps ==
  ASSUME NEW o \in Settable
  PROVE  /\ o \in AllOptions
         /\ o.ports \in Seq(Chars \ {NUL})
BY ScanOptionsAssumption DEF AllOptions

LEMMA ScanInitInv == ScanInit => ScanInv
<1> SUFFICES ASSUME ScanInit PROVE ScanInv
  OBVIOUS
<1>1. /\ options \in Settable /\ options \in AllOptions
      /\ options_os_scan_flags = apply_all_settings({}, options)
      /\ saved = Nothing /\ request = Nothing /\ command = Nothing
      /\ buffer \in Buffers /\ longest = Reach(buffer)
  BY SettableProps DEF ScanInit
<1>2. GuiFlags
  BY <1>1, ApplyAll DEF GuiFlags
<1>3. BufferOK(buffer) /\ Reached(buffer, longest)
  <2>1. buffer \in Seq(Chars)
    BY <1>1, ScanOptionsAssumption
  <2>. QED BY <1>1, <2>1, BufferStarts, ReachIsFar
<1>. QED BY <1>1, <1>2, <1>3 DEF ScanInv, RequestIsAsAsked, ScanIsAsAsked

(* A command says what the request says. *)
LEMMA CommandIsAsAsked ==
  ASSUME ScanInv, handle_osscan_request
  PROVE  /\ BufferOK(buffer') /\ Reached(buffer', longest')
         /\ ScanIsAsAsked'
         /\ asked' = asked /\ asked.options \in Settable
<1>1. PICK next0 \in {<<>>, <<NUL>>} :
        /\ buffer' = Over(request.ports \o next0, buffer)
        /\ longest' = Max({longest, Len(request.ports)})
        /\ command' = runNmapScan(request.options, String(buffer'))
        /\ asked' = asked
  BY DEF handle_osscan_request, gui
<1> DEFINE o == asked.options
           f == request.options
<1>2. /\ o \in AllOptions /\ o.ports \in Seq(Chars \ {NUL}) /\ Len(o.ports) < Len(buffer)
      /\ FlagsAre(f, o) /\ (~asked.opened => Follow(f, o)) /\ request.ports = o.ports
  <2>1. /\ o \in Settable /\ FlagsAre(f, o) /\ (~asked.opened => Follow(f, o))
        /\ request.ports = o.ports
    BY DEF ScanInv, RequestIsAsAsked, handle_osscan_request
  <2>2. Len(o.ports) < Len(buffer)
    BY <2>1 DEF ScanInv, BufferOK
  <2>. QED BY <2>1, <2>2, SettableProps
<1>3. BufferOK(buffer) /\ Reached(buffer, longest)
  BY DEF ScanInv
<1> HIDE DEF o, f
<1>4. /\ BufferOK(buffer') /\ Reached(buffer', longest')
      /\ String(buffer') \in Seq(Chars)
      /\ IsPrefix(o.ports, String(buffer'))
      /\ longest' <= Len(o.ports) => String(buffer') = o.ports
  <2>1. buffer' = Over(o.ports \o next0, buffer) /\ longest' = Max({longest, Len(o.ports)})
    BY <1>1, <1>2
  <2> DEFINE p == o.ports
  <2>2. p \in Seq(Chars \ {NUL}) /\ Len(p) < Len(buffer)
    BY <1>2
  <2>3. buffer' = Over(p \o next0, buffer) /\ longest' = Max({longest, Len(p)})
    BY <2>1
  <2> DEFINE c == buffer'
             far == longest'
  <2>4. next0 \in {<<>>, <<NUL>>} /\ c = Over(p \o next0, buffer) /\ far = Max({longest, Len(p)})
    BY <2>3
  <2> HIDE DEF p, c, far
  <2>5. Received(buffer, longest, p, next0, c, far)
    BY <1>3, <2>2, <2>4 DEF Received
  <2>6. ReadBack(p, c, far)
    BY <2>5, PortsAreRead
  <2>. QED BY <2>6 DEF p, c, far, ReadBack
<1>5. /\ command'.words \ {"-sR", "-I"} = Meant(o)
      /\ command'.words \intersect {"-sR", "-I"} = IF "RPC_SCAN" \in f THEN {"-sR", "-I"} ELSE {}
  <2>1. command'.words = runNmapScan(f, String(buffer')).words
    BY <1>1 DEF f
  <2>. QED BY <1>2, <2>1, CommandWords
<1>6. command'.ports = IF "USE_PORT_RANGE" \in f THEN String(buffer') ELSE Nothing
  BY <1>1 DEF runNmapScan, f
<1>7. "USE_PORT_RANGE" \in f <=> "USE_PORT_RANGE" \in o.on
  BY <1>2 DEF FlagsAre, Plain
<1>8. String(buffer') # Nothing
  BY <1>4, ScanOptionsAssumption
<1>9. o = asked'.options /\ asked' = asked
  BY <1>1 DEF o
<1> DEFINE both == command'.words \intersect {"-sR", "-I"}
<1>10. /\ command'.words \ both = Meant(o)
       /\ both \in {{}, {"-sR", "-I"}}
       /\ ~asked.opened => (both # {} <=> "OSSCAN" \in o.on)
  <2>1. command'.words \ both = command'.words \ {"-sR", "-I"}
    OBVIOUS
  <2>2. both # {} <=> "RPC_SCAN" \in f
    BY <1>5
  <2>3. ~asked.opened => (both # {} <=> "OSSCAN" \in o.on)
    BY <1>2, <2>2 DEF Follow
  <2>. QED BY <1>5, <2>1, <2>3
<1>11. /\ command'.ports # Nothing <=> "USE_PORT_RANGE" \in o.on
       /\ command'.ports # Nothing => IsPrefix(o.ports, command'.ports)
       /\ command'.ports # Nothing /\ longest' <= Len(o.ports) => command'.ports = o.ports
  BY <1>4, <1>6, <1>7, <1>8
<1>13. asked.options \in Settable
  BY DEF ScanInv, RequestIsAsAsked, handle_osscan_request
<1> HIDE DEF both
<1>12. ScanIsAsAsked'
  <2>1. /\ asked'.options = o /\ asked'.opened = asked.opened
        /\ both = command'.words \intersect {"-sR", "-I"}
    BY <1>9 DEF both
  <2>. QED BY <1>10, <1>11, <2>1 DEF ScanIsAsAsked
<1>. QED BY <1>4, <1>9, <1>12, <1>13

LEMMA ScanNextInv == ScanInv /\ [ScanNext]_scanVars => ScanInv'
<1> SUFFICES ASSUME ScanInv, [ScanNext]_scanVars PROVE ScanInv'
  OBVIOUS
<1>0. /\ GuiFlags /\ BufferOK(buffer) /\ Reached(buffer, longest)
      /\ RequestIsAsAsked /\ ScanIsAsAsked
  BY DEF ScanInv
<1>1. CASE apply_settings
  <2>1. /\ options' \in Settable /\ options' \in AllOptions /\ opened' = FALSE
        /\ options_os_scan_flags' = apply_all_settings(options_os_scan_flags, options')
        /\ UNCHANGED <<saved, request, buffer, command, longest, asked>>
    BY <1>1, SettableProps DEF apply_settings, agent
  <2>2. GuiFlags'
    BY <1>0, <2>1, ApplyAll DEF GuiFlags
  <2>3. BufferOK(buffer') /\ Reached(buffer', longest')
    BY <1>0, <2>1
  <2>4. RequestIsAsAsked' /\ ScanIsAsAsked'
    BY <1>0, <2>1 DEF RequestIsAsAsked, ScanIsAsAsked
  <2>. QED BY <2>2, <2>3, <2>4 DEF ScanInv
<1>2. CASE write_options
  <2>1. /\ saved' = options
        /\ UNCHANGED <<options, options_os_scan_flags, opened, request, buffer, command, longest, asked>>
    BY <1>2 DEF write_options, agent
  <2>2. GuiFlags'
    BY <1>0, <2>1 DEF GuiFlags
  <2>3. BufferOK(buffer') /\ Reached(buffer', longest')
    BY <1>0, <2>1
  <2>4. RequestIsAsAsked' /\ ScanIsAsAsked'
    BY <1>0, <2>1 DEF RequestIsAsAsked, ScanIsAsAsked
  <2>. QED BY <2>2, <2>3, <2>4 DEF ScanInv
<1>3. CASE OpenFile
  <2>1. /\ read_options /\ opened' = TRUE
        /\ UNCHANGED <<saved, request, buffer, command, longest, asked>>
    BY <1>3 DEF OpenFile, agent
  <2>2. options' = saved /\ saved # Nothing
    BY <2>1 DEF read_options
  <2>3. saved \in AllOptions /\ options \in AllOptions /\ saved \in Settable
    BY <1>0, <2>2, SettableProps DEF GuiFlags
  <2>4. FlagsAre(options_os_scan_flags', saved)
    BY <2>1, <2>3, ReadAll
  <2>5. GuiFlags'
    BY <2>1, <2>2, <2>3, <2>4 DEF GuiFlags
  <2>6. BufferOK(buffer') /\ Reached(buffer', longest')
    BY <1>0, <2>1
  <2>7. RequestIsAsAsked' /\ ScanIsAsAsked'
    BY <1>0, <2>1 DEF RequestIsAsAsked, ScanIsAsAsked
  <2>. QED BY <2>5, <2>6, <2>7 DEF ScanInv
<1>4. CASE do_os_scan
  <2>1. /\ request' = [options |-> options_os_scan_flags, ports |-> options.ports]
        /\ asked' = [options |-> options, opened |-> opened]
        /\ command' = Nothing
        /\ UNCHANGED <<options, options_os_scan_flags, saved, opened, buffer, longest>>
    BY <1>4 DEF do_os_scan, gui
  <2>2. /\ request'.options = options_os_scan_flags /\ request'.ports = options.ports
        /\ asked'.options = options /\ asked'.opened = opened
    BY <2>1
  <2>3. GuiFlags'
    BY <1>0, <2>1 DEF GuiFlags
  <2>4. RequestIsAsAsked'
    BY <1>0, <2>2 DEF RequestIsAsAsked, GuiFlags
  <2>5. ScanIsAsAsked'
    BY <2>1 DEF ScanIsAsAsked
  <2>6. BufferOK(buffer') /\ Reached(buffer', longest')
    BY <1>0, <2>1
  <2>. QED BY <2>3, <2>4, <2>5, <2>6 DEF ScanInv
<1>5. CASE handle_osscan_request
  <2>1. /\ BufferOK(buffer') /\ Reached(buffer', longest') /\ ScanIsAsAsked'
        /\ asked' = asked /\ asked.options \in Settable
    BY <1>5, CommandIsAsAsked
  <2>2. request' = Nothing /\ UNCHANGED <<options, options_os_scan_flags, saved, opened>>
    BY <1>5 DEF handle_osscan_request, gui
  <2>3. GuiFlags'
    BY <1>0, <2>2 DEF GuiFlags
  <2>4. RequestIsAsAsked'
    BY <2>1, <2>2 DEF RequestIsAsAsked
  <2>. QED BY <2>1, <2>3, <2>4 DEF ScanInv
<1>6. CASE OtherRequest
  <2>1. PICK bytes \in Others : /\ buffer' = Over(bytes, buffer)
                                /\ longest' = Max({longest, Reach(bytes)})
    BY <1>6 DEF OtherRequest
  <2>2. UNCHANGED <<options, options_os_scan_flags, saved, opened, command, request, asked>>
    BY <1>6 DEF OtherRequest, gui
  <2>3. /\ bytes \in Seq(Chars) /\ Len(bytes) < Len(buffer) /\ Len(bytes) \in Nat
        /\ Len(buffer) \in Nat
    <3>1. bytes \in Seq(Chars) /\ Len(bytes) < Len(buffer) /\ Len(buffer) \in Nat
      BY <1>0, ScanOptionsAssumption DEF BufferOK
    <3>. QED BY <3>1, LenProperties
  <2>4. /\ BufferOK(buffer') /\ Len(buffer') = Len(buffer)
        /\ \A i \in 1..Len(buffer') :
             buffer'[i] = IF i <= Len(bytes) THEN bytes[i] ELSE buffer[i]
    <3>1. Len(bytes) <= Len(buffer) /\ Len(bytes) # Len(buffer)
      BY <2>3
    <3>. QED BY <1>0, <2>1, <2>3, <3>1, OverProps
  <2>5. Reached(bytes, Reach(bytes))
    BY <2>3, ReachIsFar
  <2>6. longest' \in Nat /\ longest <= longest' /\ Reach(bytes) <= longest'
    BY <1>0, <2>1, <2>5, MaxOfTwo DEF Reached
  <2>7. Reached(buffer', longest')
    <3>1. ASSUME NEW i \in 1..Len(buffer'), buffer'[i] # NUL PROVE i <= longest'
      <4>1. CASE i <= Len(bytes)
        <5>1. i \in 1..Len(bytes) /\ bytes[i] # NUL
          BY <2>3, <2>4, <3>1, <4>1
        <5>2. i <= Reach(bytes) /\ Reach(bytes) \in Nat
          BY <2>5, <5>1 DEF Reached
        <5>. QED BY <2>6, <5>2
      <4>2. CASE ~(i <= Len(bytes))
        <5>1. i \in 1..Len(buffer) /\ buffer[i] # NUL
          BY <2>3, <2>4, <3>1, <4>2
        <5>2. i <= longest /\ longest \in Nat
          BY <1>0, <5>1 DEF Reached
        <5>. QED BY <2>3, <2>6, <5>1, <5>2
      <4>. QED BY <4>1, <4>2
    <3>. QED BY <2>6, <3>1 DEF Reached
  <2>8. GuiFlags' /\ RequestIsAsAsked'
    BY <1>0, <2>2 DEF GuiFlags, RequestIsAsAsked
  <2>9. ScanIsAsAsked'
    <3>1. SUFFICES ASSUME command # Nothing PROVE ScanIsAsAsked'
      BY <2>2 DEF ScanIsAsAsked
    <3> DEFINE p == asked.options.ports
    <3>2. ASSUME longest' <= Len(p), command.ports # Nothing PROVE command.ports = p
      <4>2. command.ports # Nothing /\ longest <= Len(p) => command.ports = p
        BY <1>0, <3>1 DEF ScanIsAsAsked
      <4>3. asked.options \in Settable
        BY <1>0, <3>1 DEF RequestIsAsAsked
      <4>4. Len(p) \in Nat
        BY <4>3, SettableProps, LenProperties
      <4>5. longest \in Nat
        BY <1>0 DEF Reached
      <4>6. longest <= Len(p)
        BY <2>6, <3>2, <4>4, <4>5
      <4>. QED BY <3>2, <4>2, <4>6
    <3>. QED BY <1>0, <2>2, <3>1, <3>2 DEF ScanIsAsAsked
  <2>. QED BY <2>4, <2>7, <2>8, <2>9 DEF ScanInv
<1>7. CASE UNCHANGED scanVars
  <2>1. UNCHANGED <<options, options_os_scan_flags, saved, opened, buffer, command, longest,
                    request, asked>>
    BY <1>7 DEF scanVars, gui, agent
  <2>. QED BY <1>0, <2>1 DEF ScanInv, GuiFlags, RequestIsAsAsked, ScanIsAsAsked
<1>. QED BY <1>1, <1>2, <1>3, <1>4, <1>5, <1>6, <1>7 DEF ScanNext

-----------------------------------------------------------------------------
(* EntryLists: sequences without repetition. *)

LEMMA PrependProperties ==
  ASSUME NEW S, NEW q \in Seq(S), NEW e \in S
  PROVE  /\ <<e>> \o q \in Seq(S) /\ Len(<<e>> \o q) = Len(q) + 1
         /\ (<<e>> \o q)[1] = e
         /\ \A i \in 1..Len(q) : (<<e>> \o q)[i + 1] = q[i]
<1>1. Len(q) \in Nat
  BY LenProperties
<1>2. <<e>> \in Seq(S) /\ Len(<<e>>) = 1 /\ <<e>>[1] = e
  OBVIOUS
<1>3. /\ <<e>> \o q \in Seq(S) /\ Len(<<e>> \o q) = 1 + Len(q)
      /\ \A i \in 1..(1 + Len(q)) : (<<e>> \o q)[i] = IF i <= 1 THEN <<e>>[i] ELSE q[i - 1]
  BY <1>2, ConcatProperties
<1>. QED BY <1>1, <1>2, <1>3

(* Removing place k shifts the elements after k down by one. *)
LEMMA RemoveAtProperties ==
  ASSUME NEW S, NEW q \in Seq(S), NEW k \in 1..Len(q)
  PROVE  /\ RemoveAt(q, k) \in Seq(S)
         /\ Len(RemoveAt(q, k)) = Len(q) - 1
         /\ \A i \in 1..(Len(q) - 1) :
              RemoveAt(q, k)[i] = IF i < k THEN q[i] ELSE q[i + 1]
<1> DEFINE a == SubSeq(q, 1, k - 1)
           b == SubSeq(q, k + 1, Len(q))
<1>1. Len(q) \in Nat /\ k \in Nat
  BY LenProperties
<1>2. /\ a \in Seq(S) /\ Len(a) = k - 1
      /\ \A i \in 1..(k - 1) : a[i] = q[i]
  BY <1>1, SubSeqProperties
<1>3. /\ b \in Seq(S) /\ Len(b) = Len(q) - k
      /\ \A i \in 1..(Len(q) - k) : b[i] = q[k + i]
  BY <1>1, SubSeqProperties
<1> HIDE DEF a, b
<1>4. RemoveAt(q, k) = a \o b
  BY DEF RemoveAt, a, b
<1>5. /\ a \o b \in Seq(S) /\ Len(a \o b) = Len(q) - 1
      /\ \A i \in 1..(Len(q) - 1) : (a \o b)[i] = IF i <= k - 1 THEN a[i] ELSE b[i - (k - 1)]
  <2>1. Len(a) + Len(b) = Len(q) - 1
    BY <1>1, <1>2, <1>3
  <2>2. /\ a \o b \in Seq(S) /\ Len(a \o b) = Len(a) + Len(b)
        /\ \A i \in 1..(Len(a) + Len(b)) :
             (a \o b)[i] = IF i <= Len(a) THEN a[i] ELSE b[i - Len(a)]
    BY <1>2, <1>3, ConcatProperties
  <2>. QED BY <1>2, <2>1, <2>2, Zenon
<1>6. ASSUME NEW i \in 1..(Len(q) - 1)
      PROVE (a \o b)[i] = IF i < k THEN q[i] ELSE q[i + 1]
  <2>1. CASE i < k
    BY <1>1, <1>2, <1>5, <2>1
  <2>2. CASE i >= k
    <3>1. i - (k - 1) \in 1..(Len(q) - k) /\ k + (i - (k - 1)) = i + 1
      BY <1>1, <2>2
    <3>2. b[i - (k - 1)] = q[i + 1]
      BY <1>3, <3>1
    <3>. QED BY <1>1, <1>5, <2>2, <3>2
  <2>3. i < k \/ i >= k
    BY <1>1
  <2>. QED BY <2>1, <2>2, <2>3, Zenon
<1>. QED BY <1>4, <1>5, <1>6

(* A list is a sequence of different elements.                               *)
Distinct(S, q) == q \in Seq(S) /\ IsInjective(q)

LEMMA SetOfSeq ==
  ASSUME NEW S, NEW q \in Seq(S)
  PROVE  /\ Len(q) \in Nat /\ DOMAIN q = 1..Len(q)
         /\ ToSet(q) = {q[i] : i \in 1..Len(q)}
         /\ ToSet(q) \subseteq S
         /\ IsInjective(q) <=> \A i, j \in 1..Len(q) : q[i] = q[j] => i = j
<1>1. Len(q) \in Nat /\ DOMAIN q = 1..Len(q)
  BY LenProperties
<1>2. \A i \in 1..Len(q) : q[i] \in S
  BY ElementOfSeq
<1>. QED BY <1>1, <1>2 DEF ToSet, IsInjective

LEMMA PrependSet ==
  ASSUME NEW S, NEW q \in Seq(S), NEW e \in S
  PROVE  /\ <<e>> \o q \in Seq(S) /\ Len(<<e>> \o q) = Len(q) + 1
         /\ ToSet(<<e>> \o q) = ToSet(q) \union {e}
         /\ IsInjective(q) /\ e \notin ToSet(q) => IsInjective(<<e>> \o q)
<1> DEFINE p == <<e>> \o q
<1>1. /\ p \in Seq(S) /\ Len(p) = Len(q) + 1 /\ p[1] = e
      /\ \A i \in 1..Len(q) : p[i + 1] = q[i]
  BY PrependProperties
<1> HIDE DEF p
<1>2. /\ Len(q) \in Nat /\ ToSet(q) = {q[i] : i \in 1..Len(q)}
      /\ IsInjective(q) <=> \A i, j \in 1..Len(q) : q[i] = q[j] => i = j
  BY SetOfSeq
<1>3. /\ ToSet(p) = {p[i] : i \in 1..Len(p)}
      /\ IsInjective(p) <=> \A i, j \in 1..Len(p) : p[i] = p[j] => i = j
  BY <1>1, SetOfSeq
<1>4. \A i \in 1..Len(p) : i = 1 \/ (i - 1 \in 1..Len(q) /\ p[i] = q[i - 1] /\ i \in Int)
  <2>1. ASSUME NEW i \in 1..Len(p), i # 1
        PROVE  i - 1 \in 1..Len(q) /\ p[i] = q[i - 1] /\ i \in Int
    <3>1. i - 1 \in 1..Len(q) /\ (i - 1) + 1 = i /\ i \in Int
      BY <1>1, <1>2, <2>1
    <3>. QED BY <1>1, <3>1
  <2>. QED BY <2>1
<1>5. 1 \in 1..Len(p) /\ \A i \in 1..Len(q) : i + 1 \in 1..Len(p)
  BY <1>1, <1>2
<1>6. ToSet(p) = ToSet(q) \union {e}
  <2>1. ASSUME NEW i \in 1..Len(p) PROVE p[i] \in ToSet(q) \union {e}
    <3>1. CASE i = 1
      BY <1>1, <3>1
    <3>2. CASE i # 1
      <4>1. i - 1 \in 1..Len(q) /\ p[i] = q[i - 1]
        BY <1>4, <3>2
      <4>2. q[i - 1] \in {q[j] : j \in 1..Len(q)}
        BY <4>1
      <4>. QED BY <1>2, <4>1, <4>2
    <3>. QED BY <3>1, <3>2
  <2>2. e \in ToSet(p)
    <3>1. 1 \in 1..Len(p) /\ p[1] = e
      BY <1>1, <1>5
    <3>2. p[1] \in {p[i] : i \in 1..Len(p)}
      BY <3>1
    <3>. QED BY <1>3, <3>1, <3>2
  <2>3. ASSUME NEW i \in 1..Len(q) PROVE q[i] \in ToSet(p)
    <3>1. q[i] = p[i + 1] /\ i + 1 \in 1..Len(p)
      BY <1>1, <1>5
    <3>. QED BY <1>3, <3>1
  <2>4. ToSet(p) \subseteq ToSet(q) \union {e}
    BY <1>3, <2>1
  <2>5. ToSet(q) \subseteq ToSet(p)
    BY <1>2, <2>3
  <2>. QED BY <2>2, <2>4, <2>5
<1>7. ASSUME IsInjective(q), e \notin ToSet(q), NEW i \in 1..Len(p), NEW j \in 1..Len(p), p[i] = p[j]
      PROVE  i = j
  <2>1. ASSUME NEW k \in 1..Len(p), k # 1 PROVE p[k] # e
    <3>1. k - 1 \in 1..Len(q) /\ p[k] = q[k - 1]
      BY <1>4, <2>1
    <3>2. q[k - 1] \in ToSet(q)
      BY <1>2, <3>1
    <3>. QED BY <1>7, <3>1, <3>2
  <2>2. CASE i = 1 \/ j = 1
    <3>1. i = 1 => p[j] = e
      BY <1>1, <1>7
    <3>2. j = 1 => p[i] = e
      BY <1>1, <1>7
    <3>. QED BY <2>1, <2>2, <3>1, <3>2
  <2>3. CASE i # 1 /\ j # 1
    <3>1. /\ i - 1 \in 1..Len(q) /\ p[i] = q[i - 1]
          /\ j - 1 \in 1..Len(q) /\ p[j] = q[j - 1]
      BY <1>4, <2>3
    <3>2. i - 1 = j - 1
      BY <1>2, <1>7, <3>1
    <3>3. i \in Int /\ j \in Int
      BY <1>4, <2>3
    <3>. QED BY <3>2, <3>3
  <2>. QED BY <2>2, <2>3
<1>. QED BY <1>1, <1>3, <1>6, <1>7 DEF p

LEMMA AppendSet ==
  ASSUME NEW S, NEW q \in Seq(S), NEW e \in S
  PROVE  /\ Append(q, e) \in Seq(S) /\ Len(Append(q, e)) = Len(q) + 1
         /\ ToSet(Append(q, e)) = ToSet(q) \union {e}
         /\ IsInjective(q) /\ e \notin ToSet(q) => IsInjective(Append(q, e))
<1> DEFINE p == Append(q, e)
<1>1. /\ p \in Seq(S) /\ Len(p) = Len(q) + 1 /\ p[Len(q) + 1] = e
      /\ \A i \in 1..Len(q) : p[i] = q[i]
  BY AppendProperties
<1> HIDE DEF p
<1>2. /\ Len(q) \in Nat /\ ToSet(q) = {q[i] : i \in 1..Len(q)}
      /\ IsInjective(q) <=> \A i, j \in 1..Len(q) : q[i] = q[j] => i = j
  BY SetOfSeq
<1>3. /\ ToSet(p) = {p[i] : i \in 1..Len(p)}
      /\ IsInjective(p) <=> \A i, j \in 1..Len(p) : p[i] = p[j] => i = j
  BY <1>1, SetOfSeq
<1>4. /\ \A i \in 1..Len(p) : i = Len(q) + 1 \/ i \in 1..Len(q)
      /\ \A i \in 1..Len(q) : i \in 1..Len(p) /\ i # Len(q) + 1
      /\ Len(q) + 1 \in 1..Len(p)
  BY <1>1, <1>2
<1>5. ToSet(p) = ToSet(q) \union {e}
  BY <1>1, <1>2, <1>3, <1>4
<1>6. ASSUME IsInjective(q), e \notin ToSet(q), NEW i \in 1..Len(p), NEW j \in 1..Len(p), p[i] = p[j]
      PROVE  i = j
  BY <1>1, <1>2, <1>4, <1>6
<1>. QED BY <1>1, <1>3, <1>5, <1>6 DEF p

LEMMA RemoveAtSet ==
  ASSUME NEW S, NEW q, Distinct(S, q), NEW k \in 1..Len(q)
  PROVE  /\ Distinct(S, RemoveAt(q, k)) /\ Len(RemoveAt(q, k)) = Len(q) - 1
         /\ ToSet(RemoveAt(q, k)) = ToSet(q) \ {q[k]}
<1> DEFINE p == RemoveAt(q, k)
           to(i) == IF i < k THEN i ELSE i + 1
<1>1. /\ Len(q) \in Nat /\ ToSet(q) = {q[i] : i \in 1..Len(q)}
      /\ \A i, j \in 1..Len(q) : q[i] = q[j] => i = j
  BY SetOfSeq DEF Distinct
<1>2. /\ p \in Seq(S) /\ Len(p) = Len(q) - 1
      /\ \A i \in 1..Len(p) : p[i] = q[to(i)]
  BY RemoveAtProperties DEF Distinct
<1> HIDE DEF p
<1>3. /\ ToSet(p) = {p[i] : i \in 1..Len(p)}
      /\ IsInjective(p) <=> \A i, j \in 1..Len(p) : p[i] = p[j] => i = j
  BY <1>2, SetOfSeq
<1>4. /\ \A i \in 1..Len(p) : to(i) \in 1..Len(q) /\ to(i) # k
      /\ \A i, j \in 1..Len(p) : to(i) = to(j) => i = j
  BY <1>1, <1>2
<1>5. \A i \in 1..Len(q) : i # k => \E j \in 1..Len(p) : i = to(j)
  <2>1. ASSUME NEW i \in 1..Len(q), i # k
        PROVE  \E j \in 1..Len(p) : i = to(j)
    <3>1. CASE i < k
      <4>1. i \in 1..Len(p) /\ i = to(i)
        BY <1>1, <1>2, <2>1, <3>1
      <4>. QED BY <4>1
    <3>2. CASE i > k
      <4>1. i - 1 \in 1..Len(p) /\ i = to(i - 1)
        BY <1>1, <1>2, <2>1, <3>2
      <4>. QED BY <4>1
    <3>. QED BY <1>1, <2>1, <3>1, <3>2
  <2>. QED BY <2>1
<1> HIDE DEF to
<1>6. ToSet(p) = ToSet(q) \ {q[k]}
  <2>1. \A x \in ToSet(p) : x \in ToSet(q) /\ x # q[k]
    BY <1>1, <1>2, <1>3, <1>4
  <2>2. \A x \in ToSet(q) : x # q[k] => x \in ToSet(p)
    <3>1. ASSUME NEW i \in 1..Len(q), q[i] # q[k] PROVE q[i] \in ToSet(p)
      <4>1. PICK j \in 1..Len(p) : i = to(j)
        BY <1>5, <3>1
      <4>2. p[j] = q[i]
        BY <1>2, <4>1
      <4>. QED BY <1>3, <4>2
    <3>. QED BY <1>1, <3>1
  <2>. QED BY <2>1, <2>2
<1>7. \A i, j \in 1..Len(p) : p[i] = p[j] => i = j
  BY <1>1, <1>2, <1>4
<1>. QED BY <1>2, <1>3, <1>6, <1>7 DEF Distinct, p

(* A row taken out and another put in its place. *)
WithRow(q, r, x) == SubSeq(q, 1, r) \o <<x>> \o SubSeq(q, r + 2, Len(q))

RowOf(S, q, r, x) == q \in Seq(S) /\ r \in 0..(Len(q) - 1) /\ x \in S

LEMMA ReplaceSet ==
  ASSUME NEW S, NEW q, NEW r, NEW x, RowOf(S, q, r, x)
  PROVE  /\ WithRow(q, r, x) \in Seq(S) /\ Len(WithRow(q, r, x)) = Len(q)
         /\ \A i \in 1..Len(q) : WithRow(q, r, x)[i] = IF i = r + 1 THEN x ELSE q[i]
<1> DEFINE p == WithRow(q, r, x)
           a == SubSeq(q, 1, r)
           b == SubSeq(q, r + 2, Len(q))
<1>0. q \in Seq(S) /\ r \in 0..(Len(q) - 1) /\ x \in S
  BY DEF RowOf
<1>1. /\ Len(q) \in Nat /\ r \in Nat /\ ToSet(q) = {q[i] : i \in 1..Len(q)}
      /\ IsInjective(q) <=> \A i, j \in 1..Len(q) : q[i] = q[j] => i = j
  <2>1. /\ Len(q) \in Nat /\ ToSet(q) = {q[i] : i \in 1..Len(q)}
        /\ IsInjective(q) <=> \A i, j \in 1..Len(q) : q[i] = q[j] => i = j
    BY <1>0, SetOfSeq
  <2>2. r \in Nat
    BY <1>0, <2>1
  <2>. QED BY <2>1, <2>2
<1>2. /\ a \in Seq(S) /\ Len(a) = r /\ \A i \in 1..r : a[i] = q[i]
  <2>1. \A i \in 1..r : q[i] \in S
    BY <1>0, <1>1, ElementOfSeq
  <2>. QED BY <1>0, <1>1, <2>1, SubSeqProperties
<1>3. /\ b \in Seq(S) /\ Len(b) = Len(q) - r - 1
      /\ \A i \in 1..(Len(q) - r - 1) : b[i] = q[r + 1 + i]
  <2>1. \A i \in (r + 2)..Len(q) : q[i] \in S
    BY <1>0, <1>1, ElementOfSeq
  <2>2. /\ b \in Seq(S) /\ Len(b) = IF r + 2 <= Len(q) THEN Len(q) - (r + 2) + 1 ELSE 0
        /\ \A i \in 1..(Len(q) - (r + 2) + 1) : b[i] = q[(r + 2) + i - 1]
    BY <1>0, <1>1, <2>1, SubSeqProperties
  <2>3. /\ Len(b) = Len(q) - r - 1 /\ Len(q) - (r + 2) + 1 = Len(q) - r - 1
        /\ \A i \in 1..(Len(q) - r - 1) : (r + 2) + i - 1 = r + 1 + i
    BY <1>0, <1>1, <2>2
  <2>. QED BY <2>2, <2>3
<1> HIDE DEF a, b
<1>4. /\ a \o <<x>> \in Seq(S) /\ Len(a \o <<x>>) = r + 1
      /\ \A i \in 1..(r + 1) : (a \o <<x>>)[i] = IF i = r + 1 THEN x ELSE q[i]
  <2>1. a \o <<x>> = Append(a, x)
    BY <1>0, <1>2, AppendIsConcat
  <2>. QED BY <1>0, <1>1, <1>2, <2>1, AppendProperties
<1> DEFINE c == a \o <<x>>
<1>5. p = c \o b
  BY DEF WithRow, a, b
<1> HIDE DEF c, p
<1>6. /\ p \in Seq(S) /\ Len(p) = Len(q)
      /\ \A i \in 1..Len(q) : p[i] = IF i <= r + 1 THEN c[i] ELSE b[i - (r + 1)]
  <2>1. /\ c \in Seq(S) /\ Len(c) = r + 1
    BY <1>4 DEF c
  <2>2. Len(c) + Len(b) = Len(q)
    BY <1>0, <1>1, <1>3, <2>1
  <2>3. /\ c \o b \in Seq(S) /\ Len(c \o b) = Len(c) + Len(b)
        /\ \A i \in 1..(Len(c) + Len(b)) : (c \o b)[i] = IF i <= Len(c) THEN c[i] ELSE b[i - Len(c)]
    BY <1>3, <2>1, ConcatProperties
  <2>. QED BY <1>5, <2>1, <2>2, <2>3
<1>7. ASSUME NEW i \in 1..Len(q) PROVE p[i] = IF i = r + 1 THEN x ELSE q[i]
  <2>1. CASE i <= r + 1
    <3>1. i \in 1..(r + 1)
      BY <1>0, <1>1, <2>1
    <3>2. c[i] = IF i = r + 1 THEN x ELSE q[i]
      BY <1>4, <3>1 DEF c
    <3>. QED BY <1>6, <2>1, <3>2
  <2>2. CASE i > r + 1
    <3>1. i - (r + 1) \in 1..(Len(q) - r - 1) /\ r + 1 + (i - (r + 1)) = i /\ ~(i <= r + 1) /\ i # r + 1
      BY <1>0, <1>1, <2>2
    <3>2. p[i] = b[i - (r + 1)] /\ b[i - (r + 1)] = q[r + 1 + (i - (r + 1))]
      BY <1>3, <1>6, <3>1
    <3>. QED BY <3>1, <3>2
  <2>3. i <= r + 1 \/ i > r + 1
    BY <1>0, <1>1
  <2>. QED BY <2>1, <2>2, <2>3
<1>. QED BY <1>6, <1>7 DEF p

(* A sequence with another element in one place. *)
LEMMA SetWithReplaced ==
  ASSUME NEW S, NEW q \in Seq(S), NEW r \in 0..(Len(q) - 1), NEW x \in S,
         NEW p \in Seq(S), Len(p) = Len(q),
         \A i \in 1..Len(q) : p[i] = IF i = r + 1 THEN x ELSE q[i]
  PROVE  IsInjective(q) /\ x \notin ToSet(q) \ {q[r + 1]} =>
           IsInjective(p) /\ ToSet(p) = (ToSet(q) \ {q[r + 1]}) \union {x}
<1>1. /\ Len(q) \in Nat /\ r \in Nat /\ ToSet(q) = {q[i] : i \in 1..Len(q)}
      /\ IsInjective(q) <=> \A i, j \in 1..Len(q) : q[i] = q[j] => i = j
  <2>1. /\ Len(q) \in Nat /\ ToSet(q) = {q[i] : i \in 1..Len(q)}
        /\ IsInjective(q) <=> \A i, j \in 1..Len(q) : q[i] = q[j] => i = j
    BY SetOfSeq
  <2>2. r \in Nat
    BY <2>1
  <2>. QED BY <2>1, <2>2
<1>2. /\ ToSet(p) = {p[i] : i \in 1..Len(q)}
      /\ IsInjective(p) <=> \A i, j \in 1..Len(q) : p[i] = p[j] => i = j
  <2>2. /\ ToSet(p) = {p[i] : i \in 1..Len(p)}
        /\ IsInjective(p) <=> \A i, j \in 1..Len(p) : p[i] = p[j] => i = j
    BY SetOfSeq
  <2>. QED BY <2>2
<1>3. ASSUME IsInjective(q), x \notin ToSet(q) \ {q[r + 1]}
      PROVE  IsInjective(p) /\ ToSet(p) = (ToSet(q) \ {q[r + 1]}) \union {x}
  <2>1. r + 1 \in 1..Len(q)
    BY <1>1
  <2>2. \A i \in 1..Len(q) : i # r + 1 => q[i] # x /\ q[i] # q[r + 1]
    BY <1>1, <1>3, <2>1
  <2>3. IsInjective(p)
    BY <1>1, <1>2, <1>3, <2>2
  <2>4. \A y \in ToSet(p) : y \in (ToSet(q) \ {q[r + 1]}) \union {x}
    <3>1. ASSUME NEW i \in 1..Len(q) PROVE p[i] \in (ToSet(q) \ {q[r + 1]}) \union {x}
      <4>1. p[i] = IF i = r + 1 THEN x ELSE q[i]
        OBVIOUS
      <4>2. q[i] \in ToSet(q) /\ (i # r + 1 => q[i] # q[r + 1])
        BY <1>1, <2>2
      <4>. QED BY <4>1, <4>2
    <3>. QED BY <1>2, <3>1
  <2>5. p[r + 1] = x /\ x \in ToSet(p)
    BY <1>2, <2>1
  <2>6. \A y \in ToSet(q) \ {q[r + 1]} : y \in ToSet(p)
    <3>1. ASSUME NEW i \in 1..Len(q), q[i] # q[r + 1] PROVE q[i] \in ToSet(p)
      <4>1. p[i] = q[i]
        BY <3>1
      <4>. QED BY <1>2, <4>1
    <3>. QED BY <1>1, <3>1
  <2>. QED BY <2>3, <2>4, <2>5, <2>6
<1>. QED BY <1>3

LEMMA ReplaceByNothing ==
  ASSUME NEW S, NEW q \in Seq(S), NEW r \in 0..(Len(q) - 1)
  PROVE  SubSeq(q, 1, r) \o <<>> \o SubSeq(q, r + 2, Len(q)) = RemoveAt(q, r + 1)
<1>1. Len(q) \in Nat /\ r \in Nat /\ (r + 1) - 1 = r /\ (r + 1) + 1 = r + 2
  BY SetOfSeq
<1>2. SubSeq(q, 1, r) \in Seq(S)
  <2>1. \A i \in 1..r : q[i] \in S
    BY <1>1, ElementOfSeq
  <2>. QED BY <1>1, <2>1, SubSeqProperties
<1>3. SubSeq(q, 1, r) \o <<>> = SubSeq(q, 1, r)
  BY <1>2, ConcatEmptySeq
<1>. QED BY <1>1, <1>3 DEF RemoveAt

-----------------------------------------------------------------------------
(* EntryLists: what the operations make of a list. *)

Gone == {Free, Dead}

(* A list: different structures, those in use, with different keys.          *)
ListOK(l, k) ==
  /\ l \in [list : Seq(Cells), at : [Cells -> LinesOf(k) \union Gone]]
  /\ IsInjective(l.list)
  /\ \A c \in Cells : c \in Listed(l) <=> l.at[c] \notin Gone
  /\ \A c, d \in Listed(l) : l.at[c].key = l.at[d].key => c = d

(* g is l with value v under key, in structure c, which had the key before   *)
(* or was not in the list; if it is longer, nothing was replaced.            *)
Added(l, g, k, key, v, c) ==
  /\ ListOK(g, k)
  /\ c \in Listed(g) /\ g.at[c] = [key |-> key, val |-> v]
  /\ Listed(g) = (Listed(l) \ Holders(l, key)) \union {c}
  /\ \A d \in Listed(g) \ {c} : g.at[d] = l.at[d]
  /\ c \in Listed(l) => l.at[c].key = key
  /\ Len(g.list) # Len(l.list) => Holders(l, key) = {} /\ c \notin Listed(l)

(* g is l without c.                                                         *)
Dropped(l, g, k, c) ==
  /\ ListOK(g, k)
  /\ Listed(g) = Listed(l) \ {c}
  /\ \A d \in Listed(g) : g.at[d] = l.at[d]
  /\ Len(g.list) = Len(l.list) - 1

(* g has the same entries as l.                                              *)
Same(l, g, k) ==
  ListOK(g, k) /\ g.list = l.list /\ \A d \in Listed(l) : g.at[d] = l.at[d]

LEMMA ListFacts ==
  ASSUME NEW l, NEW k \in Kinds, ListOK(l, k)
  PROVE  /\ l = [list |-> l.list, at |-> l.at]
         /\ l.list \in Seq(Cells) /\ Distinct(Cells, l.list) /\ Listed(l) \subseteq Cells
         /\ l.at \in [Cells -> LinesOf(k) \union Gone]
         /\ \A c \in Listed(l) : /\ l.at[c] \in LinesOf(k) /\ l.at[c].key \in KeysOf(k)
                                 /\ l.at[c].val \in Vals
                                 /\ l.at[c] = [key |-> l.at[c].key, val |-> l.at[c].val]
         /\ LinesOf(k) \intersect Gone = {}
         /\ \A c \in Unused(l) : c \in Cells /\ c \notin Listed(l) /\ l.at[c] = Free
         /\ \A c \in Listed(l) : Usable(l, c)
         /\ \A c : Usable(l, c) => c \in Listed(l)
<1>1. /\ l = [list |-> l.list, at |-> l.at]
      /\ l.list \in Seq(Cells) /\ l.at \in [Cells -> LinesOf(k) \union Gone]
  BY DEF ListOK
<1>2. Distinct(Cells, l.list) /\ Listed(l) \subseteq Cells
  BY <1>1, SetOfSeq DEF ListOK, Distinct, Listed
<1>3. LinesOf(k) \intersect Gone = {}
  BY SettingsAssumption DEF Gone
<1>4. \A c \in Listed(l) : l.at[c] \in LinesOf(k)
  BY <1>1, <1>2 DEF ListOK
<1>5. \A e \in LinesOf(k) : e.key \in KeysOf(k) /\ e.val \in Vals /\ e = [key |-> e.key, val |-> e.val]
  BY DEF LinesOf
<1>6. \A c \in Unused(l) : c \in Cells /\ c \notin Listed(l) /\ l.at[c] = Free
  BY DEF Unused, ListOK, Gone
<1>7. /\ \A c \in Listed(l) : Usable(l, c)
      /\ \A c : Usable(l, c) => c \in Listed(l)
  BY <1>2 DEF ListOK, Usable, Gone
<1>. QED BY <1>1, <1>2, <1>3, <1>4, <1>5, <1>6, <1>7

(* The list q, and the memory with a new entry in c, one of q. *)
Stored(l, q, key, v, c) == [list |-> q, at |-> [l.at EXCEPT ![c] = [key |-> key, val |-> v]]]

CanStore(l, q, k, key, v, c) ==
  /\ k \in Kinds /\ ListOK(l, k) /\ key \in KeysOf(k) /\ v \in Vals /\ c \in Cells
  /\ Distinct(Cells, q) /\ ToSet(q) = Listed(l) \union {c}
  /\ \A d \in Listed(l) \ {c} : l.at[d].key # key

HasStored(l, g, k, key, v, c) ==
  /\ ListOK(g, k) /\ Listed(g) = Listed(l) \union {c}
  /\ g.at[c] = [key |-> key, val |-> v]
  /\ \A d \in Cells \ {c} : g.at[d] = l.at[d]

LEMMA EntrySet ==
  ASSUME NEW l, NEW q, NEW k, NEW key, NEW v, NEW c, CanStore(l, q, k, key, v, c)
  PROVE  HasStored(l, Stored(l, q, key, v, c), k, key, v, c)
<1> DEFINE g == Stored(l, q, key, v, c)
<1>0. /\ k \in Kinds /\ ListOK(l, k) /\ key \in KeysOf(k) /\ v \in Vals /\ c \in Cells
      /\ Distinct(Cells, q) /\ ToSet(q) = Listed(l) \union {c}
      /\ \A d \in Listed(l) \ {c} : l.at[d].key # key
  BY DEF CanStore
<1> DEFINE e == [key |-> key, val |-> v]
<1>1. /\ l.at \in [Cells -> LinesOf(k) \union Gone] /\ Listed(l) \subseteq Cells
      /\ LinesOf(k) \intersect Gone = {}
  BY <1>0, ListFacts
<1>2. e \in LinesOf(k) /\ e.key = key
  BY <1>0 DEF LinesOf
<1>3. g = [list |-> q, at |-> [l.at EXCEPT ![c] = e]]
  BY DEF Stored
<1> HIDE DEF e, g
<1>4. /\ g.list = q /\ g.at = [l.at EXCEPT ![c] = e]
  BY <1>3
<1>5. /\ g.at \in [Cells -> LinesOf(k) \union Gone] /\ g.at[c] = e
      /\ \A d \in Cells \ {c} : g.at[d] = l.at[d]
  BY <1>0, <1>1, <1>2, <1>4
<1>6. Listed(g) = Listed(l) \union {c}
  BY <1>0, <1>4 DEF Listed
<1>7. g \in [list : Seq(Cells), at : [Cells -> LinesOf(k) \union Gone]]
  BY <1>0, <1>3, <1>4, <1>5 DEF Distinct
<1>8. \A d \in Cells : d \in Listed(g) <=> g.at[d] \notin Gone
  BY <1>0, <1>1, <1>2, <1>5, <1>6 DEF ListOK
<1>9. \A a, d \in Listed(g) : g.at[a].key = g.at[d].key => a = d
  BY <1>0, <1>1, <1>2, <1>5, <1>6 DEF ListOK
<1>10. ListOK(g, k)
  BY <1>0, <1>4, <1>7, <1>8, <1>9 DEF ListOK, Distinct
<1>. QED BY <1>5, <1>6, <1>10 DEF HasStored, e, g

LEMMA UnlinkDrops ==
  ASSUME NEW l, NEW k \in Kinds, ListOK(l, k), NEW c \in Listed(l), NEW left \in Gone
  PROVE  /\ Dropped(l, Unlink(l, c, left), k, c)
         /\ \A d \in Cells \ {c} : Unlink(l, c, left).at[d] = l.at[d]
         /\ Unlink(l, c, left).at[c] = left
<1> DEFINE g == Unlink(l, c, left)
           q == l.list
           i == PlaceOf(l, c)
<1>1. /\ Distinct(Cells, q) /\ Listed(l) \subseteq Cells
      /\ l.at \in [Cells -> LinesOf(k) \union Gone]
      /\ LinesOf(k) \intersect Gone = {}
  BY ListFacts
<1>2. Listed(l) = {q[j] : j \in 1..Len(q)} /\ DOMAIN q = 1..Len(q)
  BY <1>1, SetOfSeq DEF Listed, Distinct
<1>3. i \in 1..Len(q) /\ q[i] = c
  <2>1. \E j \in DOMAIN q : q[j] = c
    BY <1>2
  <2>. QED BY <1>2, <2>1 DEF PlaceOf
<1>4. g = [list |-> RemoveAt(q, i), at |-> [l.at EXCEPT ![c] = left]]
  BY DEF Unlink
<1> HIDE DEF g, i
<1>5. /\ Distinct(Cells, RemoveAt(q, i)) /\ Len(RemoveAt(q, i)) = Len(q) - 1
      /\ ToSet(RemoveAt(q, i)) = Listed(l) \ {c}
  <2>1. ToSet(q) = Listed(l)
    BY DEF Listed
  <2>. QED BY <1>1, <1>3, <2>1, RemoveAtSet
<1>6. g.list = RemoveAt(q, i) /\ g.at = [l.at EXCEPT ![c] = left]
  BY <1>4
<1>7. /\ g.at \in [Cells -> LinesOf(k) \union Gone] /\ g.at[c] = left
      /\ \A d \in Cells \ {c} : g.at[d] = l.at[d]
  BY <1>1, <1>6
<1>8. Listed(g) = Listed(l) \ {c}
  BY <1>5, <1>6 DEF Listed
<1>9. g \in [list : Seq(Cells), at : [Cells -> LinesOf(k) \union Gone]]
  BY <1>4, <1>5, <1>6, <1>7 DEF Distinct
<1>10. ListOK(g, k)
  <2>1. \A d \in Cells : d \in Listed(g) <=> g.at[d] \notin Gone
    BY <1>1, <1>7, <1>8 DEF ListOK
  <2>2. \A a, d \in Listed(g) : g.at[a].key = g.at[d].key => a = d
    BY <1>1, <1>7, <1>8 DEF ListOK
  <2>. QED BY <1>5, <1>6, <1>9, <2>1, <2>2 DEF ListOK, Distinct
<1>11. Dropped(l, g, k, c)
  BY <1>1, <1>5, <1>6, <1>7, <1>8, <1>10 DEF Dropped
<1>. QED BY <1>7, <1>11 DEF g

LEMMA FirstHolderHolds ==
  ASSUME NEW l, NEW k \in Kinds, ListOK(l, k), NEW key, Holders(l, key) # {}
  PROVE  /\ FirstHolder(l, key) \in Listed(l) /\ l.at[FirstHolder(l, key)].key = key
         /\ Holders(l, key) = {FirstHolder(l, key)}
<1> DEFINE q == l.list
           P == {i \in 1..Len(q) : l.at[q[i]].key = key}
<1>1. /\ Listed(l) = {q[i] : i \in 1..Len(q)} /\ DOMAIN q = 1..Len(q) /\ Len(q) \in Nat
  BY ListFacts, SetOfSeq DEF Listed
<1>2. P # {} /\ P \subseteq Nat
  BY <1>1 DEF Holders
<1>3. PICK m \in P : \A n \in P : m <= n
  BY <1>2, LeastNat
<1>4. /\ m \in DOMAIN q /\ l.at[q[m]].key = key
      /\ \A j \in 1..(m - 1) : l.at[q[j]].key # key
  <2>1. m \in 1..Len(q) /\ l.at[q[m]].key = key
    BY <1>3
  <2>2. ASSUME NEW j \in 1..(m - 1) PROVE j \notin P /\ j \in 1..Len(q)
    <3>1. j \in 1..Len(q) /\ ~(m <= j)
      BY <1>1, <2>1
    <3>. QED BY <1>3, <3>1
  <2>. QED BY <1>1, <2>1, <2>2
<1> HIDE DEF P
<1>5. PICK i \in DOMAIN q : FirstHolder(l, key) = q[i] /\ l.at[q[i]].key = key
  <2> DEFINE Q(i) == /\ l.at[q[i]].key = key
                     /\ \A j \in 1..(i - 1) : l.at[q[j]].key # key
             f == CHOOSE i \in DOMAIN q : Q(i)
  <2>1. \E i \in DOMAIN q : Q(i)
    BY <1>4
  <2>2. FirstHolder(l, key) = q[f]
    BY DEF FirstHolder
  <2>3. f \in DOMAIN q /\ Q(f)
    <3> HIDE DEF Q
    <3>. QED BY <2>1
  <2> HIDE DEF f
  <2>. QED BY <2>2, <2>3
<1>6. FirstHolder(l, key) \in Listed(l) /\ l.at[FirstHolder(l, key)].key = key
  BY <1>1, <1>5
<1>. QED BY <1>6 DEF Holders, ListOK

(* Services and pixmaps. *)
LEMMA PutAdds ==
  ASSUME NEW l, NEW k \in Kinds, ListOK(l, k), NEW key \in KeysOf(k), NEW v \in Vals, NEW c,
         c \in Unused(l) \/ Holders(l, key) # {}
  PROVE  /\ Added(l, Put(l, key, v, c).h, k, key, v, Put(l, key, v, c).ret)
         /\ Listed(l) \subseteq Listed(Put(l, key, v, c).h)
<1>0. /\ l = [list |-> l.list, at |-> l.at] /\ Distinct(Cells, l.list)
      /\ Listed(l) \subseteq Cells /\ Listed(l) = ToSet(l.list)
      /\ \A d \in Listed(l) : l.at[d].key \in KeysOf(k) /\ l.at[d].val \in Vals
                              /\ l.at[d] = [key |-> l.at[d].key, val |-> l.at[d].val]
  BY ListFacts DEF Listed
<1>1. CASE Holders(l, key) # {}
  <2> DEFINE old == FirstHolder(l, key)
             g == [list |-> l.list, at |-> [l.at EXCEPT ![old] = [key |-> key, val |-> v]]]
  <2>1. old \in Listed(l) /\ l.at[old].key = key /\ Holders(l, key) = {old}
    BY <1>1, FirstHolderHolds
  <2>2. Put(l, key, v, c) = [h |-> [l EXCEPT !.at[old].val = v], ret |-> old]
    BY <1>1 DEF Put
  <2> HIDE DEF old
  <2>3. [l EXCEPT !.at[old].val = v] = g
    <3> DEFINE w == l.at[old]
    <3>1. [l EXCEPT !.at[old].val = v] = [l EXCEPT !.at = [l.at EXCEPT ![old] = [w EXCEPT !.val = v]]]
      OBVIOUS
    <3>2. w = [key |-> w.key, val |-> w.val] /\ w.key = key
      BY <1>0, <2>1
    <3> HIDE DEF w
    <3>3. [w EXCEPT !.val = v] = [key |-> key, val |-> v]
      BY <3>2
    <3>. QED BY <1>0, <3>1, <3>3
  <2>4. HasStored(l, g, k, key, v, old)
    <3>1. CanStore(l, l.list, k, key, v, old)
      BY <1>0, <2>1 DEF ListOK, CanStore
    <3>2. g = Stored(l, l.list, key, v, old)
      BY DEF Stored
    <3> HIDE DEF g
    <3>. QED BY <3>1, <3>2, EntrySet
  <2>5. g.list = l.list
    OBVIOUS
  <2>6. Put(l, key, v, c).h = g /\ Put(l, key, v, c).ret = old
    BY <2>2, <2>3
  <2> HIDE DEF g
  <2>7. Added(l, g, k, key, v, old)
    BY <1>0, <2>1, <2>4, <2>5 DEF Added, HasStored
  <2>. QED BY <2>4, <2>6, <2>7 DEF HasStored
<1>2. CASE Holders(l, key) = {}
  <2> DEFINE g == [list |-> <<c>> \o l.list, at |-> [l.at EXCEPT ![c] = [key |-> key, val |-> v]]]
  <2>1. c \in Cells /\ c \notin Listed(l)
    BY <1>2, ListFacts
  <2>2. Put(l, key, v, c).h = g /\ Put(l, key, v, c).ret = c
    BY <1>2 DEF Put
  <2>3. /\ Distinct(Cells, <<c>> \o l.list) /\ ToSet(<<c>> \o l.list) = Listed(l) \union {c}
    BY <1>0, <2>1, PrependSet DEF Distinct
  <2>4. \A d \in Listed(l) \ {c} : l.at[d].key # key
    BY <1>2 DEF Holders
  <2>5. HasStored(l, g, k, key, v, c)
    <3>1. CanStore(l, <<c>> \o l.list, k, key, v, c)
      BY <2>1, <2>3, <2>4 DEF CanStore
    <3>2. g = Stored(l, <<c>> \o l.list, key, v, c)
      BY DEF Stored
    <3> HIDE DEF g
    <3>. QED BY <3>1, <3>2, EntrySet
  <2> HIDE DEF g
  <2>6. Added(l, g, k, key, v, c)
    BY <1>0, <1>2, <2>1, <2>5 DEF Added, HasStored
  <2>. QED BY <2>2, <2>5, <2>6 DEF HasStored
<1>. QED BY <1>1, <1>2

(* Scripts. *)
LEMMA AppendAdds ==
  ASSUME NEW l, NEW k \in Kinds, ListOK(l, k), NEW key \in KeysOf(k), NEW v \in Vals,
         NEW c \in Cells \ Listed(l), Holders(l, key) = {}
  PROVE  /\ HasStored(l, Stored(l, Append(l.list, c), key, v, c), k, key, v, c)
         /\ Len(Append(l.list, c)) = Len(l.list) + 1
<1>1. Distinct(Cells, l.list) /\ Listed(l) = ToSet(l.list)
  BY ListFacts DEF Listed
<1>2. /\ Distinct(Cells, Append(l.list, c)) /\ ToSet(Append(l.list, c)) = Listed(l) \union {c}
      /\ Len(Append(l.list, c)) = Len(l.list) + 1
  BY <1>1, AppendSet DEF Distinct
<1>3. CanStore(l, Append(l.list, c), k, key, v, c)
  BY <1>2 DEF CanStore, Holders
<1>. QED BY <1>2, <1>3, EntrySet

LEMMA ScriptAdds ==
  ASSUME NEW l, ListOK(l, "scripts"), NEW key \in KeysOf("scripts"), NEW v \in Vals,
         NEW c \in Unused(l)
  PROVE  /\ Added(l, script_add(l, key, v, c).h, "scripts", key, v, c)
         /\ script_add(l, key, v, c).ret = c /\ c \notin Listed(l)
         /\ Holders(l, key) = {} => Len(script_add(l, key, v, c).h.list) = Len(l.list) + 1
         /\ Holders(l, key) # {} => Len(script_add(l, key, v, c).h.list) = Len(l.list)
<1> DEFINE r == script_add(l, key, v, c)
           f == FirstHolder(l, key)
           m == IF Holders(l, key) = {} THEN l ELSE script_remove_ptr(l, f)
           g == Stored(m, Append(m.list, c), key, v, c)
<1>0. "scripts" \in Kinds
  BY DEF Kinds
<1>1. r.ret = c /\ r.h = g /\ g.list = Append(m.list, c)
  BY DEF script_add, Stored
<1>2. c \in Cells /\ c \notin Listed(l) /\ Len(l.list) \in Nat /\ Listed(l) \subseteq Cells
  BY <1>0, ListFacts, LenProperties
<1>3. CASE Holders(l, key) = {}
  <2>1. m = l
    BY <1>3
  <2> HIDE DEF m
  <2>2. HasStored(l, g, "scripts", key, v, c) /\ Len(g.list) = Len(l.list) + 1
    BY <1>0, <1>1, <1>2, <1>3, <2>1, AppendAdds
  <2> HIDE DEF g, r
  <2>3. Added(l, g, "scripts", key, v, c)
    BY <1>2, <1>3, <2>2 DEF Added, HasStored
  <2>. QED BY <1>1, <1>2, <1>3, <2>2, <2>3 DEF r
<1>4. CASE Holders(l, key) # {}
  <2>1. f \in Listed(l) /\ l.at[f].key = key /\ Holders(l, key) = {f}
    BY <1>0, <1>4, FirstHolderHolds
  <2>2. m = Unlink(l, f, Dead)
    BY <1>4, <2>1 DEF script_remove_ptr
  <2>3. Dropped(l, m, "scripts", f)
    BY <1>0, <2>1, <2>2, UnlinkDrops DEF Gone
  <2> HIDE DEF m, f
  <2>4. /\ ListOK(m, "scripts") /\ Listed(m) = Listed(l) \ {f}
        /\ \A d \in Listed(m) : m.at[d] = l.at[d]
        /\ Len(m.list) = Len(l.list) - 1
    BY <2>3 DEF Dropped
  <2>5. Holders(m, key) = {} /\ c \in Cells \ Listed(m)
    BY <1>2, <2>1, <2>4 DEF Holders
  <2>6. HasStored(m, g, "scripts", key, v, c) /\ Len(g.list) = Len(m.list) + 1
    BY <1>0, <1>1, <2>4, <2>5, AppendAdds
  <2> HIDE DEF g, r
  <2>7. Len(g.list) = Len(l.list)
    BY <1>2, <2>4, <2>6
  <2>9. Added(l, g, "scripts", key, v, c)
    BY <1>2, <2>1, <2>4, <2>6, <2>7 DEF Added, HasStored
  <2>. QED BY <1>1, <1>2, <1>4, <2>7, <2>9 DEF r
<1>. QED BY <1>3, <1>4

LEMMA StoredKeys ==
  ASSUME NEW k \in Kinds, NEW key \in KeysOf(k)
  PROVE  StoredKey(k, key) \in KeysOf(k)
<1>1. CASE k = "services"
  <2>1. key \in Ports \X {TCP, UDP, IpTCP, IpUDP} /\ StoredKey(k, key) = AsEnum(key)
    BY <1>1 DEF KeysOf, StoredKey
  <2>2. key = <<key[1], key[2]>> /\ key[1] \in Ports /\ key[2] \in {TCP, UDP, IpTCP, IpUDP}
    BY <2>1
  <2> DEFINE e == CASE key[2] = IpTCP -> TCP [] key[2] = IpUDP -> UDP [] OTHER -> key[2]
  <2>3. e \in {TCP, UDP, IpTCP, IpUDP}
    BY <2>2
  <2>4. AsEnum(key) = [key EXCEPT ![2] = e]
    BY DEF AsEnum
  <2> HIDE DEF e
  <2>5. AsEnum(key) = <<key[1], e>>
    BY <2>2, <2>4
  <2>. QED BY <1>1, <2>1, <2>2, <2>3, <2>5 DEF KeysOf
<1>2. CASE k # "services"
  BY <1>2 DEF StoredKey
<1>. QED BY <1>1, <1>2

(* There is a structure for a new entry, or one that has its key.            *)
CanAdd(l, k, key, c) == c \in Unused(l) \/ (k # "scripts" /\ Holders(l, StoredKey(k, key)) # {})

LEMMA AddAdds ==
  ASSUME NEW l, NEW k \in Kinds, ListOK(l, k), NEW key \in KeysOf(k), NEW v \in Vals, NEW c,
         CanAdd(l, k, key, c)
  PROVE  /\ Added(l, add(k, l, key, v, c).h, k, StoredKey(k, key), v, add(k, l, key, v, c).ret)
         /\ k # "scripts" => Listed(l) \subseteq Listed(add(k, l, key, v, c).h)
<1> DEFINE s == StoredKey(k, key)
<1>1. s \in KeysOf(k)
  BY StoredKeys
<1>2. CASE k = "scripts"
  <2>1. s = key /\ c \in Unused(l) /\ add(k, l, key, v, c) = script_add(l, key, v, c)
    BY <1>2 DEF StoredKey, CanAdd, add
  <2>2. /\ Added(l, script_add(l, key, v, c).h, "scripts", key, v, c)
        /\ script_add(l, key, v, c).ret = c
    BY <1>2, <2>1, ScriptAdds
  <2>. QED BY <1>2, <2>1, <2>2
<1>3. CASE k # "scripts"
  <2>1. add(k, l, key, v, c) = Put(l, s, v, c)
    <3>1. k = "services" \/ k = "pixmaps"
      BY <1>3 DEF Kinds
    <3>. QED BY <3>1 DEF add, service_list_add, os_pixmap_list_add, StoredKey
  <2>2. c \in Unused(l) \/ Holders(l, s) # {}
    BY <1>3 DEF CanAdd
  <2> HIDE DEF s
  <2>3. /\ Added(l, Put(l, s, v, c).h, k, s, v, Put(l, s, v, c).ret)
        /\ Listed(l) \subseteq Listed(Put(l, s, v, c).h)
    BY <1>1, <2>2, PutAdds
  <2>. QED BY <2>1, <2>3 DEF s
<1>. QED BY <1>2, <1>3

(* What Edit makes of entry c: its structure is dropped because another has  *)
(* the key, or it is taken out (l becomes m) and put back under the key.     *)
PutBack(l, m, g, k, c, key, v, ret) ==
  /\ Dropped(l, m, k, c) /\ Added(m, g, k, key, v, ret)
  /\ ret \in Cells /\ (ret # c => ret \notin Listed(l))
  /\ k # "scripts" \/ Len(g.list) >= Len(l.list) => Holders(m, key) = {}

Changed(l, g, k, c, key, v, ret) ==
  \/ /\ ret = NULL /\ k # "scripts" /\ Dropped(l, g, k, c)
     /\ \E d \in Listed(l) \ {c} : l.at[d].key = key
  \/ \E m : PutBack(l, m, g, k, c, key, v, ret)

LEMMA ChangeChanges ==
  ASSUME NEW l, NEW k \in Kinds, ListOK(l, k), k # "scripts", NEW c \in Listed(l),
         NEW key \in KeysOf(k), NEW v \in Vals
  PROVE  Changed(l, Change(l, c, key, v).h, k, c, key, v, Change(l, c, key, v).ret)
<1> DEFINE m == Unlink(l, c, Free)
<1>0. /\ l = [list |-> l.list, at |-> l.at] /\ Distinct(Cells, l.list)
      /\ Listed(l) \subseteq Cells /\ Listed(l) = ToSet(l.list) /\ Len(l.list) \in Nat
  BY ListFacts, LenProperties DEF Listed
<1>1. Dropped(l, m, k, c)
  BY UnlinkDrops DEF Gone
<1> HIDE DEF m
<1>2. CASE Holders(l, key) \ {c} # {}
  <2>1. Change(l, c, key, v).h = m /\ Change(l, c, key, v).ret = NULL
    BY <1>2 DEF Change, m
  <2>2. \E d \in Listed(l) \ {c} : l.at[d].key = key
    BY <1>2 DEF Holders
  <2>. QED BY <1>1, <2>1, <2>2 DEF Changed
<1>3. CASE Holders(l, key) \ {c} = {}
  <2> DEFINE g == [l EXCEPT !.at[c] = [key |-> key, val |-> v]]
  <2>1. Change(l, c, key, v).h = g /\ Change(l, c, key, v).ret = c
    BY <1>3 DEF Change
  <2>2. g = Stored(l, l.list, key, v, c) /\ g.list = l.list
    BY <1>0 DEF Stored
  <2> HIDE DEF g
  <2>3. \A d \in Listed(l) \ {c} : l.at[d].key # key
    BY <1>3 DEF Holders
  <2>4. CanStore(l, l.list, k, key, v, c)
    BY <1>0, <2>3 DEF CanStore
  <2>5. HasStored(l, g, k, key, v, c)
    BY <2>2, <2>4, EntrySet
  <2>6. Holders(m, key) = {} /\ c \notin Listed(m) /\ Listed(m) = Listed(l) \ {c}
    BY <1>1, <2>3 DEF Dropped, Holders
  <2>7. \A d \in Listed(g) \ {c} : g.at[d] = m.at[d]
    BY <1>0, <1>1, <2>5 DEF HasStored, Dropped
  <2>8. Added(m, g, k, key, v, c)
    BY <2>5, <2>6, <2>7 DEF Added, HasStored
  <2>9. PutBack(l, m, g, k, c, key, v, c)
    BY <1>0, <1>1, <2>6, <2>8 DEF PutBack
  <2>. QED BY <2>1, <2>9 DEF Changed
<1>. QED BY <1>2, <1>3

LEMMA ScriptChanges ==
  ASSUME NEW l, ListOK(l, "scripts"), NEW s \in Listed(l), NEW key \in KeysOf("scripts"),
         NEW v \in Vals, NEW c \in Unused(l)
  PROVE  Changed(l, script_change(l, s, key, v, c).h, "scripts", s, key, v,
                 script_change(l, s, key, v, c).ret)
<1> DEFINE m == Unlink(l, s, Dead)
<1>0. "scripts" \in Kinds /\ Len(l.list) \in Nat /\ c \in Cells /\ c \notin Listed(l) /\ l.at[c] = Free
  <2>1. "scripts" \in Kinds
    BY DEF Kinds
  <2>. QED BY <2>1, ListFacts, LenProperties
<1>1. Dropped(l, m, "scripts", s) /\ m.at[c] = Free
  BY <1>0, UnlinkDrops DEF Gone
<1>2. script_change(l, s, key, v, c) = script_add(m, key, v, c)
  BY DEF script_change, script_remove_ptr
<1> HIDE DEF m
<1> DEFINE r == script_add(m, key, v, c)
<1>3. ListOK(m, "scripts") /\ c \in Unused(m) /\ Len(m.list) = Len(l.list) - 1
  BY <1>0, <1>1 DEF Dropped, Unused
<1>4. /\ Added(m, r.h, "scripts", key, v, c) /\ r.ret = c
      /\ Holders(m, key) # {} => Len(r.h.list) = Len(m.list)
  BY <1>3, ScriptAdds
<1> HIDE DEF r
<1>5. Len(r.h.list) >= Len(l.list) => Holders(m, key) = {}
  BY <1>0, <1>3, <1>4
<1>6. PutBack(l, m, r.h, "scripts", s, key, v, c)
  BY <1>0, <1>1, <1>4, <1>5 DEF PutBack
<1>. QED BY <1>2, <1>4, <1>6 DEF Changed, r

LEMMA EditChanges ==
  ASSUME NEW l, NEW k \in Kinds, ListOK(l, k), NEW s \in Listed(l), NEW key \in KeysOf(k),
         NEW v \in Vals, NEW c \in Unused(l)
  PROVE  Changed(l, change(k, l, s, key, v, c).h, k, s, key, v, change(k, l, s, key, v, c).ret)
<1>1. CASE k = "scripts"
  <2>1. change(k, l, s, key, v, c) = script_change(l, s, key, v, c)
    BY <1>1 DEF change
  <2>. QED BY <1>1, <2>1, ScriptChanges
<1>2. CASE k # "scripts"
  <2>1. change(k, l, s, key, v, c) = Change(l, s, key, v)
    <3>1. k = "services" \/ k = "pixmaps"
      BY <1>2 DEF Kinds
    <3>. QED BY <3>1 DEF change, service_list_change, os_pixmap_list_change
  <2>. QED BY <1>2, <2>1, ChangeChanges
<1>. QED BY <1>1, <1>2

LEMMA RemoveDrops ==
  ASSUME NEW l, NEW k \in Kinds, ListOK(l, k), NEW c
  PROVE  /\ c \in Listed(l) => Dropped(l, remove_ptr(k, l, c), k, c)
         /\ c \notin Listed(l) => remove_ptr(k, l, c) = l
<1>1. k \in {"services", "pixmaps", "scripts"}
  BY DEF Kinds
<1>2. ASSUME c \in Listed(l)
      PROVE  \E left \in Gone : remove_ptr(k, l, c) = Unlink(l, c, left)
  BY <1>1, <1>2 DEF remove_ptr, service_list_remove_ptr, os_pixmap_list_remove_ptr,
                    script_remove_ptr, Gone
<1>3. c \in Listed(l) => Dropped(l, remove_ptr(k, l, c), k, c)
  BY <1>2, UnlinkDrops
<1>4. c \notin Listed(l) => remove_ptr(k, l, c) = l
  BY <1>1 DEF remove_ptr, service_list_remove_ptr, os_pixmap_list_remove_ptr, script_remove_ptr
<1>. QED BY <1>3, <1>4

NoDead(l) == \A c \in Cells : l.at[c] # Dead

LEMMA ForgetKeeps ==
  ASSUME NEW l, NEW k \in Kinds, ListOK(l, k), NEW shown
  PROVE  Same(l, Forget(l, shown), k) /\ NoDead(Forget(l, {}))
<1> DEFINE g == Forget(l, shown)
<1>0. /\ l = [list |-> l.list, at |-> l.at] /\ Distinct(Cells, l.list) /\ Listed(l) \subseteq Cells
      /\ l.at \in [Cells -> LinesOf(k) \union Gone] /\ LinesOf(k) \intersect Gone = {}
  BY ListFacts
<1>1. ASSUME NEW t
      PROVE  /\ Forget(l, t).list = l.list
             /\ Forget(l, t).at = [c \in Cells |-> IF l.at[c] = Dead /\ c \notin t THEN Free ELSE l.at[c]]
             /\ Forget(l, t) = [list |-> Forget(l, t).list, at |-> Forget(l, t).at]
  BY <1>0 DEF Forget
<1>2. NoDead(Forget(l, {}))
  <2>1. Free # Dead
    BY SettingsAssumption
  <2>2. Forget(l, {}).at = [c \in Cells |-> IF l.at[c] = Dead THEN Free ELSE l.at[c]]
    BY DEF Forget
  <2>. QED BY <2>1, <2>2 DEF NoDead
<1>3. /\ g.list = l.list /\ g = [list |-> g.list, at |-> g.at]
      /\ g.at = [c \in Cells |-> IF l.at[c] = Dead /\ c \notin shown THEN Free ELSE l.at[c]]
  BY <1>1
<1> HIDE DEF g
<1>4. g.at \in [Cells -> LinesOf(k) \union Gone]
  BY <1>0, <1>3 DEF Gone
<1>5. Listed(g) = Listed(l)
  BY <1>3 DEF Listed
<1>6. \A c \in Cells : g.at[c] \in Gone <=> l.at[c] \in Gone
  BY <1>3 DEF Gone
<1>7. \A c \in Listed(l) : g.at[c] = l.at[c]
  BY <1>0, <1>3 DEF ListOK, Gone
<1>8. g \in [list : Seq(Cells), at : [Cells -> LinesOf(k) \union Gone]]
  BY <1>0, <1>3, <1>4 DEF Distinct
<1>9. ListOK(g, k)
  BY <1>0, <1>3, <1>5, <1>6, <1>7, <1>8 DEF ListOK, Distinct
<1>. QED BY <1>2, <1>3, <1>7, <1>9 DEF Same, g

-----------------------------------------------------------------------------
(* A list as the table of its keys and values.                               *)

ValueOf(l, key) ==
  IF Holders(l, key) = {} THEN None ELSE l.at[CHOOSE c \in Holders(l, key) : TRUE].val

TableOf(l, k) == [key \in KeysOf(k) |-> ValueOf(l, key)]

LEMMA ValueHeld ==
  ASSUME NEW l, NEW k \in Kinds, ListOK(l, k)
  PROVE  /\ \A c \in Listed(l) : ValueOf(l, l.at[c].key) = l.at[c].val
         /\ \A key : (\A c \in Listed(l) : l.at[c].key # key) => ValueOf(l, key) = None
         /\ \A key : ValueOf(l, key) # None => \E c \in Listed(l) : l.at[c].key = key
         /\ \A key : ValueOf(l, key) \in Vals \union {None}
         /\ TableOf(l, k) \in [KeysOf(k) -> Vals \union {None}]
<1>1. ASSUME NEW c \in Listed(l)
      PROVE  ValueOf(l, l.at[c].key) = l.at[c].val
  <2>1. Holders(l, l.at[c].key) = {c}
    BY DEF Holders, ListOK
  <2>. QED BY <2>1 DEF ValueOf
<1>2. ASSUME NEW key, \A c \in Listed(l) : l.at[c].key # key
      PROVE  ValueOf(l, key) = None
  BY <1>2 DEF ValueOf, Holders
<1>3. ASSUME NEW key
      PROVE  ValueOf(l, key) \in Vals \union {None}
  <2>1. CASE \A c \in Listed(l) : l.at[c].key # key
    BY <1>2, <2>1
  <2>2. CASE \E c \in Listed(l) : l.at[c].key = key
    <3>1. PICK c \in Listed(l) : l.at[c].key = key
      BY <2>2
    <3>2. ValueOf(l, key) = l.at[c].val
      BY <1>1, <3>1
    <3>3. l.at[c].val \in Vals
      BY ListFacts
    <3>. QED BY <3>2, <3>3
  <2>. QED BY <2>1, <2>2
<1>4. TableOf(l, k) \in [KeysOf(k) -> Vals \union {None}]
  BY <1>3 DEF TableOf
<1>. QED BY <1>1, <1>2, <1>3, <1>4

LEMMA AddedTable ==
  ASSUME NEW l, NEW k \in Kinds, ListOK(l, k), NEW key \in KeysOf(k), NEW v, NEW c, NEW g,
         Added(l, g, k, key, v, c)
  PROVE  TableOf(g, k) = [TableOf(l, k) EXCEPT ![key] = v]
<1>1. /\ ListOK(g, k) /\ c \in Listed(g) /\ g.at[c].key = key /\ g.at[c].val = v
      /\ Listed(g) = (Listed(l) \ Holders(l, key)) \union {c}
      /\ \A d \in Listed(g) \ {c} : g.at[d] = l.at[d]
      /\ c \in Listed(l) => l.at[c].key = key
  BY DEF Added
<1>2. ValueOf(g, key) = v
  BY <1>1, ValueHeld
<1>3. ASSUME NEW x \in KeysOf(k), x # key
      PROVE  ValueOf(g, x) = ValueOf(l, x)
  <2>1. ASSUME NEW d \in Listed(l), l.at[d].key = x
        PROVE  ValueOf(g, x) = l.at[d].val /\ ValueOf(l, x) = l.at[d].val
    <3>1. d \in Listed(g) \ {c}
      BY <1>1, <1>3, <2>1 DEF Holders
    <3>2. g.at[d] = l.at[d]
      BY <1>1, <3>1
    <3>. QED BY <1>1, <2>1, <3>1, <3>2, ValueHeld
  <2>2. CASE \A d \in Listed(l) : l.at[d].key # x
    <3>1. ASSUME NEW d \in Listed(g) PROVE g.at[d].key # x
      <4>1. CASE d = c
        BY <1>1, <1>3, <4>1
      <4>2. CASE d # c
        BY <1>1, <2>2, <4>2
      <4>. QED BY <4>1, <4>2
    <3>. QED BY <1>1, <2>2, <3>1, ValueHeld
  <2>. QED BY <2>1, <2>2
<1>4. \A x \in KeysOf(k) : ValueOf(g, x) = IF x = key THEN v ELSE ValueOf(l, x)
  BY <1>2, <1>3
<1>. QED BY <1>4 DEF TableOf

LEMMA DroppedTable ==
  ASSUME NEW l, NEW k \in Kinds, ListOK(l, k), NEW c \in Listed(l), NEW g, Dropped(l, g, k, c)
  PROVE  TableOf(g, k) = [TableOf(l, k) EXCEPT ![l.at[c].key] = None]
<1> DEFINE key == l.at[c].key
<1>1. /\ ListOK(g, k) /\ Listed(g) = Listed(l) \ {c}
      /\ \A d \in Listed(g) : g.at[d] = l.at[d]
  BY DEF Dropped
<1>2. \A d \in Listed(l) : l.at[d].key = key => d = c
  BY DEF ListOK
<1> HIDE DEF key
<1>3. ValueOf(g, key) = None
  BY <1>1, <1>2, ValueHeld
<1>4. ASSUME NEW x \in KeysOf(k), x # key
      PROVE  ValueOf(g, x) = ValueOf(l, x)
  <2>1. ASSUME NEW d \in Listed(l), l.at[d].key = x
        PROVE  ValueOf(g, x) = l.at[d].val /\ ValueOf(l, x) = l.at[d].val
    <3>1. d \in Listed(g) /\ g.at[d] = l.at[d]
      BY <1>1, <1>4, <2>1 DEF key
    <3>. QED BY <1>1, <2>1, <3>1, ValueHeld
  <2>2. CASE \A d \in Listed(l) : l.at[d].key # x
    BY <1>1, <2>2, ValueHeld
  <2>. QED BY <2>1, <2>2
<1>5. \A x \in KeysOf(k) : ValueOf(g, x) = IF x = key THEN None ELSE ValueOf(l, x)
  BY <1>3, <1>4
<1>. QED BY <1>5 DEF TableOf, key

LEMMA SameTable ==
  ASSUME NEW l, NEW k \in Kinds, ListOK(l, k), NEW g, Same(l, g, k)
  PROVE  TableOf(g, k) = TableOf(l, k) /\ Listed(g) = Listed(l)
<1>1. /\ ListOK(g, k) /\ Listed(g) = Listed(l) /\ \A d \in Listed(l) : g.at[d] = l.at[d]
  BY DEF Same, Listed
<1>2. ASSUME NEW x \in KeysOf(k)
      PROVE  ValueOf(g, x) = ValueOf(l, x)
  <2>1. ASSUME NEW d \in Listed(l), l.at[d].key = x
        PROVE  ValueOf(g, x) = l.at[d].val /\ ValueOf(l, x) = l.at[d].val
    BY <1>1, <2>1, ValueHeld
  <2>2. CASE \A d \in Listed(l) : l.at[d].key # x
    BY <1>1, <2>2, ValueHeld
  <2>. QED BY <2>1, <2>2
<1>. QED BY <1>1, <1>2 DEF TableOf

(* An addition to a list that is the same but for its memory.                *)
LEMMA AddedSame ==
  ASSUME NEW l, NEW k \in Kinds, NEW key, NEW v, NEW c, NEW g, NEW f,
         Added(l, g, k, key, v, c), Same(g, f, k)
  PROVE  Added(l, f, k, key, v, c)
<1>1. ListOK(f, k) /\ f.list = g.list /\ Listed(f) = Listed(g) /\ \A d \in Listed(g) : f.at[d] = g.at[d]
  BY DEF Same, Listed
<1>. QED BY <1>1 DEF Added

LEMMA DroppedSame ==
  ASSUME NEW l, NEW k \in Kinds, NEW c, NEW g, NEW f, Dropped(l, g, k, c), Same(g, f, k)
  PROVE  Dropped(l, f, k, c)
<1>1. ListOK(f, k) /\ f.list = g.list /\ Listed(f) = Listed(g) /\ \A d \in Listed(g) : f.at[d] = g.at[d]
  BY DEF Same, Listed
<1>. QED BY <1>1 DEF Dropped

LEMMA ChangedSame ==
  ASSUME NEW l, NEW k \in Kinds, NEW c, NEW key, NEW v, NEW ret, NEW g, NEW f,
         Changed(l, g, k, c, key, v, ret), Same(g, f, k)
  PROVE  Changed(l, f, k, c, key, v, ret)
<1>1. f.list = g.list
  BY DEF Same
<1>2. \A m : PutBack(l, m, g, k, c, key, v, ret) => PutBack(l, m, f, k, c, key, v, ret)
  BY <1>1, AddedSame DEF PutBack
<1>3. Dropped(l, g, k, c) => Dropped(l, f, k, c)
  BY DroppedSame
<1>. QED BY <1>2, <1>3 DEF Changed

(* An edit, as Tables has it.                                                *)
LEMMA ChangedTable ==
  ASSUME NEW l, NEW k \in Kinds, ListOK(l, k), NEW c \in Listed(l), NEW key \in KeysOf(k),
         NEW v \in Vals, NEW g, NEW ret, Changed(l, g, k, c, key, v, ret)
  PROVE  LET old == l.at[c].key
         IN  /\ old \in KeysOf(k) /\ TableOf(l, k)[old] # None
             /\ TableOf(g, k) =
                  [TableOf(l, k) EXCEPT
                     ![old] = None,
                     ![key] = IF key # old /\ @ # None /\ k # "scripts" THEN @ ELSE v]
<1> DEFINE old == l.at[c].key
           T == TableOf(l, k)
           w == IF key # old /\ [T EXCEPT ![old] = None][key] # None /\ k # "scripts"
                THEN [T EXCEPT ![old] = None][key] ELSE v
<1>1. old \in KeysOf(k) /\ l.at[c].val \in Vals /\ None \notin Vals
  BY ListFacts, SettingsAssumption
<1>2. T[old] # None /\ \A x \in KeysOf(k) : T[x] = ValueOf(l, x)
  BY <1>1, ValueHeld DEF TableOf
<1>3. T \in [KeysOf(k) -> Vals \union {None}]
  BY ValueHeld
<1>4. \A d \in Listed(l) : l.at[d].key = old => d = c
  BY DEF ListOK
<1> HIDE DEF old, T
<1>5. TableOf(g, k) = [[T EXCEPT ![old] = None] EXCEPT ![key] = w]
  <2>1. ASSUME ret = NULL, k # "scripts", Dropped(l, g, k, c),
               NEW d \in Listed(l) \ {c}, l.at[d].key = key
        PROVE  TableOf(g, k) = [[T EXCEPT ![old] = None] EXCEPT ![key] = w]
    <3>1. key # old /\ T[key] = l.at[d].val /\ l.at[d].val \in Vals
      <4>1. ValueOf(l, key) = l.at[d].val /\ l.at[d].val \in Vals
        BY <2>1, ListFacts, ValueHeld
      <4>. QED BY <1>2, <1>4, <2>1, <4>1
    <3>2. w = T[key]
      BY <1>1, <1>3, <2>1, <3>1
    <3>3. [[T EXCEPT ![old] = None] EXCEPT ![key] = T[key]] = [T EXCEPT ![old] = None]
      BY <1>3, <3>1
    <3>4. TableOf(g, k) = [T EXCEPT ![old] = None]
      BY <2>1, DroppedTable DEF T, old
    <3> HIDE DEF w
    <3>. QED BY <3>2, <3>3, <3>4
  <2>2. ASSUME NEW m, PutBack(l, m, g, k, c, key, v, ret)
        PROVE  TableOf(g, k) = [[T EXCEPT ![old] = None] EXCEPT ![key] = w]
    <3>1. Dropped(l, m, k, c) /\ Added(m, g, k, key, v, ret) /\ ListOK(m, k)
      BY <2>2 DEF PutBack, Dropped
    <3>2. TableOf(m, k) = [T EXCEPT ![old] = None]
      BY <3>1, DroppedTable DEF T, old
    <3>3. TableOf(g, k) = [TableOf(m, k) EXCEPT ![key] = v]
      BY <3>1, AddedTable
    <3>4. w = v
      <4>1. CASE k = "scripts" \/ key = old
        BY <4>1
      <4>2. CASE k # "scripts"
        <5>1. Holders(m, key) = {}
          BY <2>2, <4>2 DEF PutBack
        <5>2. TableOf(m, k)[key] = None
          BY <5>1 DEF TableOf, ValueOf
        <5>. QED BY <3>2, <5>2
      <4>. QED BY <4>1, <4>2
    <3> HIDE DEF w
    <3>. QED BY <3>2, <3>3, <3>4
  <2> HIDE DEF w
  <2>. QED BY <2>1, <2>2 DEF Changed
<1>. QED BY <1>1, <1>2, <1>5 DEF old, T

-----------------------------------------------------------------------------
(* Files. *)

FileOK(f, k) ==
  f \in Seq(LinesOf(k)) /\ \A i, j \in 1..Len(f) : f[i].key = f[j].key => i = j

LineTable(f, k) ==
  [key \in KeysOf(k) |->
     IF \E i \in DOMAIN f : f[i].key = key
     THEN f[CHOOSE i \in DOMAIN f : f[i].key = key].val ELSE None]

LEMMA LineValues ==
  ASSUME NEW k \in Kinds, NEW f, FileOK(f, k)
  PROVE  /\ Len(f) \in Nat /\ DOMAIN f = 1..Len(f)
         /\ \A i \in 1..Len(f) : f[i] \in LinesOf(k) /\ f[i].key \in KeysOf(k) /\ f[i].val \in Vals
         /\ \A i \in 1..Len(f) : LineTable(f, k)[f[i].key] = f[i].val
         /\ \A key \in KeysOf(k) : (\A i \in 1..Len(f) : f[i].key # key) => LineTable(f, k)[key] = None
         /\ LineTable(f, k) \in [KeysOf(k) -> Vals \union {None}]
<1>1. f \in Seq(LinesOf(k)) /\ \A i, j \in 1..Len(f) : f[i].key = f[j].key => i = j
  BY DEF FileOK
<1>2. Len(f) \in Nat /\ DOMAIN f = 1..Len(f)
  BY <1>1, LenProperties
<1>3. \A i \in 1..Len(f) : f[i] \in LinesOf(k) /\ f[i].key \in KeysOf(k) /\ f[i].val \in Vals
  <2>1. \A i \in 1..Len(f) : f[i] \in LinesOf(k)
    BY <1>1, ElementOfSeq
  <2>2. \A e \in LinesOf(k) : e.key \in KeysOf(k) /\ e.val \in Vals
    BY DEF LinesOf
  <2>. QED BY <2>1, <2>2
<1> DEFINE P(i, key) == f[i].key = key
           V(key) == IF \E i \in DOMAIN f : P(i, key)
                     THEN f[CHOOSE i \in DOMAIN f : P(i, key)].val ELSE None
<1>4. LineTable(f, k) = [key \in KeysOf(k) |-> V(key)]
  BY DEF LineTable
<1>5. ASSUME NEW i \in 1..Len(f)
      PROVE  V(f[i].key) = f[i].val
  <2> DEFINE j == CHOOSE j \in DOMAIN f : P(j, f[i].key)
  <2>1. \E n \in DOMAIN f : P(n, f[i].key)
    BY <1>2
  <2>2. V(f[i].key) = f[j].val
    BY <2>1
  <2>3. j \in DOMAIN f /\ P(j, f[i].key)
    <3> HIDE DEF P
    <3>. QED BY <2>1
  <2> HIDE DEF j, V
  <2>. QED BY <1>1, <1>2, <2>2, <2>3
<1>6. ASSUME NEW key, \A i \in 1..Len(f) : f[i].key # key
      PROVE  V(key) = None
  BY <1>2, <1>6
<1>7. ASSUME NEW key PROVE V(key) \in Vals \union {None}
  <2>1. CASE \A i \in 1..Len(f) : f[i].key # key
    <3>1. V(key) = None
      BY <1>6, <2>1
    <3> HIDE DEF V
    <3>. QED BY <3>1
  <2>2. CASE \E i \in 1..Len(f) : f[i].key = key
    <3>1. PICK i \in 1..Len(f) : f[i].key = key
      BY <2>2
    <3>2. V(key) = f[i].val
      BY <1>5, <3>1
    <3> HIDE DEF V
    <3>. QED BY <1>3, <3>2
  <2>. QED BY <2>1, <2>2
<1> HIDE DEF V
<1>. QED BY <1>2, <1>3, <1>4, <1>5, <1>6, <1>7

LEMMA EntriesAreLines ==
  ASSUME NEW l, NEW k \in Kinds, ListOK(l, k)
  PROVE  FileOK(Entries(l), k) /\ LineTable(Entries(l), k) = TableOf(l, k)
<1> DEFINE q == l.list
           f == Entries(l)
<1>1. /\ Distinct(Cells, q) /\ Listed(l) = ToSet(q)
      /\ \A c \in Listed(l) : l.at[c] \in LinesOf(k)
      /\ \A c, d \in Listed(l) : l.at[c].key = l.at[d].key => c = d
  BY ListFacts DEF Listed, ListOK
<1>2. /\ Len(q) \in Nat /\ DOMAIN q = 1..Len(q) /\ Listed(l) = {q[i] : i \in 1..Len(q)}
      /\ \A i, j \in 1..Len(q) : q[i] = q[j] => i = j
  BY <1>1, SetOfSeq DEF Distinct
<1>3. f = [i \in 1..Len(q) |-> l.at[q[i]]]
  BY <1>2 DEF Entries
<1> HIDE DEF f
<1>4. \A i \in 1..Len(q) : q[i] \in Listed(l) /\ f[i] = l.at[q[i]] /\ f[i] \in LinesOf(k)
  BY <1>1, <1>2, <1>3
<1>5. f \in Seq(LinesOf(k)) /\ Len(f) = Len(q)
  <2>1. f \in [1..Len(q) -> LinesOf(k)]
    BY <1>3, <1>4
  <2>2. f \in Seq(LinesOf(k))
    BY <1>2, <2>1, SeqDef
  <2>. QED BY <1>2, <1>3, <2>2, LenProperties
<1>6. FileOK(f, k)
  <2>1. ASSUME NEW i \in 1..Len(q), NEW j \in 1..Len(q), f[i].key = f[j].key PROVE i = j
    <3>1. /\ q[i] \in Listed(l) /\ q[j] \in Listed(l)
          /\ l.at[q[i]].key = l.at[q[j]].key
      BY <1>4, <2>1
    <3>2. q[i] = q[j]
      BY <1>1, <3>1
    <3>. QED BY <1>2, <3>2
  <2>. QED BY <1>5, <2>1 DEF FileOK
<1>7. ASSUME NEW key \in KeysOf(k)
      PROVE  LineTable(f, k)[key] = ValueOf(l, key)
  <2>1. ASSUME NEW i \in 1..Len(q), f[i].key = key
        PROVE  LineTable(f, k)[key] = ValueOf(l, key)
    <3>1. LineTable(f, k)[key] = f[i].val
      BY <1>5, <1>6, <2>1, LineValues
    <3>2. ValueOf(l, key) = l.at[q[i]].val
      BY <1>4, <2>1, ValueHeld
    <3>. QED BY <1>4, <3>1, <3>2
  <2>2. CASE \A i \in 1..Len(q) : f[i].key # key
    <3>1. LineTable(f, k)[key] = None
      BY <1>5, <1>6, <2>2, LineValues
    <3>2. \A c \in Listed(l) : l.at[c].key # key
      BY <1>2, <1>4, <2>2
    <3>. QED BY <3>1, <3>2, ValueHeld
  <2>. QED BY <2>1, <2>2
<1>8. LineTable(f, k) = TableOf(l, k)
  <2>1. LineTable(f, k) \in [KeysOf(k) -> Vals \union {None}]
    BY <1>6, LineValues
  <2>. QED BY <1>7, <2>1 DEF TableOf
<1>. QED BY <1>6, <1>8 DEF f

LEMMA EmptyIsList ==
  ASSUME NEW k \in Kinds
  PROVE  /\ ListOK(EmptyList, k) /\ NoDead(EmptyList)
         /\ \A key : ValueOf(EmptyList, key) = None
<1>1. EmptyList.list = <<>> /\ EmptyList.at = [c \in Cells |-> Free]
  BY DEF EmptyList
<1>2. <<>> \in Seq(Cells) /\ Len(<<>>) = 0
  OBVIOUS
<1>3. Listed(EmptyList) = {} /\ IsInjective(EmptyList.list)
  <2>1. /\ ToSet(<<>>) = {<<>>[i] : i \in 1..Len(<<>>)}
        /\ IsInjective(<<>>) <=> \A i, j \in 1..Len(<<>>) : <<>>[i] = <<>>[j] => i = j
    BY <1>2, SetOfSeq
  <2>. QED BY <1>1, <1>2, <2>1 DEF Listed
<1>4. EmptyList \in [list : Seq(Cells), at : [Cells -> LinesOf(k) \union Gone]]
  BY <1>2 DEF EmptyList, Gone
<1>5. \A c \in Cells : c \in Listed(EmptyList) <=> EmptyList.at[c] \notin Gone
  BY <1>1, <1>3 DEF Gone
<1>6. ListOK(EmptyList, k)
  BY <1>3, <1>4, <1>5 DEF ListOK
<1>7. Free # Dead
  BY SettingsAssumption
<1>8. NoDead(EmptyList)
  BY <1>1, <1>7 DEF NoDead
<1>. QED BY <1>3, <1>6, <1>8, ValueHeld

(* There is memory for one entry more: no two entries have one key, and     *)
(* there are fewer keys than structures, or as many as there are with the   *)
(* key that is added.                                                       *)
LEMMA MemoryLeft ==
  ASSUME NEW l, NEW k \in Kinds, ListOK(l, k), NoDead(l), NEW key \in KeysOf(k),
         k = "services" => Holders(l, key) = {}
  PROVE  Unused(l) # {}
<1>0. SUFFICES ASSUME Unused(l) = {} PROVE FALSE
  OBVIOUS
<1>1. IsFiniteSet(Cells) /\ IsFiniteSet(Ports) /\ IsFiniteSet(Strings)
      /\ Cardinality(KeysOf("services")) <= Cardinality(Cells)
      /\ Cardinality(Strings) < Cardinality(Cells)
  BY SettingsAssumption
<1>2. Cardinality(Cells) \in Nat
  BY <1>1, FS_CardinalityType
<1>3. \A c \in Cells : c \in Listed(l)
  BY <1>0 DEF NoDead, Unused, ListOK, Gone
<1>4. \A c \in Cells : l.at[c].key \in KeysOf(k)
  BY <1>3, ListFacts
<1>5. \A c, d \in Cells : l.at[c].key = l.at[d].key => c = d
  BY <1>3 DEF ListOK
<1>6. \E T : IsFiniteSet(T) /\ Cardinality(T) < Cardinality(Cells) /\ \A c \in Cells : l.at[c].key \in T
  <2>1. CASE k = "services"
    <3>1. IsFiniteSet(KeysOf("services"))
      <4>1. IsFiniteSet({TCP, UDP, IpTCP, IpUDP})
        <5>1. IsFiniteSet({}) /\ \A S, x : IsFiniteSet(S) => IsFiniteSet(S \union {x})
          BY FS_EmptySet, FS_AddElement
        <5>2. {TCP, UDP, IpTCP, IpUDP} = ((({} \union {TCP}) \union {UDP}) \union {IpTCP}) \union {IpUDP}
          OBVIOUS
        <5>3. IsFiniteSet(((({} \union {TCP}) \union {UDP}) \union {IpTCP}) \union {IpUDP})
          BY <5>1
        <5>. QED BY <5>2, <5>3
      <4>2. IsFiniteSet(Ports \X {TCP, UDP, IpTCP, IpUDP})
        BY <1>1, <4>1, FS_Product
      <4>. QED BY <4>2 DEF KeysOf
    <3>2. /\ IsFiniteSet(KeysOf("services") \ {key}) /\ Cardinality(KeysOf("services")) \in Nat
          /\ Cardinality(KeysOf("services") \ {key}) = Cardinality(KeysOf("services")) - 1
      BY <2>1, <3>1, FS_RemoveElement, FS_CardinalityType
    <3>3. \A c \in Cells : l.at[c].key \in KeysOf("services") \ {key}
      BY <1>3, <1>4, <2>1 DEF Holders
    <3>4. Cardinality(KeysOf("services") \ {key}) < Cardinality(Cells)
      BY <1>1, <1>2, <3>2
    <3>. QED BY <3>2, <3>3, <3>4
  <2>2. CASE k # "services"
    <3>1. KeysOf(k) = Strings
      BY <2>2 DEF KeysOf
    <3>. QED BY <1>1, <1>4, <3>1
  <2>. QED BY <2>1, <2>2
<1>7. PICK T : IsFiniteSet(T) /\ Cardinality(T) < Cardinality(Cells) /\ \A c \in Cells : l.at[c].key \in T
  BY <1>6
<1> DEFINE F == [c \in Cells |-> l.at[c].key]
<1>8. F \in [Cells -> T]
  BY <1>7
<1>9. \A c \in Cells : F[c] = l.at[c].key
  OBVIOUS
<1> HIDE DEF F
<1>10. \E x, y \in Cells : x # y /\ F[x] = F[y]
  BY <1>1, <1>7, <1>8, FS_PigeonHole
<1>. QED BY <1>5, <1>9, <1>10

-----------------------------------------------------------------------------
(* The lines of a table, added one after the other. *)

(* g[0] to g[n] are what the first lines make of l.                          *)
Steps(g, l, k, lines, n) ==
  /\ g[0] = l
  /\ \A i \in 0..(n - 1) : g[i + 1] = AddLine(k, g[i], lines[i + 1])

LEMMA AddAllSteps ==
  ASSUME NEW l, NEW k, NEW lines, Len(lines) \in Nat
  PROVE  \E g : Steps(g, l, k, lines, Len(lines)) /\ AddAll(k, l, lines) = g[Len(lines)]
<1> DEFINE N == Len(lines)
           F(m, g) == [i \in 0..m |-> IF i = 0 THEN l ELSE AddLine(k, g[i - 1], lines[i])]
           Bad == {m \in Nat : ~\E g : g = F(m, g)}
<1>1. 0 \notin Bad
  <2> DEFINE g == [i \in 0..0 |-> l]
  <2>1. g = F(0, g)
    <3>1. \A i \in 0..0 : i = 0
      OBVIOUS
    <3>. QED BY <3>1
  <2> HIDE DEF g, F
  <2>. QED BY <2>1
<1>2. ASSUME NEW m \in Nat, NEW g, g = F(m, g)
      PROVE  \E e : e = F(m + 1, e)
  <2> DEFINE e == [i \in 0..(m + 1) |-> IF i <= m THEN g[i] ELSE AddLine(k, g[m], lines[m + 1])]
             V(i) == IF i = 0 THEN l ELSE AddLine(k, e[i - 1], lines[i])
  <2>1. ASSUME NEW i \in 0..(m + 1)
        PROVE  e[i] = V(i)
    <3>1. CASE i = 0
      <4>1. e[i] = g[0] /\ g[0] = l
        <5>1. 0 \in 0..m /\ 0 \in 0..(m + 1) /\ 0 <= m
          OBVIOUS
        <5>2. g[0] = l
          BY <1>2, <5>1
        <5>. QED BY <3>1, <5>1, <5>2
      <4>. QED BY <3>1, <4>1
    <3>2. CASE i # 0 /\ i <= m
      <4>1. i \in 0..m /\ i - 1 \in 0..(m + 1) /\ i - 1 <= m
        BY <3>2
      <4>2. e[i] = g[i] /\ e[i - 1] = g[i - 1]
        BY <3>2, <4>1
      <4>3. g[i] = AddLine(k, g[i - 1], lines[i])
        BY <1>2, <3>2, <4>1
      <4> HIDE DEF e
      <4>. QED BY <3>2, <4>2, <4>3
    <3>3. CASE i = m + 1
      <4>1. i - 1 = m /\ m \in 0..(m + 1) /\ ~(i <= m) /\ i # 0
        BY <3>3
      <4>2. e[i] = AddLine(k, g[m], lines[m + 1]) /\ e[i - 1] = g[m]
        BY <4>1
      <4> HIDE DEF e
      <4>. QED BY <3>3, <4>1, <4>2
    <3>4. i = 0 \/ (i # 0 /\ i <= m) \/ i = m + 1
      OBVIOUS
    <3> HIDE DEF e, V
    <3>. QED BY <3>1, <3>2, <3>3, <3>4
  <2>2. e = [i \in 0..(m + 1) |-> e[i]]
    OBVIOUS
  <2> HIDE DEF e
  <2>3. e = F(m + 1, e)
    BY <2>1, <2>2
  <2> HIDE DEF F
  <2>. QED BY <2>3
<1>3. Bad = {}
  <2> HIDE DEF F
  <2>1. SUFFICES ASSUME Bad # {} PROVE FALSE
    OBVIOUS
  <2>2. PICK m \in Bad : \A n \in Bad : m <= n
    <3>1. Bad \subseteq Nat
      OBVIOUS
    <3> HIDE DEF Bad
    <3>. QED BY <2>1, <3>1, LeastNat
  <2>3. m \in Nat /\ m # 0
    BY <1>1, <2>2
  <2>4. m - 1 \in Nat /\ m - 1 \notin Bad /\ (m - 1) + 1 = m
    BY <2>2, <2>3
  <2>5. PICK g : g = F(m - 1, g)
    BY <2>4
  <2>6. \E e : e = F((m - 1) + 1, e)
    BY <1>2, <2>4, <2>5
  <2>. QED BY <2>2, <2>4, <2>6
<1>4. \E g : g = F(N, g)
  <2> HIDE DEF F
  <2>. QED BY <1>3
<1> DEFINE P == CHOOSE g : g = F(N, g)
<1>5. P = F(N, P)
  <2> HIDE DEF F
  <2>. QED BY <1>4
<1>6. AddAll(k, l, lines) = P[N]
  BY DEF AddAll
<1> HIDE DEF P
<1>7. Steps(P, l, k, lines, N)
  <2>1. P[0] = l
    BY <1>5
  <2>2. ASSUME NEW i \in 0..(N - 1)
        PROVE  P[i + 1] = AddLine(k, P[i], lines[i + 1])
    <3>1. i + 1 \in 0..N /\ i + 1 # 0 /\ (i + 1) - 1 = i
      OBVIOUS
    <3>. QED BY <1>5, <3>1
  <2>. QED BY <2>1, <2>2 DEF Steps
<1>. QED BY <1>6, <1>7

LEMMA AddLineBuilds ==
  ASSUME NEW l, NEW k \in Kinds, ListOK(l, k), NoDead(l), NEW e \in LinesOf(k)
  PROVE  /\ ListOK(AddLine(k, l, e), k) /\ NoDead(AddLine(k, l, e))
         /\ TableOf(AddLine(k, l, e), k) = [TableOf(l, k) EXCEPT ![StoredKey(k, e.key)] = e.val]
<1> DEFINE c == CHOOSE c \in Unused(l) : TRUE
           r == add(k, l, e.key, e.val, c)
           s == StoredKey(k, e.key)
<1>1. e.key \in KeysOf(k) /\ e.val \in Vals
  BY DEF LinesOf
<1>2. s \in KeysOf(k)
  BY <1>1, StoredKeys
<1>3. AddLine(k, l, e) = Forget(r.h, {})
  BY DEF AddLine
<1>4. CanAdd(l, k, e.key, c)
  <2>1. CASE k = "services" /\ Holders(l, s) # {}
    BY <2>1 DEF CanAdd
  <2>2. CASE ~(k = "services" /\ Holders(l, s) # {})
    <3>1. Unused(l) # {}
      BY <1>2, <2>2, MemoryLeft
    <3>2. c \in Unused(l)
      BY <3>1
    <3>. QED BY <3>2 DEF CanAdd
  <2>. QED BY <2>1, <2>2
<1> HIDE DEF c
<1>5. Added(l, r.h, k, s, e.val, r.ret)
  BY <1>1, <1>4, AddAdds
<1> HIDE DEF r, s
<1>6. ListOK(r.h, k)
  BY <1>5 DEF Added
<1>7. TableOf(r.h, k) = [TableOf(l, k) EXCEPT ![s] = e.val]
  BY <1>2, <1>5, AddedTable
<1>8. Same(r.h, Forget(r.h, {}), k) /\ NoDead(Forget(r.h, {}))
  BY <1>6, ForgetKeeps
<1>9. TableOf(Forget(r.h, {}), k) = TableOf(r.h, k) /\ ListOK(Forget(r.h, {}), k)
  BY <1>6, <1>8, SameTable DEF Same
<1>. QED BY <1>3, <1>7, <1>8, <1>9 DEF s

(* After n lines each key has the value it had, and none of them is stored   *)
(* under it, or that of one that is.                                         *)
BuiltBy(l, g, k, lines, n) ==
  /\ ListOK(g, k) /\ NoDead(g)
  /\ \A key \in KeysOf(k) :
       \/ /\ \A i \in 1..n : StoredKey(k, lines[i].key) # key
          /\ TableOf(g, k)[key] = TableOf(l, k)[key]
       \/ \E i \in 1..n : StoredKey(k, lines[i].key) = key /\ TableOf(g, k)[key] = lines[i].val

LEMMA AddAllBuilds ==
  ASSUME NEW l, NEW k \in Kinds, ListOK(l, k), NoDead(l), NEW lines \in Seq(LinesOf(k))
  PROVE  BuiltBy(l, AddAll(k, l, lines), k, lines, Len(lines))
<1> DEFINE N == Len(lines)
<1>1. N \in Nat /\ \A i \in 1..N : lines[i] \in LinesOf(k)
  BY LenProperties, ElementOfSeq
<1>2. PICK g : Steps(g, l, k, lines, N) /\ AddAll(k, l, lines) = g[N]
  BY <1>1, AddAllSteps
<1>3. g[0] = l /\ \A i \in 0..(N - 1) : g[i + 1] = AddLine(k, g[i], lines[i + 1])
  BY <1>2 DEF Steps
<1> DEFINE Bad == {m \in 0..N : ~BuiltBy(l, g[m], k, lines, m)}
<1>4. BuiltBy(l, g[0], k, lines, 0)
  <2>1. 1..0 = {}
    OBVIOUS
  <2>. QED BY <1>3, <2>1 DEF BuiltBy
<1>5. ASSUME NEW m \in 0..(N - 1), BuiltBy(l, g[m], k, lines, m)
      PROVE  BuiltBy(l, g[m + 1], k, lines, m + 1)
  <2> DEFINE a == g[m]
             b == g[m + 1]
             e == lines[m + 1]
             s == StoredKey(k, e.key)
  <2>1. m + 1 \in 1..N /\ m + 1 \in 1..(m + 1) /\ m \in Nat /\ 1..m \subseteq 1..(m + 1)
        /\ \A i \in 1..(m + 1) : i \in 1..m \/ i = m + 1
    BY <1>1
  <2>2. e \in LinesOf(k) /\ b = AddLine(k, a, e)
    BY <1>1, <1>3, <2>1
  <2> HIDE DEF a, b
  <2>3. ListOK(a, k) /\ NoDead(a) /\ e.key \in KeysOf(k)
    BY <1>5, <2>2 DEF BuiltBy, a, LinesOf
  <2>4. /\ ListOK(b, k) /\ NoDead(b) /\ TableOf(b, k) = [TableOf(a, k) EXCEPT ![s] = e.val]
    BY <2>2, <2>3, AddLineBuilds
  <2>5. s \in KeysOf(k) /\ TableOf(a, k) \in [KeysOf(k) -> Vals \union {None}]
    BY <2>3, StoredKeys, ValueHeld
  <2>6. /\ TableOf(b, k)[s] = e.val
        /\ \A key \in KeysOf(k) : key # s => TableOf(b, k)[key] = TableOf(a, k)[key]
    BY <2>4, <2>5
  <2>7. ASSUME NEW key \in KeysOf(k)
        PROVE  \/ /\ \A i \in 1..(m + 1) : StoredKey(k, lines[i].key) # key
                  /\ TableOf(b, k)[key] = TableOf(l, k)[key]
               \/ \E i \in 1..(m + 1) : /\ StoredKey(k, lines[i].key) = key
                                        /\ TableOf(b, k)[key] = lines[i].val
    <3>1. CASE key = s
      BY <2>1, <2>6, <3>1
    <3>2. CASE key # s
      <4>1. TableOf(b, k)[key] = TableOf(a, k)[key] /\ StoredKey(k, lines[m + 1].key) # key
        BY <2>6, <3>2
      <4>2. \/ /\ \A i \in 1..m : StoredKey(k, lines[i].key) # key
               /\ TableOf(a, k)[key] = TableOf(l, k)[key]
            \/ \E i \in 1..m : StoredKey(k, lines[i].key) = key /\ TableOf(a, k)[key] = lines[i].val
        BY <1>5 DEF BuiltBy, a
      <4> HIDE DEF s, e
      <4>. QED BY <2>1, <4>1, <4>2
    <3>. QED BY <3>1, <3>2
  <2>. QED BY <2>4, <2>7 DEF BuiltBy, b
<1>6. Bad = {}
  <2>1. SUFFICES ASSUME Bad # {} PROVE FALSE
    OBVIOUS
  <2>2. PICK m \in Bad : \A n \in Bad : m <= n
    <3>1. Bad \subseteq Nat
      BY <1>1
    <3> HIDE DEF Bad
    <3>. QED BY <2>1, <3>1, LeastNat
  <2>3. m \in 0..N /\ m # 0
    BY <1>4, <2>2
  <2>4. m - 1 \in 0..(N - 1) /\ m - 1 \in 0..N /\ (m - 1) + 1 = m /\ ~(m <= m - 1)
    BY <1>1, <2>3
  <2>5. BuiltBy(l, g[m - 1], k, lines, m - 1)
    BY <2>2, <2>4
  <2>6. BuiltBy(l, g[(m - 1) + 1], k, lines, (m - 1) + 1)
    BY <1>5, <2>4, <2>5
  <2>. QED BY <2>2, <2>4, <2>6
<1>7. N \in 0..N
  BY <1>1
<1>8. BuiltBy(l, g[N], k, lines, N)
  BY <1>6, <1>7
<1>. QED BY <1>2, <1>8

LEMMA BuiltinsAreLines ==
  ASSUME NEW k \in Kinds
  PROVE  /\ FileOK(BuiltinLines(k), k) /\ BuiltinTable(k) = LineTable(BuiltinLines(k), k)
         /\ \A i \in 1..Len(BuiltinLines(k)) :
              StoredKey(k, BuiltinLines(k)[i].key) = BuiltinLines(k)[i].key
<1> DEFINE f == BuiltinLines(k)
<1>1. /\ f \in Seq(LinesOf(k)) /\ \A i, j \in DOMAIN f : f[i].key = f[j].key => i = j
      /\ k = "services" => \A i \in DOMAIN f : f[i].key[2] \in {TCP, UDP}
  BY SettingsAssumption
<1> HIDE DEF f
<1>2. Len(f) \in Nat /\ DOMAIN f = 1..Len(f)
  BY <1>1, LenProperties
<1>3. FileOK(f, k)
  BY <1>1, <1>2 DEF FileOK
<1>4. ASSUME NEW i \in 1..Len(f) PROVE StoredKey(k, f[i].key) = f[i].key
  <2>1. CASE k # "services"
    BY <2>1 DEF StoredKey
  <2>2. CASE k = "services"
    <3>1. f[i].key \in Ports \X {TCP, UDP, IpTCP, IpUDP} /\ f[i].key[2] \in {TCP, UDP}
      <4>1. f[i].key \in KeysOf(k)
        BY <1>3, LineValues
      <4>. QED BY <1>1, <1>2, <2>2, <4>1 DEF KeysOf
    <3> DEFINE key == f[i].key
    <3> HIDE DEF key
    <3>2. key \in Ports \X {TCP, UDP, IpTCP, IpUDP} /\ key[2] \in {TCP, UDP}
      BY <3>1 DEF key
    <3>3. key = <<key[1], key[2]>> /\ key[2] # IpTCP /\ key[2] # IpUDP
      BY <3>2 DEF TCP, UDP, IpTCP, IpUDP
    <3> DEFINE e == CASE key[2] = IpTCP -> TCP [] key[2] = IpUDP -> UDP [] OTHER -> key[2]
    <3>4. e = key[2] /\ AsEnum(key) = [key EXCEPT ![2] = e]
      BY <3>3 DEF AsEnum
    <3> HIDE DEF e
    <3>5. AsEnum(key) = key
      BY <3>2, <3>4
    <3>. QED BY <2>2, <3>5 DEF StoredKey, key
  <2>. QED BY <2>1, <2>2
<1>5. BuiltinTable(k) = LineTable(f, k)
  BY DEF BuiltinTable, LineTable, f
<1>. QED BY <1>3, <1>4, <1>5 DEF f

LEMMA DefaultBuilds ==
  ASSUME NEW k \in Kinds
  PROVE  LET g == Default(k, BuiltinLines(k))
         IN  ListOK(g, k) /\ NoDead(g) /\ TableOf(g, k) = BuiltinTable(k)
<1> DEFINE f == BuiltinLines(k)
           g == Default(k, f)
<1>1. /\ FileOK(f, k) /\ BuiltinTable(k) = LineTable(f, k)
      /\ \A i \in 1..Len(f) : StoredKey(k, f[i].key) = f[i].key
  BY BuiltinsAreLines
<1>2. g = AddAll(k, EmptyList, f)
  BY DEF Default, service_list_default, os_pixmap_list_default, script_default, Kinds
<1> HIDE DEF f, g
<1>3. /\ ListOK(EmptyList, k) /\ NoDead(EmptyList) /\ \A key : ValueOf(EmptyList, key) = None
  BY EmptyIsList
<1>4. BuiltBy(EmptyList, g, k, f, Len(f))
  <2>1. f \in Seq(LinesOf(k))
    BY <1>1 DEF FileOK
  <2>. QED BY <1>2, <1>3, <2>1, AddAllBuilds
<1>5. ASSUME NEW key \in KeysOf(k)
      PROVE  TableOf(g, k)[key] = LineTable(f, k)[key]
  <2>1. CASE /\ \A i \in 1..Len(f) : StoredKey(k, f[i].key) # key
             /\ TableOf(g, k)[key] = TableOf(EmptyList, k)[key]
    <3>1. TableOf(g, k)[key] = None
      BY <1>3, <2>1 DEF TableOf
    <3>2. \A i \in 1..Len(f) : f[i].key # key
      BY <1>1, <2>1
    <3>. QED BY <1>1, <3>1, <3>2, LineValues
  <2>2. ASSUME NEW i \in 1..Len(f), StoredKey(k, f[i].key) = key, TableOf(g, k)[key] = f[i].val
        PROVE  TableOf(g, k)[key] = LineTable(f, k)[key]
    <3>1. f[i].key = key
      BY <1>1, <2>2
    <3>. QED BY <1>1, <2>2, <3>1, LineValues
  <2>. QED BY <1>4, <2>1, <2>2 DEF BuiltBy
<1>6. ListOK(g, k) /\ NoDead(g)
  BY <1>4 DEF BuiltBy
<1>7. TableOf(g, k) = LineTable(f, k)
  <2>1. TableOf(g, k) \in [KeysOf(k) -> Vals \union {None}] /\ LineTable(f, k) \in [KeysOf(k) -> Vals \union {None}]
    BY <1>1, <1>6, LineValues, ValueHeld
  <2>. QED BY <1>5, <2>1
<1>. QED BY <1>1, <1>6, <1>7 DEF f, g

(* A file that was read: Tables' Load. *)
LEMMA ReadBuilds ==
  ASSUME NEW k \in Kinds, NEW f, FileOK(f, k)
  PROVE  LET g == AddAll(k, Default(k, BuiltinLines(k)), f)
             T == LineTable(f, k)
         IN  /\ ListOK(g, k)
             /\ \A key \in KeysOf(k) :
                  LET lines == {x \in KeysOf(k) : T[x] # None /\ StoredKey(k, x) = key}
                  IN  IF lines = {} THEN TableOf(g, k)[key] = BuiltinTable(k)[key]
                      ELSE \E x \in lines : TableOf(g, k)[key] = T[x]
<1> DEFINE d == Default(k, BuiltinLines(k))
           g == AddAll(k, d, f)
           T == LineTable(f, k)
<1>1. ListOK(d, k) /\ NoDead(d) /\ TableOf(d, k) = BuiltinTable(k)
  BY DefaultBuilds
<1>2. BuiltBy(d, g, k, f, Len(f))
  <2>1. f \in Seq(LinesOf(k))
    BY DEF FileOK
  <2> HIDE DEF d
  <2>. QED BY <1>1, <2>1, AddAllBuilds
<1> HIDE DEF d, g, T
<1>3. /\ \A i \in 1..Len(f) : f[i].key \in KeysOf(k) /\ f[i].val \in Vals /\ T[f[i].key] = f[i].val
      /\ \A key \in KeysOf(k) : (\A i \in 1..Len(f) : f[i].key # key) => T[key] = None
  BY LineValues DEF T
<1>4. None \notin Vals
  BY SettingsAssumption
<1>5. ASSUME NEW key \in KeysOf(k)
      PROVE  LET lines == {x \in KeysOf(k) : T[x] # None /\ StoredKey(k, x) = key}
             IN  IF lines = {} THEN TableOf(g, k)[key] = BuiltinTable(k)[key]
                 ELSE \E x \in lines : TableOf(g, k)[key] = T[x]
  <2> DEFINE lines == {x \in KeysOf(k) : T[x] # None /\ StoredKey(k, x) = key}
  <2>1. CASE /\ \A i \in 1..Len(f) : StoredKey(k, f[i].key) # key
             /\ TableOf(g, k)[key] = TableOf(d, k)[key]
    <3>1. lines = {}
      BY <1>3, <2>1
    <3>. QED BY <1>1, <2>1, <3>1
  <2>2. ASSUME NEW i \in 1..Len(f), StoredKey(k, f[i].key) = key, TableOf(g, k)[key] = f[i].val
        PROVE  lines # {} /\ \E x \in lines : TableOf(g, k)[key] = T[x]
    <3>1. f[i].key \in lines /\ TableOf(g, k)[key] = T[f[i].key]
      BY <1>3, <1>4, <2>2
    <3> HIDE DEF lines
    <3>. QED BY <3>1
  <2>3. \/ /\ \A i \in 1..Len(f) : StoredKey(k, f[i].key) # key
           /\ TableOf(g, k)[key] = TableOf(d, k)[key]
        \/ \E i \in 1..Len(f) : StoredKey(k, f[i].key) = key /\ TableOf(g, k)[key] = f[i].val
    BY <1>2 DEF BuiltBy
  <2>. QED BY <2>1, <2>2, <2>3
<1>6. ListOK(g, k)
  BY <1>2 DEF BuiltBy
<1>. QED BY <1>5, <1>6 DEF g, T, d

-----------------------------------------------------------------------------
(* Settings: what its actions do to the list. *)

ListsInv == kind \in Kinds /\ ListOK(h, kind) /\ (file = NoFile \/ FileOK(file, kind))

LEMMA UserKeysAreKeys == kind \in Kinds => UserKeys \subseteq KeysOf(kind)
BY DEF UserKeys, KeysOf

LEMMA DoAdd ==
  ASSUME ListsInv, do_add
  PROVE  /\ kind' = kind /\ file' = file
         /\ \E key \in KeysOf(kind), v \in Vals, c \in Cells :
              /\ Added(h, h', kind, StoredKey(kind, key), v, c)
              /\ rows' = <<c>> \o rows
              /\ clash' = (clash \/ Len(h'.list) = Len(h.list))
<1>1. kind \in Kinds /\ ListOK(h, kind)
  BY DEF ListsInv
<1>2. PICK key \in UserKeys, v \in Vals, c \in Unused(h) :
        LET added == add(kind, h, key, v, c)
        IN  /\ clash' = (clash \/ Len(added.h.list) = Len(h.list))
            /\ rows' = <<added.ret>> \o rows
            /\ h' = Forget(added.h, ToSet(rows'))
  BY DEF do_add
<1> DEFINE r == add(kind, h, key, v, c)
<1>3. /\ clash' = (clash \/ Len(r.h.list) = Len(h.list))
      /\ rows' = <<r.ret>> \o rows /\ h' = Forget(r.h, ToSet(rows'))
  BY <1>2
<1>4. key \in KeysOf(kind)
  BY <1>1, UserKeysAreKeys
<1>5. Added(h, r.h, kind, StoredKey(kind, key), v, r.ret)
  BY <1>1, <1>4, AddAdds DEF CanAdd
<1> HIDE DEF r
<1>6. Same(r.h, h', kind)
  <2>1. ListOK(r.h, kind)
    BY <1>5 DEF Added
  <2>. QED BY <1>1, <1>3, <2>1, ForgetKeeps
<1>7. Added(h, h', kind, StoredKey(kind, key), v, r.ret) /\ h'.list = r.h.list
  BY <1>1, <1>5, <1>6, AddedSame DEF Same
<1>8. r.ret \in Cells
  <2>1. r.ret \in Listed(h') /\ ListOK(h', kind)
    BY <1>7 DEF Added
  <2>. QED BY <1>1, <2>1, ListFacts
<1>9. kind' = kind /\ file' = file
  BY DEF do_add, session
<1>. QED BY <1>3, <1>4, <1>7, <1>8, <1>9

LEMMA DoEdit ==
  ASSUME ListsInv, do_edit
  PROVE  /\ kind' = kind /\ file' = file /\ RowData \in Listed(h)
         /\ \E key \in KeysOf(kind), v \in Vals : \E ret :
              /\ Changed(h, h', kind, RowData, key, v, ret)
              /\ EditRow(ret)
              /\ clash' = (clash \/ (kind = "scripts" /\ Len(h'.list) < Len(h.list)))
<1>1. kind \in Kinds /\ ListOK(h, kind)
  BY DEF ListsInv
<1>2. PICK key \in UserKeys, v \in Vals, c \in Unused(h) :
        LET done == change(kind, h, RowData, key, v, c)
        IN  /\ clash' = (clash \/ (kind = "scripts" /\ Len(done.h.list) < Len(h.list)))
            /\ EditRow(done.ret)
            /\ h' = Forget(done.h, ToSet(rows'))
  BY DEF do_edit
<1> DEFINE r == change(kind, h, RowData, key, v, c)
<1>3. /\ clash' = (clash \/ (kind = "scripts" /\ Len(r.h.list) < Len(h.list)))
      /\ EditRow(r.ret) /\ h' = Forget(r.h, ToSet(rows'))
  BY <1>2
<1>4. key \in KeysOf(kind)
  BY <1>1, UserKeysAreKeys
<1>5. RowData \in Listed(h)
  <2>1. Usable(h, RowData)
    BY DEF do_edit
  <2>. QED BY <1>1, <2>1, ListFacts
<1>6. Changed(h, r.h, kind, RowData, key, v, r.ret)
  BY <1>1, <1>4, <1>5, EditChanges
<1> HIDE DEF r
<1>7. ListOK(r.h, kind)
  BY <1>6 DEF Changed, PutBack, Added, Dropped
<1>8. Same(r.h, h', kind)
  BY <1>1, <1>3, <1>7, ForgetKeeps
<1>9. Changed(h, h', kind, RowData, key, v, r.ret) /\ h'.list = r.h.list
  BY <1>1, <1>6, <1>8, ChangedSame DEF Same
<1>10. kind' = kind /\ file' = file
  BY DEF do_edit, session
<1>. QED BY <1>3, <1>4, <1>5, <1>9, <1>10

LEMMA DoDelete ==
  ASSUME ListsInv, do_delete
  PROVE  /\ kind' = kind /\ file' = file
         /\ \/ RowData \in Listed(h) /\ Dropped(h, h', kind, RowData)
            \/ RowData \notin Listed(h) /\ Same(h, h', kind)
<1>1. kind \in Kinds /\ ListOK(h, kind)
  BY DEF ListsInv
<1> DEFINE g == remove_ptr(kind, h, RowData)
<1>2. kind' = kind /\ file' = file /\ h' = Forget(g, ToSet(rows'))
  BY DEF do_delete, session
<1>3. /\ RowData \in Listed(h) => Dropped(h, g, kind, RowData)
      /\ RowData \notin Listed(h) => g = h
  BY <1>1, RemoveDrops
<1> HIDE DEF g
<1>4. ListOK(g, kind)
  BY <1>1, <1>3 DEF Dropped
<1>5. Same(g, h', kind)
  BY <1>1, <1>2, <1>4, ForgetKeeps
<1>. QED BY <1>1, <1>2, <1>3, <1>5, DroppedSame

NoEntries == [key \in KeysOf(kind) |-> None]

LEMMA FilledIs ==
  ASSUME ListsInv
  PROVE  /\ ListOK(Filled, kind) /\ Listed(h) \subseteq Listed(Filled)
         /\ TableOf(Filled, kind) =
              IF TableOf(h, kind) = NoEntries THEN BuiltinTable(kind) ELSE TableOf(h, kind)
<1>1. kind \in Kinds /\ ListOK(h, kind)
  BY DEF ListsInv
<1>2. /\ h.list \in Seq(Cells) /\ Len(h.list) \in Nat /\ Listed(h) = {h.list[i] : i \in 1..Len(h.list)}

  BY <1>1, ListFacts, SetOfSeq DEF Listed
<1>3. CASE h.list = <<>>
  <2>1. Listed(h) = {}
    BY <1>2, <1>3
  <2>2. \A key \in KeysOf(kind) : ValueOf(h, key) = None
    BY <2>1 DEF ValueOf, Holders
  <2>3. TableOf(h, kind) = NoEntries
    BY <2>2 DEF TableOf, NoEntries
  <2>4. Filled = Default(kind, BuiltinLines(kind))
    BY <1>3 DEF Filled
  <2>5. /\ ListOK(Default(kind, BuiltinLines(kind)), kind)
        /\ TableOf(Default(kind, BuiltinLines(kind)), kind) = BuiltinTable(kind)
    BY <1>1, DefaultBuilds
  <2>. QED BY <2>1, <2>3, <2>4, <2>5
<1>4. CASE h.list # <<>>
  <2>1. Len(h.list) # 0
    BY <1>2, <1>4, EmptySeq
  <2>2. 1 \in 1..Len(h.list)
    BY <1>2, <2>1
  <2>3. h.list[1] \in Listed(h)
    BY <1>2, <2>2
  <2> DEFINE e == h.at[h.list[1]]
  <2>4. e.key \in KeysOf(kind) /\ e.val \in Vals
    BY <1>1, <2>3, ListFacts
  <2>5. ValueOf(h, e.key) = e.val
    BY <1>1, <2>3, ValueHeld
  <2>6. None \notin Vals
    BY SettingsAssumption
  <2> HIDE DEF e
  <2>7. TableOf(h, kind) # NoEntries
    BY <2>4, <2>5, <2>6 DEF TableOf, NoEntries
  <2>8. Filled = h
    BY <1>4 DEF Filled
  <2>. QED BY <1>1, <2>7, <2>8
<1>. QED BY <1>3, <1>4

(* A lookup: the list is filled, and an entry may be added.                  *)
Looked(l, g, k) ==
  \/ g = l
  \/ \E key \in KeysOf(k), v \in Vals : \E c : Added(l, g, k, StoredKey(k, key), v, c)

LEMMA LookupLooks ==
  ASSUME ListsInv, NEW key \in UserKeys, NEW v \in Vals, NEW c \in Unused(Filled)
  PROVE  /\ Looked(Filled, add(kind, Filled, key, v, c).h, kind)
         /\ kind # "scripts" => Listed(Filled) \subseteq Listed(add(kind, Filled, key, v, c).h)
<1> DEFINE l == Filled
           r == add(kind, Filled, key, v, c)
<1>1. kind \in Kinds /\ ListOK(l, kind) /\ key \in KeysOf(kind) /\ CanAdd(l, kind, key, c)
  BY FilledIs, UserKeysAreKeys DEF ListsInv, CanAdd
<1>2. r = add(kind, l, key, v, c)
  OBVIOUS
<1> HIDE DEF l, r
<1>3. /\ Added(l, r.h, kind, StoredKey(kind, key), v, r.ret)
      /\ kind # "scripts" => Listed(l) \subseteq Listed(r.h)
  BY <1>1, <1>2, AddAdds
<1>4. Looked(l, r.h, kind)
  BY <1>1, <1>3 DEF Looked
<1>. QED BY <1>3, <1>4 DEF l, r

LEMMA DoPixmap ==
  ASSUME ListsInv, NEW s, os_pixmap_list_get(s)
  PROVE  /\ kind' = kind /\ file' = file /\ kind = "pixmaps" /\ UNCHANGED dialog
         /\ Looked(Filled, h', kind) /\ Listed(Filled) \subseteq Listed(h')
<1>1. kind' = kind /\ file' = file /\ kind = "pixmaps" /\ UNCHANGED dialog
  BY DEF os_pixmap_list_get, session
<1>2. CASE h' = Filled
  BY <1>1, <1>2 DEF Looked
<1>3. ASSUME NEW key \in UserKeys, NEW v \in Vals, NEW c \in Unused(Filled),
             h' = add(kind, Filled, key, v, c).h
      PROVE  Looked(Filled, h', kind) /\ Listed(Filled) \subseteq Listed(h')
  BY <1>1, <1>3, LookupLooks
<1>. QED BY <1>1, <1>2, <1>3 DEF os_pixmap_list_get

LEMMA DoService ==
  ASSUME ListsInv, NEW k, service_callback(k)
  PROVE  /\ kind' = kind /\ file' = file /\ ~open /\ UNCHANGED dialog
         /\ Looked(Filled, h', kind)
<1>1. kind' = kind /\ file' = file /\ ~open /\ UNCHANGED dialog
  BY DEF service_callback, session
<1>2. CASE h' = Filled
  BY <1>1, <1>2 DEF Looked
<1>3. ASSUME NEW key \in UserKeys, NEW v \in Vals, NEW c \in Unused(Filled),
             h' = add(kind, Filled, key, v, c).h
      PROVE  Looked(Filled, h', kind)
  BY <1>1, <1>3, LookupLooks
<1>. QED BY <1>1, <1>2, <1>3 DEF service_callback

(* Opening a file, and the start: Tables' Load. *)
Loaded(g, f, k) ==
  /\ ListOK(g, k)
  /\ LET T == IF f = NoFile THEN [key \in KeysOf(k) |-> None] ELSE LineTable(f, k)
     IN  \A key \in KeysOf(k) :
           LET lines == {x \in KeysOf(k) : T[x] # None /\ StoredKey(k, x) = key}
           IN  IF lines = {} THEN TableOf(g, k)[key] = BuiltinTable(k)[key]
               ELSE \E x \in lines : TableOf(g, k)[key] = T[x]

LEMMA ConfigLoads ==
  ASSUME ListsInv, read_config_file
  PROVE  Loaded(h', file, kind)
<1>1. kind \in Kinds
  BY DEF ListsInv
<1>2. CASE file = NoFile
  <2>1. h' = Default(kind, BuiltinLines(kind))
    BY <1>2 DEF read_config_file
  <2>2. ListOK(h', kind) /\ TableOf(h', kind) = BuiltinTable(kind)
    BY <1>1, <2>1, DefaultBuilds
  <2> DEFINE T == [key \in KeysOf(kind) |-> None]
  <2>3. \A key \in KeysOf(kind) : {x \in KeysOf(kind) : T[x] # None /\ StoredKey(kind, x) = key} = {}
    OBVIOUS
  <2> HIDE DEF T
  <2>. QED BY <1>2, <2>2, <2>3 DEF Loaded, T
<1>3. CASE file # NoFile
  <2>1. FileOK(file, kind)
    BY <1>3 DEF ListsInv
  <2>2. h' = AddAll(kind, Default(kind, BuiltinLines(kind)), file)
    BY <1>3 DEF read_config_file, read_lines
  <2>. QED BY <1>1, <1>3, <2>1, <2>2, ReadBuilds DEF Loaded
<1>. QED BY <1>2, <1>3

(* What a step does to the list and the file. *)
ListStep ==
  /\ kind' = kind
  /\ \/ Same(h, h', kind) /\ file' = file
     \/ file' = file /\ \E key \in KeysOf(kind), v \in Vals : \E c :
          Added(h, h', kind, StoredKey(kind, key), v, c)
     \/ file' = file /\ \E c \in Listed(h), key \in KeysOf(kind), v \in Vals : \E ret :
          Changed(h, h', kind, c, key, v, ret)
     \/ file' = file /\ \E c \in Listed(h) : Dropped(h, h', kind, c)
     \/ Looked(Filled, h', kind) /\ file' = file
     \/ h' = h /\ file' = Entries(h)
     \/ Loaded(h', file, kind) /\ file' = file

LEMMA SameList == ListsInv => Same(h, h, kind)
BY DEF ListsInv, Same

LEMMA ListsStep ==
  ASSUME ListsInv, [Next]_vars
  PROVE  ListStep
<1>0. kind \in Kinds /\ ListOK(h, kind) /\ Same(h, h, kind)
  BY SameList DEF ListsInv
<1>1. CASE UNCHANGED <<kind, h, file>>
  BY <1>0, <1>1 DEF ListStep
<1>2. CASE do_settings
  <2>1. UNCHANGED <<kind, h, file>>
    BY <1>2 DEF do_settings, session
  <2>. QED BY <1>1, <2>1
<1>3. CASE CloseSettings
  <2>1. h' = Forget(h, {}) /\ kind' = kind /\ file' = file
    BY <1>3 DEF CloseSettings, session
  <2>2. Same(h, h', kind)
    BY <1>0, <2>1, ForgetKeeps
  <2>. QED BY <2>1, <2>2 DEF ListStep
<1>4. ASSUME NEW r \in 0..(Len(rows) - 1), Click(r)
      PROVE  UNCHANGED <<kind, h, file>>
  BY <1>4 DEF Click, session
<1>5. CASE do_add
  BY <1>5, DoAdd DEF ListStep
<1>6. CASE do_edit
  BY <1>6, DoEdit DEF ListStep
<1>7. CASE do_edit_nothing
  <2>1. UNCHANGED <<kind, h, file>>
    BY <1>7 DEF do_edit_nothing, session
  <2>. QED BY <1>1, <2>1
<1>8. CASE do_edit_broken
  <2>1. UNCHANGED <<kind, h, file>>
    BY <1>8 DEF do_edit_broken, session
  <2>. QED BY <1>1, <2>1
<1>9. CASE do_delete
  BY <1>9, DoDelete DEF ListStep
<1>10. ASSUME NEW s, os_pixmap_list_get(s)
       PROVE  ListStep
  BY <1>10, DoPixmap DEF ListStep
<1>11. ASSUME NEW k, service_callback(k)
       PROVE  ListStep
  BY <1>11, DoService DEF ListStep
<1>12. CASE page_object_script_callback
  <2>1. UNCHANGED <<kind, h, file>>
    BY <1>12 DEF page_object_script_callback, session
  <2>. QED BY <1>1, <2>1
<1>13. CASE Command
  <2>1. UNCHANGED <<kind, h, file>>
    BY <1>13 DEF Command, session
  <2>. QED BY <1>1, <2>1
<1>14. CASE do_save
  BY <1>14 DEF do_save, write_config_file, ListStep
<1>15. CASE do_open
  BY <1>15 DEF do_open, write_config_file, ListStep
<1>16. CASE open_file_and_read_config_file
  <2>1. read_config_file /\ kind' = kind /\ file' = file
    BY <1>16 DEF open_file_and_read_config_file
  <2>. QED BY <2>1, ConfigLoads DEF ListStep
<1>17. CASE do_quit
  BY <1>0, <1>17 DEF do_quit, write_config_file, ListStep
<1>18. CASE make_main_window
  <2>1. read_config_file /\ kind' = kind /\ file' = file
    BY <1>18 DEF make_main_window
  <2>. QED BY <2>1, ConfigLoads DEF ListStep
<1>19. CASE Crash
  <2>1. UNCHANGED <<kind, h, file>>
    BY <1>19 DEF Crash
  <2>. QED BY <1>1, <2>1
<1>20. CASE UNCHANGED vars
  BY <1>1, <1>20 DEF vars, session
<1>. QED BY <1>1, <1>2, <1>3, <1>4, <1>5, <1>6, <1>7, <1>8, <1>9, <1>10, <1>11, <1>12, <1>13,
            <1>14, <1>15, <1>16, <1>17, <1>18, <1>19, <1>20 DEF Next

(* The list stays a list, and the file one that was written. *)
LEMMA ListsKept ==
  ASSUME ListsInv, ListStep
  PROVE  ListsInv'
<1>1. kind \in Kinds /\ ListOK(h, kind) /\ (file = NoFile \/ FileOK(file, kind)) /\ kind' = kind
  BY DEF ListsInv, ListStep
<1>2. ListOK(h', kind)
  <2>1. Looked(Filled, h', kind) => ListOK(h', kind)
    BY FilledIs DEF Looked, Added
  <2>2. ASSUME NEW c \in Listed(h), NEW key, NEW v, NEW ret, Changed(h, h', kind, c, key, v, ret)
        PROVE  ListOK(h', kind)
    BY <2>2 DEF Changed, PutBack, Added, Dropped
  <2>3. Same(h, h', kind) => ListOK(h', kind)
    BY DEF Same
  <2>4. ASSUME NEW c, NEW key, NEW v, Added(h, h', kind, key, v, c)
        PROVE  ListOK(h', kind)
    BY <2>4 DEF Added
  <2>5. \A c : Dropped(h, h', kind, c) => ListOK(h', kind)
    BY DEF Dropped
  <2>6. Loaded(h', file, kind) => ListOK(h', kind)
    BY DEF Loaded
  <2>. QED BY <1>1, <2>1, <2>2, <2>3, <2>4, <2>5, <2>6 DEF ListStep
<1>3. file' = NoFile \/ FileOK(file', kind)
  <2>1. FileOK(Entries(h), kind)
    BY <1>1, EntriesAreLines
  <2>2. file' = file \/ file' = Entries(h)
    BY DEF ListStep
  <2>. QED BY <1>1, <2>1, <2>2
<1>. QED BY <1>1, <1>2, <1>3 DEF ListsInv

(* The table of Tables and its file. *)
MapTable == AsTable(Entries(h))
MapFile  == IF file = NoFile THEN [key \in KeysOf(kind) |-> None] ELSE AsTable(file)

FileTable(f, k) == IF f = NoFile THEN [key \in KeysOf(k) |-> None] ELSE LineTable(f, k)

LEMMA TablesStep ==
  ASSUME ListsInv, ListStep
  PROVE  [Table!Next]_<<kind, MapTable, MapFile>>
<1> DEFINE T == TableOf(h, kind)
           U == TableOf(h', kind)
<1>0. /\ kind \in Kinds /\ ListOK(h, kind) /\ (file = NoFile \/ FileOK(file, kind))
      /\ kind' = kind /\ ListOK(h', kind)
  BY ListsKept DEF ListsInv, ListStep
<1>1. MapTable = T /\ MapTable' = U
  <2>1. MapTable = LineTable(Entries(h), kind)
    BY DEF MapTable, AsTable, LineTable
  <2>2. MapTable' = LineTable(Entries(h'), kind)
    BY <1>0 DEF MapTable, AsTable, LineTable, Entries
  <2>. QED BY <1>0, <2>1, <2>2, EntriesAreLines
<1>2. MapFile = FileTable(file, kind) /\ MapFile' = FileTable(file', kind)
  BY <1>0 DEF MapFile, FileTable, AsTable, LineTable
<1>3. T \in [KeysOf(kind) -> Vals \union {None}] /\ U \in [KeysOf(kind) -> Vals \union {None}]
  BY <1>0, ValueHeld
<1> HIDE DEF T, U
<1>4. CASE Same(h, h', kind) /\ file' = file
  <2>1. U = T
    BY <1>0, <1>4, SameTable DEF T, U
  <2>. QED BY <1>0, <1>1, <1>2, <1>4, <2>1
<1>5. ASSUME file' = file, NEW key \in KeysOf(kind), NEW v \in Vals, NEW c,
             Added(h, h', kind, StoredKey(kind, key), v, c)
      PROVE  Table!Add(key, v)
  <2>1. U = [T EXCEPT ![StoredKey(kind, key)] = v]
    <3>1. StoredKey(kind, key) \in KeysOf(kind)
      BY <1>0, StoredKeys
    <3>. QED BY <1>0, <1>5, <3>1, AddedTable DEF T, U
  <2>2. MapTable' = [MapTable EXCEPT ![StoredKey(kind, key)] = v] /\ MapFile' = MapFile
    BY <1>1, <1>2, <1>5, <2>1
  <2>. QED BY <1>0, <2>2 DEF Table!Add, MapTable, MapFile
<1>6. ASSUME file' = file, NEW c \in Listed(h), NEW key \in KeysOf(kind), NEW v \in Vals, NEW ret,
             Changed(h, h', kind, c, key, v, ret)
      PROVE  \E old \in KeysOf(kind) : Table!Edit(old, key, v)
  <2> DEFINE old == h.at[c].key
  <2>1. /\ old \in KeysOf(kind) /\ T[old] # None
        /\ U = [T EXCEPT ![old] = None,
                         ![key] = IF key # old /\ @ # None /\ kind # "scripts" THEN @ ELSE v]
    BY <1>0, <1>6, ChangedTable DEF T, U
  <2> HIDE DEF old
  <2>2. Table!Edit(old, key, v)
    <3>1. /\ MapTable[old] # None /\ MapFile' = MapFile
          /\ MapTable' = [MapTable EXCEPT ![old] = None,
                            ![key] = IF key # old /\ @ # None /\ kind # "scripts" THEN @ ELSE v]
      BY <1>1, <1>2, <1>6, <2>1
    <3>. QED BY <1>0, <3>1 DEF Table!Edit, MapTable, MapFile
  <2>. QED BY <2>1, <2>2
<1>7. ASSUME file' = file, NEW c \in Listed(h), Dropped(h, h', kind, c)
      PROVE  \E key \in KeysOf(kind) : Table!Remove(key)
  <2> DEFINE key == h.at[c].key
  <2>1. key \in KeysOf(kind)
    BY <1>0, ListFacts
  <2>2. U = [T EXCEPT ![key] = None]
    BY <1>0, <1>7, DroppedTable DEF T, U
  <2> HIDE DEF key
  <2>3. MapTable' = [MapTable EXCEPT ![key] = None] /\ MapFile' = MapFile
    BY <1>1, <1>2, <1>7, <2>2
  <2>4. Table!Remove(key)
    BY <1>0, <2>3 DEF Table!Remove, MapTable, MapFile
  <2>. QED BY <2>1, <2>4
<1>8. CASE Looked(Filled, h', kind) /\ file' = file
  <2> DEFINE G == TableOf(Filled, kind)
  <2>1. /\ ListOK(Filled, kind)
        /\ G = IF MapTable = NoEntries THEN BuiltinTable(kind) ELSE MapTable
    BY <1>1, FilledIs DEF T
  <2>2. MapFile' = MapFile
    BY <1>2, <1>8
  <2>3. \/ U = G
        \/ \E key \in KeysOf(kind), v \in Vals : U = [G EXCEPT ![StoredKey(kind, key)] = v]
    <3>1. h' = Filled => U = G
      BY DEF U
    <3>2. ASSUME NEW key \in KeysOf(kind), NEW v \in Vals, NEW c,
                 Added(Filled, h', kind, StoredKey(kind, key), v, c)
          PROVE  U = [G EXCEPT ![StoredKey(kind, key)] = v]
      <4>1. StoredKey(kind, key) \in KeysOf(kind)
        BY <1>0, StoredKeys
      <4>. QED BY <1>0, <2>1, <3>2, <4>1, AddedTable DEF U
    <3> HIDE DEF G
    <3>. QED BY <1>8, <3>1, <3>2 DEF Looked
  <2> HIDE DEF G
  <2>4. Table!Filled = G
    BY <2>1 DEF Table!Filled, Table!Empty, NoEntries, MapTable
  <2>5. \/ MapTable' = Table!Filled
        \/ \E key \in KeysOf(kind), v \in Vals :
             MapTable' = [Table!Filled EXCEPT ![StoredKey(kind, key)] = v]
    BY <1>1, <2>3, <2>4
  <2> HIDE DEF Table!Filled
  <2>6. Table!Lookup
    BY <1>0, <2>2, <2>5 DEF Table!Lookup, MapTable, MapFile
  <2>. QED BY <2>6 DEF Table!Next
<1>9. CASE h' = h /\ file' = Entries(h)
  <2>1. U = T
    BY <1>9 DEF T, U
  <2>2. MapFile' = MapTable
    <3>1. FileOK(Entries(h), kind) /\ LineTable(Entries(h), kind) = T
      BY <1>0, EntriesAreLines DEF T
    <3>2. Entries(h) # NoFile
      BY <1>0, <3>1, SettingsAssumption DEF FileOK
    <3>. QED BY <1>1, <1>2, <1>9, <3>1, <3>2 DEF FileTable
  <2>3. Table!Save
    BY <1>0, <1>1, <2>1, <2>2 DEF Table!Save, MapTable, MapFile
  <2>. QED BY <2>3 DEF Table!Next
<1>10. CASE Loaded(h', file, kind) /\ file' = file
  <2>1. MapFile' = MapFile
    BY <1>2, <1>10
  <2>2. \A key \in KeysOf(kind) :
          LET lines == {x \in KeysOf(kind) : MapFile[x] # None /\ StoredKey(kind, x) = key}
          IN  IF lines = {} THEN MapTable'[key] = BuiltinTable(kind)[key]
              ELSE \E x \in lines : MapTable'[key] = MapFile[x]
    BY <1>1, <1>2, <1>10 DEF Loaded, FileTable, U
  <2>3. MapTable' \in Table!Contents(kind)
    BY <1>1, <1>3 DEF Table!Contents
  <2>4. Table!Load
    BY <1>0, <2>1, <2>2, <2>3 DEF Table!Load, MapTable, MapFile
  <2>. QED BY <2>4 DEF Table!Next
<1>. QED BY <1>4, <1>5, <1>6, <1>7, <1>8, <1>9, <1>10 DEF ListStep, Table!Next

LEMMA ListsInit ==
  ASSUME Init
  PROVE  ListsInv /\ Table!Init
<1>1. kind \in Kinds /\ h = Default(kind, BuiltinLines(kind)) /\ file = NoFile
  BY DEF Init
<1>2. ListOK(h, kind) /\ TableOf(h, kind) = BuiltinTable(kind)
  BY <1>1, DefaultBuilds
<1>3. MapTable = BuiltinTable(kind)
  BY <1>1, <1>2, EntriesAreLines DEF MapTable, AsTable, LineTable
<1>4. Table!Init
  BY <1>1, <1>3 DEF Table!Init, Table!Empty, MapTable
<1>. QED BY <1>1, <1>2, <1>4 DEF ListsInv

LEMMA SpecListsInv == Spec => []ListsInv
<1>1. Init => ListsInv
  BY ListsInit
<1>2. ListsInv /\ [Next]_vars => ListsInv'
  BY ListsStep, ListsKept
<1>. QED BY <1>1, <1>2, PTL DEF Spec

(* The lists are tables: through stale row numbers, replaced entries,        *)
(* lookups, restarts and files an edit changes or drops one entry, and what  *)
(* a start reads is what was saved (src/gui-settings.c, src/gui-config.c).   *)
THEOREM ListsImplementTables == Spec => ImplementsTables
<1>1. Init => Table!Init
  BY ListsInit
<1>2. ListsInv /\ [Next]_vars => [Table!Next]_<<kind, MapTable, MapFile>>
  BY ListsStep, TablesStep
<1>3. Spec => Table!Init /\ [][Table!Next]_<<kind, MapTable, MapFile>>
  BY <1>1, <1>2, SpecListsInv, PTL DEF Spec
<1>. QED BY <1>3 DEF ImplementsTables, Table!Spec, MapTable, MapFile

-----------------------------------------------------------------------------
(* Settings: the rows of the dialog. *)

DialogTypeOK ==
  /\ open \in BOOLEAN /\ clash \in BOOLEAN /\ stale \in BOOLEAN /\ broken \in BOOLEAN
  /\ rows \in Seq(Cells)
  /\ row_number \in Int /\ row_number >= -1
  /\ high \in -1..(Len(rows) - 1)
  /\ ~open => rows = <<>>

(* A highlighted row has the row number unless that is stale, rows are       *)
(* entries unless one was replaced: what no step but those undoes.           *)
DialogInv == ListsInv /\ DialogTypeOK /\ DialogIsTrue

RowsShown(q, l) == ToSet(q) \subseteq Listed(l) /\ IsInjective(q)

LEMMA RowsAre == RowsAreEntries <=> (~clash => RowsShown(rows, h)) /\ (broken => clash \/ stale)
BY DEF RowsAreEntries, RowsShown

LEMMA NoRows == <<>> \in Seq(Cells) /\ Len(<<>>) = 0 /\ ToSet(<<>>) = {} /\ IsInjective(<<>>)
<1>1. <<>> \in Seq(Cells) /\ Len(<<>>) = 0
  OBVIOUS
<1>2. /\ ToSet(<<>>) = {<<>>[i] : i \in 1..Len(<<>>)}
      /\ IsInjective(<<>>) <=> \A i, j \in 1..Len(<<>>) : <<>>[i] = <<>>[j] => i = j
  BY <1>1, SetOfSeq
<1>. QED BY <1>1, <1>2

RowGone(r) ==
  /\ rows \in Seq(Cells) /\ high \in -1..(Len(rows) - 1) /\ r \in Nat
  /\ ReplaceRow(r, <<>>)

LEMMA RowTakenOut ==
  ASSUME NEW r, RowGone(r)
  PROVE  /\ rows' \in Seq(Cells) /\ high' \in -1..(Len(rows') - 1)
         /\ r >= Len(rows) => rows' = rows
         /\ r < Len(rows) /\ IsInjective(rows) =>
              IsInjective(rows') /\ ToSet(rows') = ToSet(rows) \ {rows[r + 1]}
<1>0. /\ rows \in Seq(Cells) /\ Len(rows) \in Nat /\ high \in -1..(Len(rows) - 1)
      /\ r \in Nat /\ ReplaceRow(r, <<>>)
  BY LenProperties DEF RowGone
<1>1. CASE r >= Len(rows)
  BY <1>0, <1>1 DEF ReplaceRow
<1>2. CASE r < Len(rows)
  <2>1. r \in 0..(Len(rows) - 1) /\ r + 1 \in 1..Len(rows) /\ ~(r >= Len(rows))
    BY <1>0, <1>2
  <2>2. rows' = RemoveAt(rows, r + 1)
    BY <1>0, <2>1, ReplaceByNothing DEF ReplaceRow
  <2>3. rows' \in Seq(Cells) /\ Len(rows') = Len(rows) - 1
    BY <1>0, <2>1, <2>2, RemoveAtProperties
  <2>4. high' = CASE high = r -> -1 [] high > r -> high + 0 - 1 [] OTHER -> high
    <3>1. Len(<<>>) = 0
      BY NoRows
    <3>. QED BY <1>0, <2>1, <3>1 DEF ReplaceRow
  <2>5. high' \in -1..(Len(rows') - 1)
    BY <1>0, <1>2, <2>3, <2>4
  <2>6. IsInjective(rows) => IsInjective(rows') /\ ToSet(rows') = ToSet(rows) \ {rows[r + 1]}
    <3>1. ASSUME IsInjective(rows) PROVE Distinct(Cells, rows)
      BY <1>0, <3>1 DEF Distinct
    <3>. QED BY <2>1, <2>2, <3>1, RemoveAtSet DEF Distinct
  <2>. QED BY <2>1, <2>3, <2>5, <2>6
<1>3. r >= Len(rows) \/ r < Len(rows)
  BY <1>0
<1>. QED BY <1>1, <1>2, <1>3

LEMMA RowPutBack ==
  ASSUME rows \in Seq(Cells), high \in -1..(Len(rows) - 1), NEW r \in Nat, r < Len(rows),
         NEW x \in Cells, ReplaceRow(r, <<x>>)
  PROVE  /\ rows' \in Seq(Cells) /\ high' \in -1..(Len(rows') - 1)
         /\ IsInjective(rows) /\ x \notin ToSet(rows) \ {rows[r + 1]} =>
              IsInjective(rows') /\ ToSet(rows') = (ToSet(rows) \ {rows[r + 1]}) \union {x}
<1>0. Len(rows) \in Nat
  BY LenProperties
<1>1. r \in 0..(Len(rows) - 1) /\ ~(r >= Len(rows))
  BY <1>0
<1>2. rows' = SubSeq(rows, 1, r) \o <<x>> \o SubSeq(rows, r + 2, Len(rows))
  BY <1>1 DEF ReplaceRow
<1>3. /\ rows' \in Seq(Cells) /\ Len(rows') = Len(rows)
      /\ \A i \in 1..Len(rows) : rows'[i] = IF i = r + 1 THEN x ELSE rows[i]
  <2>1. rows' = WithRow(rows, r, x)
    BY <1>2 DEF WithRow
  <2>2. /\ WithRow(rows, r, x) \in Seq(Cells) /\ Len(WithRow(rows, r, x)) = Len(rows)
        /\ \A i \in 1..Len(rows) : WithRow(rows, r, x)[i] = IF i = r + 1 THEN x ELSE rows[i]
    <3>1. RowOf(Cells, rows, r, x)
      BY <1>1 DEF RowOf
    <3>. QED BY <3>1, ReplaceSet
  <2>. QED BY <2>1, <2>2
<1>4. high' = CASE high = r -> -1 [] high > r -> high + 1 - 1 [] OTHER -> high
  <2>1. Len(<<x>>) = 1
    OBVIOUS
  <2>. QED BY <1>1, <2>1 DEF ReplaceRow
<1>5. high' \in -1..(Len(rows') - 1)
  BY <1>0, <1>3, <1>4
<1>6. IsInjective(rows) /\ x \notin ToSet(rows) \ {rows[r + 1]} =>
        IsInjective(rows') /\ ToSet(rows') = (ToSet(rows) \ {rows[r + 1]}) \union {x}
  BY <1>1, <1>3, SetWithReplaced
<1>. QED BY <1>3, <1>5, <1>6

(* Edit: what it does to the rows, and to the row number.                    *)
LEMMA RowEdited ==
  ASSUME DialogInv, row_number >= 0, RowData \in Listed(h), NEW ret \in Cells \union {NULL}, EditRow(ret)
  PROVE  /\ rows' \in Seq(Cells) /\ high' \in -1..(Len(rows') - 1)
         /\ row_number' \in Int /\ row_number' >= -1 /\ stale' \in BOOLEAN
         /\ row_number' >= 0 => stale'
         /\ IsInjective(rows) /\ (ret = NULL \/ ret \notin ToSet(rows) \ {RowData}) =>
              /\ IsInjective(rows')
              /\ ToSet(rows') = (ToSet(rows) \ {RowData}) \union ({ret} \ {NULL})
<1> DEFINE r == row_number
<1>0. /\ rows \in Seq(Cells) /\ high \in -1..(Len(rows) - 1) /\ r \in Nat /\ NULL \notin Cells
      /\ Listed(h) \subseteq Cells /\ open \in BOOLEAN /\ stale \in BOOLEAN
      /\ HighlightIsMeant
  <2>1. NULL \notin Cells
    BY SettingsAssumption
  <2>2. Listed(h) \subseteq Cells
    BY ListFacts DEF DialogInv, ListsInv
  <2>. QED BY <2>1, <2>2 DEF DialogInv, DialogTypeOK, DialogIsTrue
<1>1. r < Len(rows) /\ RowData = rows[r + 1]
  BY <1>0 DEF RowData
<1>2. open
  <2>1. rows # <<>>
    BY <1>0, <1>1, NoRows
  <2>. QED BY <2>1 DEF DialogInv, DialogTypeOK
<1>3. /\ ReplaceRow(r, IF ret = NULL THEN <<>> ELSE <<ret>>)
      /\ stale' = (stale /\ high # r)
      /\ IF high = r THEN row_number' = -1 ELSE row_number' = row_number
  BY DEF EditRow, unselect_row
<1>4. row_number' \in Int /\ row_number' >= -1 /\ stale' \in BOOLEAN
  BY <1>0, <1>3
<1>5. row_number' >= 0 => stale'
  BY <1>0, <1>2, <1>3 DEF HighlightIsMeant
<1> HIDE DEF r
<1>6. CASE ret = NULL
  <2>1. ReplaceRow(r, <<>>)
    BY <1>3, <1>6
  <2>2. /\ rows' \in Seq(Cells) /\ high' \in -1..(Len(rows') - 1)
        /\ IsInjective(rows) => IsInjective(rows') /\ ToSet(rows') = ToSet(rows) \ {rows[r + 1]}
    <3>1. RowGone(r)
      BY <1>0, <2>1 DEF RowGone, r
    <3>. QED BY <1>1, <3>1, RowTakenOut
  <2>. QED BY <1>1, <1>4, <1>5, <1>6, <2>2
<1>7. CASE ret # NULL
  <2>1. ReplaceRow(r, <<ret>>) /\ ret \in Cells
    BY <1>3, <1>7
  <2>2. /\ rows' \in Seq(Cells) /\ high' \in -1..(Len(rows') - 1)
        /\ IsInjective(rows) /\ ret \notin ToSet(rows) \ {rows[r + 1]} =>
             IsInjective(rows') /\ ToSet(rows') = (ToSet(rows) \ {rows[r + 1]}) \union {ret}
    BY <1>0, <1>1, <2>1, RowPutBack
  <2>3. (ret = NULL \/ ret \notin ToSet(rows) \ {RowData}) <=> ret \notin ToSet(rows) \ {rows[r + 1]}
    BY <1>1, <1>7
  <2>4. {ret} \ {NULL} = {ret}
    BY <1>7
  <2>. QED BY <1>1, <1>4, <1>5, <2>2, <2>3, <2>4
<1>. QED BY <1>6, <1>7

(* The conjuncts of DialogInv that speak of the rows.                        *)
LEMMA DialogFacts ==
  ASSUME DialogInv
  PROVE  /\ kind \in Kinds /\ ListOK(h, kind) /\ Listed(h) \subseteq Cells
         /\ open \in BOOLEAN /\ clash \in BOOLEAN /\ stale \in BOOLEAN /\ broken \in BOOLEAN
         /\ rows \in Seq(Cells) /\ Len(rows) \in Nat
         /\ row_number \in Int /\ row_number >= -1
         /\ high \in -1..(Len(rows) - 1)
         /\ ~open => rows = <<>>
         /\ HighlightIsMeant /\ (~clash => RowsShown(rows, h)) /\ (broken => clash \/ stale)
<1>1. kind \in Kinds /\ ListOK(h, kind) /\ rows \in Seq(Cells)
  BY DEF DialogInv, ListsInv, DialogTypeOK
<1>2. Listed(h) \subseteq Cells /\ Len(rows) \in Nat
  BY <1>1, ListFacts, LenProperties
<1>. QED BY <1>1, <1>2, RowsAre DEF DialogInv, DialogTypeOK, DialogIsTrue

LEMMA AddKeepsDialog ==
  ASSUME DialogInv, do_add
  PROVE  DialogTypeOK' /\ DialogIsTrue'
<1>0. /\ kind \in Kinds /\ ListOK(h, kind) /\ clash \in BOOLEAN /\ stale \in BOOLEAN
      /\ rows \in Seq(Cells) /\ Len(rows) \in Nat /\ row_number \in Int /\ row_number >= -1
      /\ high \in -1..(Len(rows) - 1)
      /\ (~clash => RowsShown(rows, h)) /\ (broken => clash \/ stale)
  BY DialogFacts
<1>1. PICK key \in KeysOf(kind), v \in Vals, c \in Cells :
        /\ Added(h, h', kind, StoredKey(kind, key), v, c)
        /\ rows' = <<c>> \o rows
        /\ clash' = (clash \/ Len(h'.list) = Len(h.list))
  BY DoAdd DEF DialogInv
<1>2. /\ open /\ open' = open /\ ~broken /\ broken' = broken /\ row_number' = row_number
      /\ high' = IF high >= 0 THEN high + 1 ELSE -1
      /\ stale' = (stale \/ row_number >= 0)
  BY DEF do_add, Quiet, Idle
<1>3. rows' \in Seq(Cells) /\ Len(rows') = Len(rows) + 1 /\ ToSet(rows') = ToSet(rows) \union {c}
      /\ (IsInjective(rows) /\ c \notin ToSet(rows) => IsInjective(rows'))
  BY <1>0, <1>1, PrependSet
<1>4. DialogTypeOK'
  <2>1. high' \in -1..(Len(rows') - 1)
    BY <1>0, <1>2, <1>3
  <2>2. open' \in BOOLEAN /\ broken' \in BOOLEAN
    BY <1>2, DialogFacts
  <2>3. clash' \in BOOLEAN /\ stale' \in BOOLEAN
    BY <1>1, <1>2
  <2>. QED BY <1>0, <1>2, <1>3, <2>1, <2>2, <2>3 DEF DialogTypeOK
<1>5. HighlightIsMeant'
  BY <1>2 DEF HighlightIsMeant
<1>6. ASSUME ~clash'
      PROVE  RowsShown(rows', h')
  <2>1. ~clash /\ Len(h'.list) # Len(h.list)
    BY <1>1, <1>6
  <2>2. c \notin Listed(h) /\ Listed(h') = Listed(h) \union {c}
    BY <1>1, <2>1 DEF Added
  <2>. QED BY <1>0, <1>3, <2>1, <2>2 DEF RowsShown
<1>7. RowsAreEntries'
  BY <1>2, <1>6 DEF RowsAreEntries, RowsShown
<1>. QED BY <1>4, <1>5, <1>7 DEF DialogIsTrue

LEMMA EditKeepsDialog ==
  ASSUME DialogInv, do_edit
  PROVE  DialogTypeOK' /\ DialogIsTrue'
<1>0. /\ kind \in Kinds /\ ListOK(h, kind) /\ Listed(h) \subseteq Cells
      /\ clash \in BOOLEAN /\ stale \in BOOLEAN /\ open \in BOOLEAN /\ broken \in BOOLEAN
      /\ (~clash => RowsShown(rows, h)) /\ (broken => clash \/ stale) /\ NULL \notin Cells
  BY DialogFacts, SettingsAssumption
<1>1. PICK key \in KeysOf(kind), v \in Vals : \E ret :
        /\ Changed(h, h', kind, RowData, key, v, ret)
        /\ EditRow(ret)
        /\ clash' = (clash \/ (kind = "scripts" /\ Len(h'.list) < Len(h.list)))
  BY DoEdit DEF DialogInv
<1>2. PICK ret :
        /\ Changed(h, h', kind, RowData, key, v, ret)
        /\ EditRow(ret)
        /\ clash' = (clash \/ (kind = "scripts" /\ Len(h'.list) < Len(h.list)))
  BY <1>1
<1>3. RowData \in Listed(h)
  BY DoEdit DEF DialogInv
<1>4. /\ open /\ open' = open /\ ~broken /\ broken' = broken /\ row_number >= 0
  BY DEF do_edit, Quiet, Idle
<1>5. ret \in Cells \union {NULL}
  BY <1>2 DEF Changed, PutBack
<1>6. /\ rows' \in Seq(Cells) /\ high' \in -1..(Len(rows') - 1)
      /\ row_number' \in Int /\ row_number' >= -1 /\ stale' \in BOOLEAN
      /\ row_number' >= 0 => stale'
      /\ IsInjective(rows) /\ (ret = NULL \/ ret \notin ToSet(rows) \ {RowData}) =>
           /\ IsInjective(rows')
           /\ ToSet(rows') = (ToSet(rows) \ {RowData}) \union ({ret} \ {NULL})
  BY <1>2, <1>3, <1>4, <1>5, RowEdited
<1>7. DialogTypeOK'
  BY <1>0, <1>2, <1>4, <1>6 DEF DialogTypeOK
<1>8. HighlightIsMeant'
  BY <1>6 DEF HighlightIsMeant
<1>9. ASSUME ~clash'
      PROVE  RowsShown(rows', h')
  <2>1. ~clash /\ ~(kind = "scripts" /\ Len(h'.list) < Len(h.list))
    BY <1>2, <1>9
  <2>2. ToSet(rows) \subseteq Listed(h) /\ IsInjective(rows)
    BY <1>0, <2>1 DEF RowsShown
  <2>3. \/ ret = NULL /\ Listed(h') = Listed(h) \ {RowData}
        \/ /\ ret \in Cells /\ (ret # RowData => ret \notin Listed(h))
           /\ Listed(h') = (Listed(h) \ {RowData}) \union {ret}
    <3>1. CASE ret = NULL /\ Dropped(h, h', kind, RowData)
      BY <3>1 DEF Dropped
    <3>2. ASSUME NEW m, PutBack(h, m, h', kind, RowData, key, v, ret)
          PROVE  /\ ret \in Cells /\ (ret # RowData => ret \notin Listed(h))
                 /\ Listed(h') = (Listed(h) \ {RowData}) \union {ret}
      <4>1. kind # "scripts" \/ Len(h'.list) >= Len(h.list)
        <5>1. ListOK(h', kind)
          BY <3>2 DEF PutBack, Added
        <5>2. Len(h'.list) \in Nat /\ Len(h.list) \in Nat
          BY <1>0, <5>1, ListFacts, LenProperties
        <5>. QED BY <2>1, <5>2
      <4>2. Holders(m, key) = {}
        BY <3>2, <4>1 DEF PutBack
      <4>. QED BY <3>2, <4>2 DEF PutBack, Added, Dropped
    <3>. QED BY <1>2, <3>1, <3>2 DEF Changed
  <2>4. ret = NULL \/ ret \notin ToSet(rows) \ {RowData}
    BY <2>2, <2>3
  <2>5. IsInjective(rows') /\ ToSet(rows') = (ToSet(rows) \ {RowData}) \union ({ret} \ {NULL})
    BY <1>6, <2>2, <2>4
  <2>. QED BY <1>0, <2>2, <2>3, <2>5 DEF RowsShown
<1>10. RowsAreEntries'
  BY <1>4, <1>9 DEF RowsAreEntries, RowsShown
<1>. QED BY <1>7, <1>8, <1>10 DEF DialogIsTrue

LEMMA EditNothingKeepsDialog ==
  ASSUME DialogInv, do_edit_nothing
  PROVE  DialogTypeOK' /\ DialogIsTrue'
<1>0. /\ kind \in Kinds /\ ListOK(h, kind) /\ Listed(h) \subseteq Cells
      /\ clash \in BOOLEAN /\ stale \in BOOLEAN /\ open \in BOOLEAN /\ broken \in BOOLEAN
      /\ (~clash => RowsShown(rows, h)) /\ (broken => clash \/ stale) /\ NULL \notin Cells
  BY DialogFacts, SettingsAssumption
<1>1. /\ open /\ open' = open /\ ~broken /\ broken' = broken /\ row_number >= 0
      /\ clash' = clash /\ h' = h /\ Usable(h, RowData)
  BY DEF do_edit_nothing, Quiet, Idle
<1>2. RowData \in Listed(h)
  BY <1>0, <1>1, ListFacts
<1>3. PICK ret \in {RowData, NULL} : EditRow(ret)
  BY DEF do_edit_nothing
<1>4. ret \in Cells \union {NULL}
  BY <1>0, <1>2
<1>5. /\ rows' \in Seq(Cells) /\ high' \in -1..(Len(rows') - 1)
      /\ row_number' \in Int /\ row_number' >= -1 /\ stale' \in BOOLEAN
      /\ row_number' >= 0 => stale'
      /\ IsInjective(rows) /\ (ret = NULL \/ ret \notin ToSet(rows) \ {RowData}) =>
           /\ IsInjective(rows')
           /\ ToSet(rows') = (ToSet(rows) \ {RowData}) \union ({ret} \ {NULL})
  BY <1>1, <1>2, <1>3, <1>4, RowEdited
<1>6. DialogTypeOK'
  BY <1>0, <1>1, <1>5 DEF DialogTypeOK
<1>7. HighlightIsMeant'
  BY <1>5 DEF HighlightIsMeant
<1>8. ASSUME ~clash'
      PROVE  RowsShown(rows', h')
  <2>1. ToSet(rows) \subseteq Listed(h) /\ IsInjective(rows)
    BY <1>0, <1>1, <1>8 DEF RowsShown
  <2>2. IsInjective(rows') /\ ToSet(rows') = (ToSet(rows) \ {RowData}) \union ({ret} \ {NULL})
    BY <1>3, <1>5, <2>1
  <2>. QED BY <1>1, <1>2, <1>3, <2>1, <2>2 DEF RowsShown
<1>9. RowsAreEntries'
  BY <1>1, <1>8 DEF RowsAreEntries, RowsShown
<1>. QED BY <1>6, <1>7, <1>9 DEF DialogIsTrue

LEMMA DeleteKeepsDialog ==
  ASSUME DialogInv, do_delete
  PROVE  DialogTypeOK' /\ DialogIsTrue'
<1>0. /\ kind \in Kinds /\ ListOK(h, kind) /\ Listed(h) \subseteq Cells
      /\ clash \in BOOLEAN /\ stale \in BOOLEAN /\ open \in BOOLEAN /\ broken \in BOOLEAN
      /\ rows \in Seq(Cells) /\ Len(rows) \in Nat /\ row_number \in Int
      /\ high \in -1..(Len(rows) - 1)
      /\ (~clash => RowsShown(rows, h)) /\ (broken => clash \/ stale) /\ NULL \notin Cells
  BY DialogFacts, SettingsAssumption
<1>1. /\ open /\ open' = open /\ ~broken /\ broken' = broken /\ row_number >= 0
      /\ clash' = clash /\ row_number' = -1 /\ stale' = FALSE /\ ReplaceRow(row_number, <<>>)
  BY DEF do_delete, Quiet, Idle
<1> DEFINE r == row_number
<1>2. r \in Nat /\ ReplaceRow(r, <<>>) /\ (RowData = IF r < Len(rows) THEN rows[r + 1] ELSE NULL)
  BY <1>0, <1>1 DEF RowData
<1> HIDE DEF r
<1>3. /\ rows' \in Seq(Cells) /\ high' \in -1..(Len(rows') - 1)
      /\ r >= Len(rows) => rows' = rows
      /\ r < Len(rows) /\ IsInjective(rows) =>
           IsInjective(rows') /\ ToSet(rows') = ToSet(rows) \ {rows[r + 1]}
  <2>1. RowGone(r)
    BY <1>0, <1>2 DEF RowGone
  <2>. QED BY <2>1, RowTakenOut
<1>4. DialogTypeOK'
  <2>1. open' \in BOOLEAN /\ clash' \in BOOLEAN /\ broken' \in BOOLEAN /\ open'
    BY <1>0, <1>1
  <2>2. stale' \in BOOLEAN
    BY <1>1
  <2>4. row_number' \in Int /\ row_number' >= -1
    <3>1. row_number' = -1
      BY <1>1
    <3>. QED BY <3>1
  <2>3. rows' \in Seq(Cells) /\ high' \in -1..(Len(rows') - 1)
    BY <1>3
  <2>. QED BY <2>1, <2>2, <2>3, <2>4 DEF DialogTypeOK
<1>5. HighlightIsMeant'
  BY <1>1 DEF HighlightIsMeant
<1>6. \/ RowData \in Listed(h) /\ Listed(h') = Listed(h) \ {RowData}
      \/ RowData \notin Listed(h) /\ Listed(h') = Listed(h)
  BY DoDelete DEF DialogInv, Dropped, Same, Listed
<1>7. ASSUME ~clash'
      PROVE  RowsShown(rows', h')
  <2>1. ToSet(rows) \subseteq Listed(h) /\ IsInjective(rows)
    BY <1>0, <1>1, <1>7 DEF RowsShown
  <2>2. CASE r < Len(rows)
    <3>1. RowData = rows[r + 1]
      BY <1>2, <2>2
    <3>. QED BY <1>3, <1>6, <2>1, <2>2, <3>1 DEF RowsShown
  <2>3. CASE r >= Len(rows)
    <3>1. RowData = NULL
      BY <1>0, <1>2, <2>3
    <3>2. Listed(h') = Listed(h)
      BY <1>0, <1>6, <3>1
    <3>. QED BY <1>3, <2>1, <2>3, <3>2 DEF RowsShown
  <2>. QED BY <1>0, <1>2, <2>2, <2>3
<1>8. RowsAreEntries'
  BY <1>1, <1>7 DEF RowsAreEntries, RowsShown
<1>. QED BY <1>4, <1>5, <1>8 DEF DialogIsTrue

LEMMA FreshDialog ==
  /\ <<>> \in Seq(Cells) /\ FALSE \in BOOLEAN
  /\ -1 \in Int /\ -1 >= -1 /\ -1 \in -1..(Len(<<>>) - 1)
<1>1. Len(<<>>) - 1 = -1
  BY NoRows
<1>2. -1 \in -1..-1
  OBVIOUS
<1>3. FALSE \in BOOLEAN
  OBVIOUS
<1>. QED BY <1>1, <1>2, <1>3, NoRows

LEMMA DialogNext ==
  ASSUME DialogInv, [Next]_vars
  PROVE  DialogTypeOK' /\ DialogIsTrue'
<1>0. /\ kind \in Kinds /\ ListOK(h, kind) /\ Listed(h) \subseteq Cells
      /\ open \in BOOLEAN /\ clash \in BOOLEAN /\ stale \in BOOLEAN /\ broken \in BOOLEAN
      /\ rows \in Seq(Cells) /\ Len(rows) \in Nat
      /\ row_number \in Int /\ row_number >= -1
      /\ high \in -1..(Len(rows) - 1)
      /\ ~open => rows = <<>>
      /\ HighlightIsMeant /\ (~clash => RowsShown(rows, h)) /\ (broken => clash \/ stale)
  BY DialogFacts
<1>1. ASSUME UNCHANGED dialog, Listed(h) \subseteq Listed(h') \/ rows = <<>>
      PROVE  DialogTypeOK' /\ DialogIsTrue'
  <2>1. /\ open' = open /\ rows' = rows /\ row_number' = row_number /\ high' = high
        /\ clash' = clash /\ stale' = stale /\ broken' = broken
    BY <1>1 DEF dialog
  <2>2. DialogTypeOK'
    BY <1>0, <2>1 DEF DialogTypeOK
  <2>3. HighlightIsMeant'
    BY <1>0, <2>1 DEF HighlightIsMeant
  <2>4. ~clash => RowsShown(rows, h')
    BY <1>0, <1>1, NoRows DEF RowsShown
  <2>5. RowsAreEntries'
    BY <1>0, <2>1, <2>4 DEF RowsAreEntries, RowsShown
  <2>. QED BY <2>2, <2>3, <2>5 DEF DialogIsTrue
<1>2. CASE UNCHANGED <<h, dialog>>
  BY <1>1, <1>2
<1>3. CASE do_settings
  <2>1. /\ ~open /\ ~broken /\ open' = TRUE /\ rows' = h.list /\ stale' = (row_number >= 0)
        /\ h' = h /\ row_number' = row_number /\ high' = high /\ clash' = clash /\ broken' = broken
    BY <1>3 DEF do_settings, Quiet, Idle
  <2>2. high = -1
    <3>1. Len(rows) = 0
      BY <1>0, <2>1, NoRows
    <3>. QED BY <1>0, <3>1
  <2>3. Distinct(Cells, h.list) /\ Len(h.list) \in Nat
    BY <1>0, ListFacts, LenProperties DEF Distinct
  <2>4. DialogTypeOK'
    <3>1. high' \in -1..(Len(rows') - 1)
      BY <2>1, <2>2, <2>3
    <3>2. stale' \in BOOLEAN /\ open' \in BOOLEAN /\ open'
      BY <2>1
    <3>3. rows' \in Seq(Cells)
      BY <2>1, <2>3 DEF Distinct
    <3>. QED BY <1>0, <2>1, <3>1, <3>2, <3>3 DEF DialogTypeOK
  <2>5. HighlightIsMeant'
    BY <2>1 DEF HighlightIsMeant
  <2>6. RowsAreEntries'
    BY <2>1, <2>3 DEF RowsAreEntries, Distinct, Listed
  <2>. QED BY <2>4, <2>5, <2>6 DEF DialogIsTrue
<1>4. CASE CloseSettings
  <2>1. /\ open' = FALSE /\ rows' = <<>> /\ high' = -1 /\ clash' = FALSE /\ stale' = FALSE
        /\ ~broken /\ broken' = broken /\ row_number' = row_number
    BY <1>4 DEF CloseSettings, Quiet, Idle
  <2>2. DialogTypeOK'
    <3>1. rows' \in Seq(Cells) /\ Len(rows') = 0 /\ rows' = <<>>
      BY <2>1, NoRows
    <3>2. high' \in -1..(Len(rows') - 1)
      <4>1. high' = -1
        BY <2>1
      <4>. QED BY <3>1, <4>1
    <3>3. open' \in BOOLEAN /\ clash' \in BOOLEAN /\ stale' \in BOOLEAN /\ broken' \in BOOLEAN
      BY <1>0, <2>1
    <3>. QED BY <1>0, <2>1, <3>1, <3>2, <3>3 DEF DialogTypeOK
  <2>3. HighlightIsMeant' /\ RowsAreEntries'
    BY <2>1, NoRows DEF HighlightIsMeant, RowsAreEntries
  <2>. QED BY <2>2, <2>3 DEF DialogIsTrue
<1>5. ASSUME NEW r \in 0..(Len(rows) - 1), Click(r)
      PROVE  DialogTypeOK' /\ DialogIsTrue'
  <2>1. /\ open /\ ~broken /\ stale' = FALSE /\ h' = h /\ open' = open /\ rows' = rows
        /\ clash' = clash /\ broken' = broken
        /\ IF high = r THEN high' = -1 /\ row_number' = -1 ELSE high' = r /\ row_number' = r
    BY <1>5 DEF Click, Quiet, Idle, select_row, unselect_row
  <2>2. DialogTypeOK'
    <3>1. high' \in -1..(Len(rows') - 1) /\ row_number' \in Int /\ row_number' >= -1
      BY <1>0, <2>1
    <3>2. stale' \in BOOLEAN /\ open' \in BOOLEAN /\ open'
      BY <1>0, <2>1
    <3>. QED BY <1>0, <2>1, <3>1, <3>2 DEF DialogTypeOK
  <2>3. HighlightIsMeant'
    BY <2>1 DEF HighlightIsMeant
  <2>4. RowsAreEntries'
    BY <1>0, <2>1 DEF RowsAreEntries, RowsShown
  <2>. QED BY <2>2, <2>3, <2>4 DEF DialogIsTrue
<1>6. CASE do_edit_broken
  <2>1. /\ open /\ row_number >= 0 /\ ~Usable(h, RowData) /\ broken' = TRUE
        /\ UNCHANGED <<h, open, rows, row_number, high, clash, stale>>
    BY <1>6 DEF do_edit_broken
  <2>2. clash \/ stale
    <3>1. SUFFICES ASSUME ~clash, ~stale PROVE FALSE
      BY <1>0
    <3>2. high = row_number
      BY <1>0, <2>1, <3>1 DEF HighlightIsMeant
    <3> DEFINE r == row_number
    <3>3. r \in Nat /\ r < Len(rows) /\ r + 1 \in 1..Len(rows)
      BY <1>0, <2>1, <3>2
    <3>4. RowData = rows[r + 1]
      BY <3>3 DEF RowData
    <3>5. rows[r + 1] \in ToSet(rows)
      BY <1>0, <3>3, SetOfSeq
    <3>6. RowData \in Listed(h)
      BY <1>0, <3>1, <3>4, <3>5 DEF RowsShown
    <3>. QED BY <1>0, <2>1, <3>6, ListFacts
  <2>3. DialogTypeOK'
    BY <1>0, <2>1 DEF DialogTypeOK
  <2>4. HighlightIsMeant' /\ RowsAreEntries'
    BY <1>0, <2>1, <2>2 DEF HighlightIsMeant, RowsAreEntries, RowsShown
  <2>. QED BY <2>3, <2>4 DEF DialogIsTrue
<1>7. ASSUME NEW s, os_pixmap_list_get(s)
      PROVE  DialogTypeOK' /\ DialogIsTrue'
  BY <1>1, <1>7, DoPixmap, FilledIs DEF DialogInv
<1>8. ASSUME NEW k, service_callback(k)
      PROVE  DialogTypeOK' /\ DialogIsTrue'
  BY <1>0, <1>1, <1>8, DoService DEF DialogInv
<1>9. CASE open_file_and_read_config_file
  <2>1. UNCHANGED dialog /\ ~open
    BY <1>9 DEF open_file_and_read_config_file, Quiet, Idle
  <2>. QED BY <1>0, <1>1, <2>1
<1>10. CASE make_main_window
  <2>1. /\ open' = FALSE /\ rows' = <<>> /\ row_number' = -1 /\ high' = -1
        /\ clash' = FALSE /\ stale' = FALSE /\ broken' = FALSE
    BY <1>10 DEF make_main_window
  <2>2. DialogTypeOK'
    BY <2>1, FreshDialog DEF DialogTypeOK
  <2>3. HighlightIsMeant' /\ RowsAreEntries'
    BY <2>1, NoRows DEF HighlightIsMeant, RowsAreEntries
  <2>. QED BY <2>2, <2>3 DEF DialogIsTrue
<1>11. CASE page_object_script_callback \/ Command \/ do_save \/ do_open \/ do_quit \/ Crash
  <2>1. UNCHANGED <<h, dialog>>
    BY <1>11 DEF page_object_script_callback, Command, do_save, do_open, do_quit, Crash
  <2>. QED BY <1>2, <2>1
<1>12. CASE UNCHANGED vars
  <2>1. UNCHANGED <<h, dialog>>
    BY <1>12 DEF vars
  <2>. QED BY <1>2, <2>1
<1>13. CASE do_add \/ do_edit \/ do_edit_nothing \/ do_delete
  BY <1>13, AddKeepsDialog, EditKeepsDialog, EditNothingKeepsDialog, DeleteKeepsDialog
<1>. QED BY <1>3, <1>4, <1>5, <1>6, <1>7, <1>8, <1>9, <1>10, <1>11, <1>12, <1>13 DEF Next

LEMMA DialogInit == Init => DialogInv
<1>1. SUFFICES ASSUME Init PROVE DialogInv
  OBVIOUS
<1>2. /\ open = FALSE /\ rows = <<>> /\ row_number = -1 /\ high = -1
      /\ clash = FALSE /\ stale = FALSE /\ broken = FALSE
  BY <1>1 DEF Init
<1>3. ListsInv
  BY <1>1, ListsInit
<1>4. DialogTypeOK
  BY <1>2, FreshDialog DEF DialogTypeOK
<1>5. HighlightIsMeant /\ RowsAreEntries
  BY <1>2, NoRows DEF HighlightIsMeant, RowsAreEntries
<1>. QED BY <1>3, <1>4, <1>5 DEF DialogInv, DialogIsTrue

LEMMA NextDialogInv == DialogInv /\ [Next]_vars => DialogInv'
BY DialogNext, ListsStep, ListsKept DEF DialogInv

-----------------------------------------------------------------------------
(* Preferences. *)

(* The inductive invariant of all that the dialog edits: the list is a list  *)
(* and the rows its entries; the flags are what the options say, and what    *)
(* was asked of the agent or is still in its buffer is within the bounds.    *)
PrefInv == DialogInv /\ ScanInv

LEMMA PrefInitInv == PrefInit => PrefInv
BY DialogInit, ScanInitInv DEF PrefInit, PrefInv

LEMMA PrefNextInv == PrefInv /\ [PrefNext]_<<vars, scanVars>> => PrefInv'
<1>1. SUFFICES ASSUME PrefInv, [PrefNext]_<<vars, scanVars>> PROVE DialogInv' /\ ScanInv'
  BY DEF PrefInv
<1>2. [Next]_vars /\ [ScanNext]_scanVars
  BY <1>1 DEF PrefNext
<1>. QED BY <1>1, <1>2, NextDialogInv, ScanNextInv DEF PrefInv

LEMMA SpecPrefInv == PrefSpec => []PrefInv
BY PrefInitInv, PrefNextInv, PTL DEF PrefSpec

(* The list the user edits and the page that shows it keep their types and   *)
(* structure: a list holds different structures in use, with different keys, *)
(* and none else is in use (src/gui-service.c, src/gui-pixmap.c,             *)
(* src/script.c).                                                            *)
THEOREM SettingsAreWellFormed == PrefSpec => [](ListOK(h, kind) /\ DialogTypeOK)
<1>1. PrefInv => ListOK(h, kind) /\ DialogTypeOK
  BY DEF PrefInv, DialogInv, ListsInv
<1>. QED BY <1>1, SpecPrefInv, PTL

(* What is done is what the user set, for any lists, keys, options and       *)
(* texts: Edit and Delete change the entry that is highlighted, a row shows  *)
(* an entry of the list unless one was replaced under its key, and nmap is   *)
(* run as the options say (src/gui-settings.c:276, 545, src/gui-handlers.c). *)
THEOREM TheSettingsAreObeyed == PrefSpec => []SettingsAreObeyed
<1>1. ScanInv => ScanIsAsAsked
  BY DEF ScanInv
<1>2. PrefInv => SettingsAreObeyed
  BY <1>1 DEF PrefInv, DialogInv, SettingsAreObeyed
<1>. QED BY <1>2, SpecPrefInv, PTL
=============================================================================
