------------------------- MODULE Application_proofs -------------------------
(***************************************************************************)
(* Proofs about Application for every number of instances and pairs, every *)
(* width of a port number, and all settings: the types, that certificate   *)
(* and key belong together, that connection keys stay good, when the       *)
(* program refuses to start, and that startServers and the key tell where  *)
(* the servers listen.                                                     *)
(***************************************************************************)
EXTENDS Application, TLAPS

----------------------------------------------------------------------------
(* The inductive invariants.                                               *)

(* Of the files, whatever instances do at once: a file is absent, cut short*)
(* or empty only while the instance that is to fill it is still at it, or  *)
(* after a save has failed.                                                *)
GeneratorHasPair == \A i \in Instances : Generating(i) => pair[i] \in Pairs
KeyNeedsCert == cert = Absent => key = Absent
CertIsOpened == \A i \in Instances : at[i] \notin {"down", "open cert"} => cert # Absent
IsAt(i, steps) == at[i] \in steps
FilesAreFilled ==
  ~torn => /\ cert # Torn /\ key # Torn
           /\ cert = Small =>
                \E i \in Instances : IsAt(i, {"open key", "write key", "write cert"})
           /\ key = Small => \E i \in Instances : IsAt(i, {"write key"})
           /\ cert # Absent /\ key = Absent => \E i \in Instances : IsAt(i, {"open key"})

FilesInv == GeneratorHasPair /\ KeyNeedsCert /\ CertIsOpened /\ FilesAreFilled

(* Of the pair, unless two instances made one at the same time: one        *)
(* instance at most makes a pair, only where there is none, and the files  *)
(* that all others have loaded do not change any more.                     *)
OneGenerates == \A i, j \in Instances : Generating(i) /\ Generating(j) => i = j
NothingToOverwrite ==
  \A i \in Instances :
    /\ IsAt(i, {"open cert", "open key", "write key"}) => ~Exists(cert) /\ ~Exists(key)
    /\ IsAt(i, {"write cert"}) => cert = Small /\ key \in {pair[i], Torn, Small}
WholeFilesFit == IsWhole(cert) /\ IsWhole(key) => cert = key
LoadedIs(i, s) == IsWhole(cert) /\ IsWhole(key) /\ loaded[i][s] = [cert |-> cert, key |-> key]
LoadedAreFiles ==
  \A i \in Instances :
    /\ IsAt(i, {"load transport"}) => LoadedIs(i, "messenger")
    /\ IsAt(i, {"up"}) => \A s \in Servers : LoadedIs(i, s)
HandedIsFile == handed # NoKey => IsWhole(cert) /\ IsWhole(key) /\ handed.print = cert
OneFileExists ==
  \A i \in Instances : Loading(i) /\ pair[i] = Absent => Exists(cert) \/ Exists(key)

PairInv ==
  ~clash => /\ OneGenerates /\ NothingToOverwrite /\ WholeFilesFit
            /\ LoadedAreFiles /\ HandedIsFile /\ OneFileExists

(* Of the ports: the settings are complete from the first start on and do  *)
(* not change, so that all servers of all instances and all keys have the  *)
(* same ports.                                                             *)
SettingsAreMade == \A i \in Instances : at[i] # "down" => \A s \in Servers : setting[s] # Unset
IsPortOf(p, s) == setting[s] # Unset /\ p = QUInt(setting[s])
PortsAreSet ==
  \A i \in Instances, s \in Servers :
    /\ port[i][s] # NoPort => IsPortOf(port[i][s], s)
    /\ at[i] = "load transport" => port[i]["messenger"] # NoPort
    /\ at[i] = "up" => port[i][s] # NoPort
ToldIsOfUp == \A i \in Instances : told[i] # NotTold => at[i] = "up"
StartedListens ==
  \A i \in Instances, s \in Servers : told[i] = "started" => listens[i][s] = port[i][s]
KeyHasPorts ==
  handed # NoKey => IsPortOf(handed.messenger, "messenger") /\ IsPortOf(handed.transport, "transport")

PortInv == SettingsAreMade /\ PortsAreSet /\ ToldIsOfUp /\ StartedListens /\ KeyHasPorts

Inv == TypeOK /\ FilesInv /\ PairInv /\ PortInv

----------------------------------------------------------------------------
(* Port numbers and the values of files.                                   *)

LEMMA PortNumbers ==
  /\ \A n \in Int : QUInt(n) \in Ports
  /\ \A p \in Ports : QUInt(QInt(p)) = p
  /\ \A p \in Ports : p < HalfRange => QInt(p) = p
  /\ NoPort \notin Ports
PROOF
  <1>1. HalfRange \in Nat \ {0} /\ PortRange \in Nat \ {0}
    BY RangeAssumption DEF PortRange
  <1>2. \A n \in Int : QUInt(n) \in Ports
    BY <1>1 DEF QUInt, Ports
  <1>3. \A p \in Ports : QUInt(p) = p
    BY <1>1 DEF QUInt, Ports
  <1>4. \A p \in Ports : p < HalfRange => QInt(p) = p
    BY <1>3 DEF QInt
  <1>5. \A p \in Ports : (p - PortRange) % PortRange = p
    BY <1>1 DEF Ports
  <1>6. \A p \in Ports : QUInt(QInt(p)) = p
    BY <1>3, <1>5 DEF QInt, QUInt
  <1>7. NoPort \notin Ports
    BY <1>1 DEF Ports, NoPort
  <1> QED BY <1>2, <1>4, <1>6, <1>7

LEMMA ContentFacts ==
  /\ \A n \in Pairs : n # Absent /\ n # Small /\ n # Torn
  /\ Small # Absent /\ Torn # Absent /\ Small # Torn
  /\ Absent \notin Pairs /\ Small \notin Pairs /\ Torn \notin Pairs
BY PairsAssumption DEF Pairs, Absent, Small, Torn

Steps == {"down", "open cert", "open key", "write key", "write cert",
          "load messenger", "load transport", "up"}
Settings == PortSettings \cup {DefaultPort[s] : s \in Servers}

LEMMA SettingTypes == Settings \subseteq Int /\ \A s \in Servers : DefaultPort[s] \in Settings \ {Unset}
PROOF
  <1>1. PortSettings \subseteq Int /\ \A s \in Servers : DefaultPort[s] \in Nat
    BY PortsAssumption DEF Unset
  <1>2. \A s \in Servers : DefaultPort[s] # Unset
    BY <1>1 DEF Unset
  <1>3. \A s \in Servers : DefaultPort[s] \in Settings
    BY DEF Settings
  <1>4. ASSUME NEW x \in Settings PROVE x \in Int
    <2>1. CASE x \in PortSettings
      BY <1>1, <2>1
    <2>2. CASE \E s \in Servers : x = DefaultPort[s]
      BY <1>1, <2>2
    <2> QED BY <2>1, <2>2 DEF Settings
  <1> QED BY <1>2, <1>3, <1>4

LEMMA FieldTypes ==
  ASSUME TypeOK
  PROVE  /\ at \in [Instances -> Steps] /\ pair \in [Instances -> Pairs \cup {Absent}]
         /\ cert \in Contents /\ key \in Contents
         /\ port \in [Instances -> [Servers -> Ports \cup {NoPort}]]
         /\ listens \in [Instances -> [Servers -> Ports \cup {NoPort}]]
BY DEF TypeOK, Steps

LEMMA InitializeKeeps ==
  ASSUME TypeOK, InitializeSettings
  PROVE  /\ setting' \in [Servers -> Settings]
         /\ \A s \in Servers : setting'[s] # Unset
         /\ \A s \in Servers : setting[s] # Unset => setting'[s] = setting[s]
BY SettingTypes DEF InitializeSettings, TypeOK, Settings

----------------------------------------------------------------------------
(* Types.                                                                  *)

LEMMA TypesStart == Init => TypeOK
PROOF
  <1> SUFFICES ASSUME Init PROVE TypeOK
    OBVIOUS
  <1>1. torn \in BOOLEAN /\ clash \in BOOLEAN
    BY DEF Init
  <1>2. handed \in [messenger : Ports, transport : Ports, print : Contents]
    <2>1. AnyPort \in Ports
      BY RangeAssumption DEF AnyPort, Ports, PortRange
    <2> QED BY <2>1 DEF Init, NoKey, Contents
  <1>3. loaded \in [Instances -> [Servers -> [cert : Contents, key : Contents]]]
    BY DEF Init, NotLoaded, Contents
  <1>4. port \in [Instances -> [Servers -> Ports \cup {NoPort}]]
        /\ listens \in [Instances -> [Servers -> Ports \cup {NoPort}]]
    BY DEF Init, Nowhere
  <1>5. told \in [Instances -> {NotTold, "started", "error"}]
        /\ setting \in [Servers -> PortSettings \cup {DefaultPort[s] : s \in Servers}]
    BY DEF Init
  <1>6. at \in [Instances -> Steps] /\ pair \in [Instances -> Pairs \cup {Absent}]
        /\ cert \in Contents /\ key \in Contents
    BY DEF Init, Steps, Contents
  <1> QED BY <1>1, <1>2, <1>3, <1>4, <1>5, <1>6 DEF TypeOK, Steps

(* What the steps of one instance do to its place in the program and to    *)
(* the files.                                                              *)
LEMMA SaveTypes ==
  ASSUME TypeOK, FilesInv, NEW i \in Instances,
         OpenCert(i) \/ OpenKey(i) \/ WriteKey(i) \/ WriteCert(i)
  PROVE  TypeOK'
PROOF
  <1>1. pair[i] \in Pairs /\ Written(i) \subseteq Contents /\ Small \in Contents
    BY DEF FilesInv, GeneratorHasPair, Generating, OpenCert, OpenKey, WriteKey, WriteCert,
           Written, Contents
  <1>2. at \in [Instances -> Steps] /\ pair \in [Instances -> Pairs \cup {Absent}]
        /\ cert \in Contents /\ key \in Contents
    BY DEF TypeOK, Steps
  <1>3. /\ at' \in [Instances -> Steps] /\ pair' \in [Instances -> Pairs \cup {Absent}]
        /\ cert' \in Contents /\ key' \in Contents
    BY <1>1, <1>2 DEF OpenCert, OpenKey, WriteKey, WriteCert, Fails, Steps
  <1>4. torn' \in BOOLEAN
    BY Zenon DEF OpenCert, OpenKey, WriteKey, WriteCert, Fails, TypeOK
  <1>5. clash' = clash /\ setting' = setting /\ UNCHANGED servers
    BY DEF OpenCert, OpenKey, WriteKey, WriteCert
  <1> QED BY <1>3, <1>4, <1>5 DEF TypeOK, Steps, servers

LEMMA StartTypes == ASSUME TypeOK, NEW i \in Instances, Start(i) PROVE TypeOK'
PROOF
  <1>1. setting' \in [Servers -> Settings]
    BY InitializeKeeps DEF Start
  <1>2. at' \in [Instances -> Steps] /\ pair' \in [Instances -> Pairs \cup {Absent}]
    <2>1. at \in [Instances -> Steps] /\ pair \in [Instances -> Pairs \cup {Absent}]
      BY DEF TypeOK, Steps
    <2>2. CASE MissesBoth
      <3>1. PICK n \in Pairs \ Known : pair' = [pair EXCEPT ![i] = n]
        BY <2>2 DEF Start, GeneratePair
      <3>2. at' = [at EXCEPT ![i] = "open cert"]
        BY <2>2 DEF Start
      <3> QED BY <2>1, <3>1, <3>2 DEF Steps
    <2>3. CASE ~MissesBoth
      BY <2>1, <2>3 DEF Start, Steps
    <2> QED BY <2>2, <2>3
  <1>3. clash' \in BOOLEAN
    BY Zenon DEF Start, TypeOK
  <1>4. torn' = torn /\ cert' = cert /\ key' = key /\ UNCHANGED servers
    BY DEF Start
  <1> QED BY <1>1, <1>2, <1>3, <1>4 DEF TypeOK, Steps, Settings, servers

LEMMA LoadTypes ==
  ASSUME TypeOK, NEW i \in Instances, NEW s \in Servers, NEW next \in Steps, Load(i, s, next)
  PROVE  TypeOK'
PROOF
  <1>1. at' \in [Instances -> Steps] /\ pair' \in [Instances -> Pairs \cup {Absent}]
    BY DEF Load, TypeOK, Steps
  <1>2. loaded' \in [Instances -> [Servers -> [cert : Contents, key : Contents]]]
    <2> DEFINE Loads == [cert : Contents, key : Contents]
    <2>1. [cert |-> cert, key |-> key] \in Loads /\ NotLoaded \in [Servers -> Loads]
      BY DEF TypeOK, NotLoaded, Contents
    <2>2. \/ loaded' = [loaded EXCEPT ![i][s] = [cert |-> cert, key |-> key]]
          \/ loaded' = [loaded EXCEPT ![i] = NotLoaded]
      BY DEF Load
    <2>3. loaded \in [Instances -> [Servers -> Loads]]
      BY DEF TypeOK
    <2> HIDE DEF Loads
    <2>4. loaded' \in [Instances -> [Servers -> Loads]]
      BY <2>1, <2>2, <2>3
    <2> QED BY <2>4 DEF Loads
  <1>3. QUInt(setting[s]) \in Ports
    BY PortNumbers, SettingTypes DEF TypeOK, Settings
  <1>4. port' \in [Instances -> [Servers -> Ports \cup {NoPort}]]
    <2>1. \/ port' = [port EXCEPT ![i][s] = QUInt(setting[s])]
          \/ port' = [port EXCEPT ![i] = Nowhere]
      BY DEF Load
    <2>2. port \in [Instances -> [Servers -> Ports \cup {NoPort}]]
          /\ Nowhere \in [Servers -> Ports \cup {NoPort}]
      BY DEF TypeOK, Nowhere
    <2> QED BY <1>3, <2>1, <2>2
  <1>5. /\ setting' = setting /\ cert' = cert /\ key' = key /\ torn' = torn /\ clash' = clash
        /\ listens' = listens /\ told' = told /\ handed' = handed
    BY DEF Load, files
  <1> QED BY <1>1, <1>2, <1>4, <1>5 DEF TypeOK, Steps

LEMMA EndTypes == ASSUME TypeOK, NEW i \in Instances, End(i) PROVE TypeOK'
PROOF
  <1>1. at' \in [Instances -> Steps] /\ pair' \in [Instances -> Pairs \cup {Absent}]
        /\ told' \in [Instances -> {NotTold, "started", "error"}]
    BY DEF End, TypeOK, Steps
  <1>2. /\ loaded' \in [Instances -> [Servers -> [cert : Contents, key : Contents]]]
        /\ port' \in [Instances -> [Servers -> Ports \cup {NoPort}]]
        /\ listens' \in [Instances -> [Servers -> Ports \cup {NoPort}]]
    BY DEF End, TypeOK, NotLoaded, Nowhere, Contents
  <1>3. torn' \in BOOLEAN
    BY Zenon DEF End, TypeOK
  <1>4. setting' = setting /\ cert' = cert /\ key' = key /\ clash' = clash /\ handed' = handed
    BY DEF End
  <1> QED BY <1>1, <1>2, <1>3, <1>4 DEF TypeOK, Steps

LEMMA ServingTypes ==
  ASSUME TypeOK, PortInv, NEW i \in Instances,
         StartServers(i) \/ StopServers(i) \/ GenerateConnectionKey(i)
  PROVE  TypeOK'
PROOF
  <1>1. /\ setting' = setting /\ cert' = cert /\ key' = key /\ torn' = torn /\ clash' = clash
        /\ at' = at /\ pair' = pair /\ loaded' = loaded /\ port' = port
    BY DEF StartServers, StopServers, GenerateConnectionKey, files
  <1>2. listens' \in [Instances -> [Servers -> Ports \cup {NoPort}]]
    <2>1. /\ listens \in [Instances -> [Servers -> Ports \cup {NoPort}]]
          /\ port \in [Instances -> [Servers -> Ports \cup {NoPort}]]
          /\ Nowhere \in [Servers -> Ports \cup {NoPort}]
      BY DEF TypeOK, Nowhere
    <2>2. CASE StartServers(i)
      <3> DEFINE messenger == Free(i, "messenger", InUse)
                 transport == Free(i, "transport", IF messenger THEN InUse \cup {port[i]["messenger"]}
                                                                ELSE InUse)
                 p == IF messenger THEN port[i]["messenger"] ELSE NoPort
                 q == IF transport THEN port[i]["transport"] ELSE NoPort
      <3>1. listens' = [listens EXCEPT ![i]["messenger"] = p, ![i]["transport"] = q]
        BY <2>2 DEF StartServers
      <3> HIDE DEF messenger, transport
      <3>2. p \in Ports \cup {NoPort} /\ q \in Ports \cup {NoPort}
        BY <2>1 DEF Servers
      <3> HIDE DEF p, q
      <3> QED BY <2>1, <3>1, <3>2
    <2> QED BY <2>1, <2>2 DEF StopServers, GenerateConnectionKey
  <1>3. told' \in [Instances -> {NotTold, "started", "error"}]
    BY DEF StartServers, StopServers, GenerateConnectionKey, TypeOK, Started
  <1>4. handed' \in [messenger : Ports, transport : Ports, print : Contents]
    <2>1. handed' = handed \/ (at[i] = "up" /\ handed' = CreateConnectionKey(i))
      BY DEF StartServers, StopServers, GenerateConnectionKey
    <2>2. ASSUME at[i] = "up", NEW s \in Servers PROVE port[i][s] \in Ports
      <3>1. port[i][s] \in Ports \cup {NoPort}
        BY FieldTypes
      <3>2. port[i][s] # NoPort
        BY <2>2 DEF PortInv, PortsAreSet
      <3> QED BY <3>1, <3>2
    <2>3. cert \in Contents /\ handed \in [messenger : Ports, transport : Ports, print : Contents]
      BY DEF TypeOK
    <2> QED BY <2>1, <2>2, <2>3 DEF CreateConnectionKey, Servers
  <1> QED BY <1>1, <1>2, <1>3, <1>4 DEF TypeOK

LEMMA TypeStep == Inv /\ [Next]_vars => TypeOK'
PROOF
  <1> SUFFICES ASSUME Inv, [Next]_vars PROVE TypeOK'
    OBVIOUS
  <1>1. ASSUME NEW i \in Instances, LoadMessenger(i) \/ LoadTransport(i) PROVE TypeOK'
    BY <1>1, LoadTypes DEF Inv, LoadMessenger, LoadTransport, Servers, Steps
  <1>2. CASE UNCHANGED vars
    BY <1>2 DEF Inv, TypeOK, vars, files, servers
  <1> QED BY <1>1, <1>2, SaveTypes, StartTypes, EndTypes, ServingTypes DEF Inv, Next

----------------------------------------------------------------------------
(* The files.                                                              *)

LEMMA FilesStart == Init => FilesInv
BY ContentFacts DEF Init, FilesInv, GeneratorHasPair, KeyNeedsCert, CertIsOpened, FilesAreFilled,
       Generating, Loading, IsAt

(* Where an instance is that has not moved, and where the one is that has. *)
LEMMA Moved ==
  ASSUME TypeOK, NEW i \in Instances, NEW step \in Steps, at' = [at EXCEPT ![i] = step]
  PROVE  /\ at'[i] = step
         /\ \A j \in Instances \ {i} : at'[j] = at[j]
         /\ \A j \in Instances : at'[j] = at[j] \/ (j = i /\ at'[j] = step)
BY FieldTypes

LEMMA StartKeepsFiles == ASSUME Inv, NEW i \in Instances, Start(i) PROVE FilesInv'
PROOF
  <1>1. at[i] = "down" /\ cert' = cert /\ key' = key /\ torn' = torn
    BY DEF Start
  <1>2. at \in [Instances -> Steps] /\ pair \in [Instances -> Pairs \cup {Absent}]
    BY FieldTypes DEF Inv
  <1>3. \/ /\ MissesBoth /\ at' = [at EXCEPT ![i] = "open cert"]
           /\ \E n \in Pairs : pair' = [pair EXCEPT ![i] = n]
        \/ /\ ~MissesBoth /\ at' = [at EXCEPT ![i] = "load messenger"]
           /\ pair' = [pair EXCEPT ![i] = Absent]
    BY DEF Start, GeneratePair
  <1>4. \A j \in Instances \ {i} : at'[j] = at[j] /\ pair'[j] = pair[j]
    BY <1>2, <1>3
  <1>5. \/ MissesBoth /\ at'[i] = "open cert" /\ pair'[i] \in Pairs
        \/ ~MissesBoth /\ at'[i] = "load messenger"
    BY <1>2, <1>3
  <1>6. GeneratorHasPair'
    BY <1>4, <1>5 DEF Inv, FilesInv, GeneratorHasPair, Generating
  <1>7. KeyNeedsCert'
    BY <1>1 DEF Inv, FilesInv, KeyNeedsCert
  <1>8. CertIsOpened'
    BY <1>1, <1>4, <1>5 DEF Inv, FilesInv, KeyNeedsCert, CertIsOpened, Loading, MissesBoth, Exists
  <1>9. FilesAreFilled'
    <2>1. /\ \A j \in Instances : IsAt(j, {"open key", "write key", "write cert"})
                 => IsAt(j, {"open key", "write key", "write cert"})'
          /\ \A j \in Instances : IsAt(j, {"write key"}) => IsAt(j, {"write key"})'
          /\ \A j \in Instances : IsAt(j, {"open key"}) => IsAt(j, {"open key"})'
      BY <1>1, <1>4 DEF IsAt
    <2> QED BY <1>1, <2>1 DEF Inv, FilesInv, FilesAreFilled
  <1> QED BY <1>6, <1>7, <1>8, <1>9 DEF FilesInv

(* The instance leaves the program: what it was to fill stays as it is, and*)
(* torn says so.                                                           *)
LEMMA LeavingKeepsFiles ==
  ASSUME Inv, NEW i \in Instances, at' = [at EXCEPT ![i] = "down"],
         \A j \in Instances \ {i} : pair'[j] = pair[j],
         torn' \/ (~Generating(i) /\ torn' = torn /\ cert' = cert),
         cert' = cert \/ cert' # Absent, key' = key
  PROVE  FilesInv'
PROOF
  <1>1. at'[i] = "down" /\ \A j \in Instances \ {i} : at'[j] = at[j]
    BY Moved DEF Inv, Steps
  <1>2. GeneratorHasPair'
    BY <1>1 DEF Inv, FilesInv, GeneratorHasPair, Generating
  <1>3. KeyNeedsCert'
    BY DEF Inv, FilesInv, KeyNeedsCert
  <1>4. CertIsOpened'
    BY <1>1 DEF Inv, FilesInv, CertIsOpened, Loading
  <1>5. FilesAreFilled'
    <2>1. CASE torn'
      BY <2>1 DEF FilesAreFilled
    <2>2. CASE ~Generating(i) /\ torn' = torn /\ cert' = cert
      <3>1. \A j \in Instances :
              at[j] \in {"open key", "write key", "write cert"} => at'[j] = at[j]
        BY <1>1, <2>2 DEF Generating
      <3> QED BY <2>2, <3>1 DEF Inv, FilesInv, FilesAreFilled, IsAt
    <2> QED BY <2>1, <2>2
  <1> QED BY <1>2, <1>3, <1>4, <1>5 DEF FilesInv

LEMMA SavingKeepsFiles ==
  ASSUME Inv, NEW i \in Instances,
         OpenCert(i) \/ OpenKey(i) \/ WriteKey(i) \/ WriteCert(i)
  PROVE  FilesInv'
PROOF
  <1>1. at \in [Instances -> Steps] /\ pair \in [Instances -> Pairs \cup {Absent}] /\ TypeOK
    BY FieldTypes DEF Inv
  <1>2. pair[i] \in Pairs
    BY DEF Inv, FilesInv, GeneratorHasPair, Generating, OpenCert, OpenKey, WriteKey, WriteCert
  <1>3. Absent \notin Written(i) /\ Absent # Small
    BY <1>2, ContentFacts DEF Written
  <1>4. CASE Fails(i)
    <2>1. at' = [at EXCEPT ![i] = "down"] /\ torn' /\ pair' = [pair EXCEPT ![i] = Absent]
      BY <1>4 DEF Fails
    <2>2. \A j \in Instances \ {i} : pair'[j] = pair[j]
      BY <1>1, <2>1
    <2>3. (cert' = cert \/ cert' # Absent) /\ key' = key
      <3>1. CASE OpenCert(i)
        BY <1>1, <2>1, <3>1, Moved DEF OpenCert, Fails, Steps
      <3>2. CASE OpenKey(i)
        <4>1. \/ at' = [at EXCEPT ![i] = "write key"]
              \/ cert' \in Written(i) /\ key' = key
          BY <3>2 DEF OpenKey
        <4>2. at' # [at EXCEPT ![i] = "write key"]
          BY <1>1, <2>1
        <4> QED BY <1>3, <4>1, <4>2
      <3>3. CASE WriteKey(i) \/ WriteCert(i)
        BY <1>1, <2>1, <3>3 DEF WriteKey, WriteCert, Steps
      <3> QED BY <3>1, <3>2, <3>3
    <2> QED BY <2>1, <2>2, <2>3, LeavingKeepsFiles
  <1>5. CASE OpenCert(i) /\ ~Fails(i)
    <2>1. /\ at[i] = "open cert" /\ at' = [at EXCEPT ![i] = "open key"] /\ cert' = Small
          /\ torn' = torn /\ pair' = pair /\ key' = key
      BY <1>5 DEF OpenCert
    <2>2. at'[i] = "open key" /\ \A j \in Instances \ {i} : at'[j] = at[j]
      BY <1>1, <2>1, Moved DEF Steps
    <2>3. GeneratorHasPair' /\ KeyNeedsCert'
      BY <1>2, <1>3, <2>1, <2>2 DEF Inv, FilesInv, GeneratorHasPair, Generating, KeyNeedsCert
    <2>4. CertIsOpened'
      BY <1>3, <2>1, <2>2 DEF CertIsOpened
    <2>5. \A j \in Instances : at[j] = "write key" => at'[j] = "write key"
      BY <2>1, <2>2
    <2>6. FilesAreFilled'
      BY <2>1, <2>2, <2>5, ContentFacts DEF Inv, FilesInv, FilesAreFilled, IsAt
    <2> QED BY <2>3, <2>4, <2>6 DEF FilesInv
  <1>6. CASE OpenKey(i) /\ ~Fails(i)
    <2>1. /\ at[i] = "open key" /\ at' = [at EXCEPT ![i] = "write key"] /\ key' = Small
          /\ torn' = torn /\ pair' = pair /\ cert' = cert
      BY <1>6 DEF OpenKey
    <2>2. at'[i] = "write key" /\ \A j \in Instances \ {i} : at'[j] = at[j]
      BY <1>1, <2>1, Moved DEF Steps
    <2>3. GeneratorHasPair' /\ KeyNeedsCert' /\ CertIsOpened'
      BY <1>2, <1>3, <2>1, <2>2
         DEF Inv, FilesInv, GeneratorHasPair, Generating, KeyNeedsCert, CertIsOpened
    <2>4. \A j \in Instances :
            /\ at[j] \in {"open key", "write key", "write cert"}
                 => at'[j] \in {"open key", "write key", "write cert"}
            /\ at[j] = "write key" => at'[j] = "write key"
      BY <2>1, <2>2
    <2>5. FilesAreFilled'
      BY <2>1, <2>2, <2>4, ContentFacts DEF Inv, FilesInv, FilesAreFilled, IsAt
    <2> QED BY <2>3, <2>5 DEF FilesInv
  <1>7. CASE WriteKey(i)
    <2>1. /\ at[i] = "write key" /\ at' = [at EXCEPT ![i] = "write cert"] /\ key' \in Written(i)
          /\ pair' = pair /\ cert' = cert
      BY <1>7 DEF WriteKey
    <2>2. ~torn' => ~torn /\ key' = pair[i]
      BY <1>7 DEF WriteKey
    <2>3. at'[i] = "write cert" /\ \A j \in Instances \ {i} : at'[j] = at[j]
      BY <1>1, <2>1, Moved DEF Steps
    <2>4. GeneratorHasPair' /\ KeyNeedsCert' /\ CertIsOpened'
      BY <1>2, <1>3, <2>1, <2>3
         DEF Inv, FilesInv, GeneratorHasPair, Generating, KeyNeedsCert, CertIsOpened
    <2>5. \A j \in Instances :
            at[j] \in {"open key", "write key", "write cert"}
              => at'[j] \in {"open key", "write key", "write cert"}
      BY <2>1, <2>3
    <2>6. FilesAreFilled'
      BY <1>2, <2>1, <2>2, <2>5, ContentFacts DEF Inv, FilesInv, FilesAreFilled, IsAt
    <2> QED BY <2>4, <2>6 DEF FilesInv
  <1>8. CASE WriteCert(i)
    <2>1. /\ at[i] = "write cert" /\ at' = [at EXCEPT ![i] = "load messenger"]
          /\ cert' \in Written(i) /\ pair' = pair /\ key' = key
      BY <1>8 DEF WriteCert
    <2>2. ~torn' => ~torn /\ cert' = pair[i]
      BY <1>8 DEF WriteCert
    <2>3. at'[i] = "load messenger" /\ \A j \in Instances \ {i} : at'[j] = at[j]
      BY <1>1, <2>1, Moved DEF Steps
    <2>4. GeneratorHasPair' /\ KeyNeedsCert' /\ CertIsOpened'
      BY <1>2, <1>3, <2>1, <2>3
         DEF Inv, FilesInv, GeneratorHasPair, Generating, KeyNeedsCert, CertIsOpened
    <2>5. cert # Absent /\ \A j \in Instances : at[j] \in {"open key", "write key"} => at'[j] = at[j]
      BY <2>1, <2>3 DEF Inv, FilesInv, CertIsOpened
    <2>6. FilesAreFilled'
      BY <1>2, <2>1, <2>2, <2>5, ContentFacts DEF Inv, FilesInv, FilesAreFilled, IsAt
    <2> QED BY <2>4, <2>6 DEF FilesInv
  <1> QED BY <1>4, <1>5, <1>6, <1>7, <1>8

LEMMA LoadKeepsFiles ==
  ASSUME Inv, NEW i \in Instances, Loading(i),
         NEW next \in {"down", "load transport", "up"}, at' = [at EXCEPT ![i] = next],
         \A j \in Instances \ {i} : pair'[j] = pair[j],
         cert' = cert, key' = key, torn' = torn
  PROVE  FilesInv'
PROOF
  <1>1. at'[i] = next /\ \A j \in Instances \ {i} : at'[j] = at[j]
    BY Moved DEF Inv, Steps
  <1>2. GeneratorHasPair' /\ KeyNeedsCert' /\ CertIsOpened'
    BY <1>1 DEF Inv, FilesInv, GeneratorHasPair, Generating, KeyNeedsCert, CertIsOpened, Loading
  <1>3. \A j \in Instances : at[j] \in {"open key", "write key", "write cert"} => at'[j] = at[j]
    BY <1>1 DEF Loading
  <1>4. FilesAreFilled'
    BY <1>3, Zenon DEF Inv, FilesInv, FilesAreFilled, IsAt
  <1> QED BY <1>2, <1>4 DEF FilesInv

LEMMA FilesStep == Inv /\ [Next]_vars => FilesInv'
PROOF
  <1> SUFFICES ASSUME Inv, [Next]_vars PROVE FilesInv'
    OBVIOUS
  <1>1. ASSUME NEW i \in Instances, LoadMessenger(i) \/ LoadTransport(i) PROVE FilesInv'
    <2>1. PICK next \in {"down", "load transport", "up"} : at' = [at EXCEPT ![i] = next]
      BY <1>1 DEF LoadMessenger, LoadTransport, Load
    <2>2. /\ Loading(i) /\ pair' = [pair EXCEPT ![i] = Absent]
          /\ cert' = cert /\ key' = key /\ torn' = torn
      BY <1>1 DEF LoadMessenger, LoadTransport, Load, Loading, files
    <2>3. \A j \in Instances \ {i} : pair'[j] = pair[j]
      BY <2>2, FieldTypes DEF Inv
    <2> QED BY <2>1, <2>2, <2>3, LoadKeepsFiles
  <1>2. ASSUME NEW i \in Instances, End(i) PROVE FilesInv'
    <2>1. /\ at' = [at EXCEPT ![i] = "down"] /\ pair' = [pair EXCEPT ![i] = Absent]
          /\ cert' = cert /\ key' = key
      BY <1>2 DEF End
    <2>2. torn' \/ (~Generating(i) /\ torn' = torn)
      <3>1. torn' = (torn \/ Generating(i)) /\ torn \in BOOLEAN
        BY <1>2 DEF End, Inv, TypeOK
      <3> QED BY <3>1, Zenon
    <2>3. \A j \in Instances \ {i} : pair'[j] = pair[j]
      BY <2>1, FieldTypes DEF Inv
    <2> QED BY <2>1, <2>2, <2>3, LeavingKeepsFiles
  <1>3. ASSUME at' = at, pair' = pair, cert' = cert, key' = key, torn' = torn PROVE FilesInv'
    BY <1>3 DEF Inv, FilesInv, GeneratorHasPair, Generating, KeyNeedsCert, CertIsOpened,
                FilesAreFilled, IsAt
  <1>4. CASE UNCHANGED vars
    BY <1>3, <1>4 DEF vars, files
  <1>5. ASSUME NEW i \in Instances, StartServers(i) \/ StopServers(i) \/ GenerateConnectionKey(i)
        PROVE  FilesInv'
    BY <1>3, <1>5 DEF StartServers, StopServers, GenerateConnectionKey, files
  <1> QED BY <1>1, <1>2, <1>4, <1>5, StartKeepsFiles, SavingKeepsFiles DEF Next

----------------------------------------------------------------------------
(* The pair.                                                               *)

LEMMA PairStart == Init => PairInv
BY ContentFacts DEF Init, PairInv, OneGenerates, NothingToOverwrite, WholeFilesFit, LoadedAreFiles,
       HandedIsFile, OneFileExists, Generating, Loading, IsAt, IsWhole

(* What no instance is about to overwrite.                                 *)
LEMMA WholeIsNotOverwritten ==
  ASSUME PairInv, ~clash, NEW i \in Instances, Generating(i)
  PROVE  /\ ~(IsWhole(cert) /\ IsWhole(key))
         /\ ~IsAt(i, {"write cert"}) => ~Exists(cert) /\ ~Exists(key)
BY ContentFacts DEF PairInv, NothingToOverwrite, Generating, IsWhole, IsAt, Exists

LEMMA StartKeepsPair == ASSUME Inv, NEW i \in Instances, Start(i) PROVE PairInv'
PROOF
  <1> SUFFICES ASSUME ~clash'
               PROVE  /\ OneGenerates' /\ NothingToOverwrite' /\ WholeFilesFit'
                      /\ LoadedAreFiles' /\ HandedIsFile' /\ OneFileExists'
    BY DEF PairInv
  <1>1. /\ at[i] = "down" /\ cert' = cert /\ key' = key /\ loaded' = loaded /\ handed' = handed
    BY DEF Start, servers
  <1>2. at \in [Instances -> Steps] /\ pair \in [Instances -> Pairs \cup {Absent}]
    BY FieldTypes DEF Inv
  <1>3. \/ /\ MissesBoth /\ at' = [at EXCEPT ![i] = "open cert"]
           /\ \A j \in Instances : ~Generating(j)
           /\ \E n \in Pairs : pair' = [pair EXCEPT ![i] = n]
        \/ /\ ~MissesBoth /\ at' = [at EXCEPT ![i] = "load messenger"]
           /\ pair' = [pair EXCEPT ![i] = Absent]
    BY DEF Start, GeneratePair
  <1>4. \A j \in Instances \ {i} : at'[j] = at[j] /\ pair'[j] = pair[j]
    BY <1>2, <1>3
  <1>5. \/ /\ MissesBoth /\ at'[i] = "open cert" /\ \A j \in Instances : ~Generating(j)
        \/ ~MissesBoth /\ at'[i] = "load messenger" /\ pair'[i] = Absent
    BY <1>2, <1>3
  <1>6. ~clash
    BY DEF Start
  <1>7. /\ OneGenerates /\ NothingToOverwrite /\ WholeFilesFit
        /\ LoadedAreFiles /\ HandedIsFile /\ OneFileExists
    BY <1>6 DEF Inv, PairInv
  <1>8. OneGenerates'
    BY <1>4, <1>5, <1>7 DEF OneGenerates, Generating
  <1>9. NothingToOverwrite'
    <2> SUFFICES ASSUME NEW j \in Instances
                 PROVE  /\ IsAt(j, {"open cert", "open key", "write key"})'
                             => ~Exists(cert') /\ ~Exists(key')
                        /\ IsAt(j, {"write cert"})' => cert' = Small /\ key' \in {pair'[j], Torn, Small}
      BY DEF NothingToOverwrite, Exists
    <2>1. CASE j = i
      BY <1>1, <1>5, <2>1 DEF MissesBoth, IsAt
    <2>2. CASE j # i
      BY <1>1, <1>4, <1>7, <2>2 DEF NothingToOverwrite, IsAt
    <2> QED BY <2>1, <2>2
  <1>10. WholeFilesFit' /\ HandedIsFile'
    BY <1>1, <1>7 DEF WholeFilesFit, HandedIsFile, IsWhole
  <1>11. LoadedAreFiles'
    BY <1>1, <1>4, <1>5, <1>7 DEF LoadedAreFiles, LoadedIs, IsWhole, IsAt
  <1>12. OneFileExists'
    BY <1>1, <1>4, <1>5, <1>7 DEF OneFileExists, Loading, Exists, MissesBoth
  <1> QED BY <1>8, <1>9, <1>10, <1>11, <1>12

LEMMA SaveEffects ==
  ASSUME TypeOK, NEW i \in Instances,
         OpenCert(i) \/ OpenKey(i) \/ WriteKey(i) \/ WriteCert(i)
  PROVE  \/ /\ at[i] = "open cert" /\ at'[i] = "open key"
            /\ cert' = Small /\ key' = key /\ pair' = pair
         \/ /\ at[i] = "open cert" /\ at'[i] = "down"
            /\ cert' = cert /\ key' = key
         \/ /\ at[i] = "open key" /\ at'[i] = "write key"
            /\ cert' = cert /\ key' = Small /\ pair' = pair
         \/ /\ at[i] = "open key" /\ at'[i] = "down"
            /\ cert' \in Written(i) /\ key' = key
         \/ /\ at[i] = "write key" /\ at'[i] = "write cert"
            /\ cert' = cert /\ key' \in Written(i) /\ pair' = pair
         \/ /\ at[i] = "write cert" /\ at'[i] = "load messenger"
            /\ cert' \in Written(i) /\ key' = key /\ pair' = pair
PROOF
  <1>1. at \in [Instances -> Steps]
    BY FieldTypes
  <1>2. CASE OpenCert(i)
    BY <1>1, <1>2 DEF OpenCert, Fails
  <1>3. CASE OpenKey(i)
    BY <1>1, <1>3 DEF OpenKey, Fails
  <1>4. CASE WriteKey(i)
    BY <1>1, <1>4 DEF WriteKey
  <1>5. CASE WriteCert(i)
    BY <1>1, <1>5 DEF WriteCert
  <1> QED BY <1>2, <1>3, <1>4, <1>5

(* A step of the only instance that makes a pair.  The files it leaves are *)
(* described by where it is then.                                          *)
LEMMA SavingKeepsPair ==
  ASSUME Inv, NEW i \in Instances,
         OpenCert(i) \/ OpenKey(i) \/ WriteKey(i) \/ WriteCert(i)
  PROVE  PairInv'
PROOF
  <1> SUFFICES ASSUME ~clash'
               PROVE  /\ OneGenerates' /\ NothingToOverwrite' /\ WholeFilesFit'
                      /\ LoadedAreFiles' /\ HandedIsFile' /\ OneFileExists'
    BY DEF PairInv
  <1>1. loaded' = loaded /\ handed' = handed /\ ~clash /\ Generating(i)
    <2>1. loaded' = loaded /\ handed' = handed
      BY DEF OpenCert, OpenKey, WriteKey, WriteCert, servers
    <2>2. clash' = clash
      BY DEF OpenCert, OpenKey, WriteKey, WriteCert
    <2>3. at[i] \in {"open cert", "open key", "write key", "write cert"}
      BY DEF OpenCert, OpenKey, WriteKey, WriteCert
    <2> QED BY <2>1, <2>2, <2>3 DEF Generating
  <1>2. at \in [Instances -> Steps] /\ pair \in [Instances -> Pairs \cup {Absent}] /\ TypeOK
    BY FieldTypes DEF Inv
  <1>3. /\ OneGenerates /\ NothingToOverwrite /\ WholeFilesFit
        /\ LoadedAreFiles /\ HandedIsFile /\ OneFileExists
    BY <1>1 DEF Inv, PairInv
  <1>4. pair[i] \in Pairs
    BY <1>1 DEF Inv, FilesInv, GeneratorHasPair
  <1>5. PICK step \in {"down", "open key", "write key", "write cert", "load messenger"} :
          at' = [at EXCEPT ![i] = step]
    BY DEF OpenCert, OpenKey, WriteKey, WriteCert, Fails
  <1>6. at'[i] = step /\ \A j \in Instances \ {i} : at'[j] = at[j]
    BY <1>2, <1>5, Moved DEF Steps
  <1>7. \A j \in Instances \ {i} : pair'[j] = pair[j]
    BY <1>2 DEF OpenCert, OpenKey, WriteKey, WriteCert, Fails
  <1>8. \A j \in Instances \ {i} : ~Generating(j)
    BY <1>1, <1>3 DEF OneGenerates
  <1>9. ~(IsWhole(cert) /\ IsWhole(key))
    BY <1>1, WholeIsNotOverwritten DEF Inv
  <1>10. OneGenerates'
    BY <1>6, <1>8 DEF OneGenerates, Generating
  <1>11. NothingToOverwrite'
    <2>1. \A j \in Instances \ {i} : at'[j] \notin {"open cert", "open key", "write key", "write cert"}
      BY <1>6, <1>8 DEF Generating
    <2>2. step \in {"open key", "write key"} => ~Exists(cert') /\ ~Exists(key')
      BY <1>2, <1>3, <1>6, SaveEffects DEF NothingToOverwrite, IsAt, Exists
    <2>3. step = "write cert" => cert' = Small /\ key' \in {pair'[i], Torn, Small}
      <3> SUFFICES ASSUME step = "write cert"
                   PROVE  cert' = Small /\ key' \in {pair'[i], Torn, Small}
        OBVIOUS
      <3>1. at[i] = "write key" /\ cert' = cert /\ key' \in Written(i) /\ pair' = pair
        BY <1>2, <1>6, SaveEffects
      <3>2. cert = Small
        BY <1>3, <3>1 DEF Inv, FilesInv, CertIsOpened, NothingToOverwrite, IsAt, Exists
      <3> QED BY <3>1, <3>2 DEF Written
    <2> QED BY <1>6, <2>1, <2>2, <2>3 DEF NothingToOverwrite, IsAt, Exists
  <1>12. WholeFilesFit'
    <2>1. at[i] # "write cert" => ~Exists(cert) /\ ~Exists(key)
      BY <1>1, WholeIsNotOverwritten DEF Inv, IsAt
    <2>2. at[i] = "write cert" => key \in {pair[i], Torn, Small} /\ cert = Small
      BY <1>3 DEF NothingToOverwrite, IsAt
    <2>3. CASE at[i] = "write cert"
      <3>1. cert' \in Written(i) /\ key' = key
        BY <1>2, <2>3, SaveEffects
      <3> QED BY <2>2, <2>3, <3>1, ContentFacts DEF WholeFilesFit, IsWhole, Written
    <2>4. CASE at[i] # "write cert"
      <3>1. ~IsWhole(cert) /\ ~IsWhole(key)
        BY <2>1, <2>4, ContentFacts DEF IsWhole, Exists
      <3>2. ~IsWhole(cert') \/ ~IsWhole(key')
        BY <1>2, <2>4, <3>1, SaveEffects, ContentFacts DEF IsWhole
      <3> QED BY <3>2 DEF WholeFilesFit, IsWhole
    <2> QED BY <2>3, <2>4
  <1>13. HandedIsFile' 
    BY <1>1, <1>3, <1>9 DEF HandedIsFile
  <1>14. LoadedAreFiles'
    <2>1. \A j \in Instances : at[j] \notin {"load transport", "up"}
      BY <1>3, <1>9 DEF LoadedAreFiles, LoadedIs, IsAt, Servers
    <2> QED BY <1>6, <2>1 DEF LoadedAreFiles, IsAt
  <1>15. OneFileExists'
    <2> SUFFICES ASSUME NEW j \in Instances, Loading(j)', pair'[j] = Absent
                 PROVE  Exists(cert') \/ Exists(key')
      BY DEF OneFileExists, Exists
    <2>1. CASE j = i
      <3>1. pair'[i] = pair[i]
        BY <1>2, <1>6, <2>1, SaveEffects DEF Loading
      <3> QED BY <1>4, <2>1, <3>1, ContentFacts
    <2>2. CASE j # i
      <3>1. Exists(cert) \/ Exists(key)
        BY <1>3, <1>6, <1>7, <2>2 DEF OneFileExists, Loading
      <3>2. at[i] = "write cert"
        BY <1>1, <3>1, WholeIsNotOverwritten DEF Inv, IsAt
      <3>3. cert = Small /\ key' = key
        BY <1>2, <1>3, <3>2, SaveEffects DEF NothingToOverwrite, IsAt
      <3> QED BY <3>1, <3>3 DEF Exists
    <2> QED BY <2>1, <2>2
  <1> QED BY <1>10, <1>11, <1>12, <1>13, <1>14, <1>15

LEMMA LoadKeepsPair ==
  ASSUME Inv, NEW i \in Instances, LoadMessenger(i) \/ LoadTransport(i)
  PROVE  PairInv'
PROOF
  <1> SUFFICES ASSUME ~clash'
               PROVE  /\ OneGenerates' /\ NothingToOverwrite' /\ WholeFilesFit'
                      /\ LoadedAreFiles' /\ HandedIsFile' /\ OneFileExists'
    BY DEF PairInv
  <1>1. cert' = cert /\ key' = key /\ handed' = handed
    BY DEF LoadMessenger, LoadTransport, Load, files
  <1>2. clash' = clash
    BY DEF LoadMessenger, LoadTransport, Load, files
  <1>3. /\ OneGenerates /\ NothingToOverwrite /\ WholeFilesFit
        /\ LoadedAreFiles /\ HandedIsFile /\ OneFileExists
    BY <1>2 DEF Inv, PairInv
  <1>4. /\ at \in [Instances -> Steps] /\ pair \in [Instances -> Pairs \cup {Absent}]
        /\ loaded \in [Instances -> [Servers -> [cert : Contents, key : Contents]]]
    BY FieldTypes DEF Inv, TypeOK
  <1> DEFINE both == [cert |-> cert, key |-> key]
  <1>5. \/ /\ IsWhole(cert) /\ IsWhole(key) /\ at[i] = "load messenger"
           /\ at' = [at EXCEPT ![i] = "load transport"]
           /\ loaded' = [loaded EXCEPT ![i]["messenger"] = both]
        \/ /\ IsWhole(cert) /\ IsWhole(key) /\ at[i] = "load transport"
           /\ at' = [at EXCEPT ![i] = "up"]
           /\ loaded' = [loaded EXCEPT ![i]["transport"] = both]
        \/ /\ Loading(i) /\ at' = [at EXCEPT ![i] = "down"]
           /\ loaded' = [loaded EXCEPT ![i] = NotLoaded]
    BY DEF LoadMessenger, LoadTransport, Load, Loading
  <1> HIDE DEF both
  <1>6. pair' = [pair EXCEPT ![i] = Absent]
    BY DEF LoadMessenger, LoadTransport, Load
  <1>7. \A j \in Instances \ {i} : at'[j] = at[j] /\ pair'[j] = pair[j] /\ loaded'[j] = loaded[j]
    BY <1>4, <1>5, <1>6
  <1>8. /\ Loading(i) /\ at'[i] \in {"down", "load transport", "up"}
        /\ at'[i] = "load transport" =>
             IsWhole(cert) /\ IsWhole(key) /\ loaded'[i]["messenger"] = both
        /\ at'[i] = "up" =>
             /\ IsWhole(cert) /\ IsWhole(key) /\ at[i] = "load transport"
             /\ loaded'[i]["transport"] = both
             /\ loaded'[i]["messenger"] = loaded[i]["messenger"]
    <2>1. Loading(i)
      BY <1>5 DEF Loading
    <2>2. at'[i] \in {"down", "load transport", "up"}
      BY <1>4, <1>5
    <2>3. at'[i] = "load transport" =>
            IsWhole(cert) /\ IsWhole(key) /\ loaded'[i]["messenger"] = both
      BY <1>4, <1>5 DEF Servers
    <2>4. at'[i] = "up" =>
            /\ IsWhole(cert) /\ IsWhole(key) /\ at[i] = "load transport"
            /\ loaded'[i]["transport"] = both
            /\ loaded'[i]["messenger"] = loaded[i]["messenger"]
      BY <1>4, <1>5 DEF Servers
    <2> QED BY <2>1, <2>2, <2>3, <2>4
  <1>9. OneGenerates'
    BY <1>3, <1>7, <1>8 DEF OneGenerates, Generating
  <1>10. NothingToOverwrite'
    BY <1>1, <1>3, <1>7, <1>8 DEF NothingToOverwrite, IsAt, Exists
  <1>11. WholeFilesFit' /\ HandedIsFile'
    BY <1>1, <1>3 DEF WholeFilesFit, HandedIsFile, IsWhole
  <1>12. LoadedAreFiles'
    <2> SUFFICES ASSUME NEW j \in Instances
                 PROVE  /\ at'[j] = "load transport" => LoadedIs(j, "messenger")'
                        /\ at'[j] = "up" => \A s \in Servers : LoadedIs(j, s)'
      BY DEF LoadedAreFiles, IsAt
    <2>1. CASE j = i
      <3>1. at[i] = "load transport" => loaded[i]["messenger"] = both
        BY <1>3 DEF LoadedAreFiles, LoadedIs, IsAt, both
      <3> QED BY <1>1, <1>8, <2>1, <3>1 DEF LoadedIs, IsWhole, Servers, both
    <2>2. CASE j # i
      BY <1>1, <1>3, <1>7, <2>2 DEF LoadedAreFiles, LoadedIs, IsWhole, IsAt
    <2> QED BY <2>1, <2>2
  <1>13. OneFileExists'
    <2> SUFFICES ASSUME NEW j \in Instances, Loading(j)', pair'[j] = Absent
                 PROVE  Exists(cert) \/ Exists(key)
      BY <1>1 DEF OneFileExists, Exists
    <2>1. CASE j = i
      BY <1>8, <2>1, ContentFacts DEF Loading, IsWhole, Exists
    <2>2. CASE j # i
      BY <1>3, <1>7, <2>2 DEF OneFileExists, Loading
    <2> QED BY <2>1, <2>2
  <1> QED BY <1>9, <1>10, <1>11, <1>12, <1>13

LEMMA EndKeepsPair == ASSUME Inv, NEW i \in Instances, End(i) PROVE PairInv'
PROOF
  <1> SUFFICES ASSUME ~clash'
               PROVE  /\ OneGenerates' /\ NothingToOverwrite' /\ WholeFilesFit'
                      /\ LoadedAreFiles' /\ HandedIsFile' /\ OneFileExists'
    BY DEF PairInv
  <1>1. cert' = cert /\ key' = key /\ handed' = handed
    BY DEF End
  <1>2. clash' = clash
    BY DEF End
  <1>3. /\ OneGenerates /\ NothingToOverwrite /\ WholeFilesFit
        /\ LoadedAreFiles /\ HandedIsFile /\ OneFileExists
    BY <1>2 DEF Inv, PairInv
  <1>4. /\ at' = [at EXCEPT ![i] = "down"] /\ loaded' = [loaded EXCEPT ![i] = NotLoaded]
        /\ pair' = [pair EXCEPT ![i] = Absent]
    BY DEF End
  <1>5. /\ at \in [Instances -> Steps] /\ pair \in [Instances -> Pairs \cup {Absent}]
        /\ loaded \in [Instances -> [Servers -> [cert : Contents, key : Contents]]]
    BY FieldTypes DEF Inv, TypeOK
  <1>6. /\ \A j \in Instances \ {i} : at'[j] = at[j] /\ pair'[j] = pair[j] /\ loaded'[j] = loaded[j]
        /\ at'[i] = "down"
    BY <1>4, <1>5
  <1>7. OneGenerates' /\ WholeFilesFit' /\ HandedIsFile' /\ OneFileExists'
    BY <1>1, <1>3, <1>6 DEF OneGenerates, Generating, WholeFilesFit, HandedIsFile, IsWhole,
                            OneFileExists, Loading, Exists
  <1>8. NothingToOverwrite'
    BY <1>1, <1>3, <1>6 DEF NothingToOverwrite, IsAt, Exists
  <1>9. LoadedAreFiles'
    BY <1>1, <1>3, <1>6 DEF LoadedAreFiles, LoadedIs, IsWhole, IsAt
  <1> QED BY <1>7, <1>8, <1>9

LEMMA PairStep == Inv /\ [Next]_vars => PairInv'
PROOF
  <1> SUFFICES ASSUME Inv, [Next]_vars PROVE PairInv'
    OBVIOUS
  <1>1. ASSUME NEW i \in Instances, GenerateConnectionKey(i) PROVE PairInv'
    <2>1. /\ at[i] = "up" /\ handed'.print = cert
          /\ at' = at /\ pair' = pair /\ cert' = cert /\ key' = key /\ loaded' = loaded
      BY <1>1 DEF GenerateConnectionKey, CreateConnectionKey, files
    <2>2. clash' = clash
      BY <1>1 DEF GenerateConnectionKey, files
    <2> SUFFICES ASSUME ~clash
                 PROVE  /\ OneGenerates' /\ NothingToOverwrite' /\ WholeFilesFit'
                        /\ LoadedAreFiles' /\ HandedIsFile' /\ OneFileExists'
      BY <2>2 DEF PairInv
    <2>3. /\ OneGenerates /\ NothingToOverwrite /\ WholeFilesFit
          /\ LoadedAreFiles /\ OneFileExists
      BY DEF Inv, PairInv
    <2>4. IsWhole(cert) /\ IsWhole(key)
      BY <2>1, <2>3 DEF LoadedAreFiles, LoadedIs, IsAt, Servers
    <2>5. HandedIsFile'
      BY <2>1, <2>4 DEF HandedIsFile, IsWhole
    <2>6. OneGenerates' /\ WholeFilesFit' /\ OneFileExists'
      BY <2>1, <2>3 DEF OneGenerates, Generating, WholeFilesFit, IsWhole, OneFileExists, Loading, Exists
    <2>7. NothingToOverwrite' /\ LoadedAreFiles'
      BY <2>1, <2>3 DEF NothingToOverwrite, IsAt, Exists, LoadedAreFiles, LoadedIs, IsWhole
    <2> QED BY <2>5, <2>6, <2>7
  <1>2. ASSUME at' = at, pair' = pair, cert' = cert, key' = key, clash' = clash,
               loaded' = loaded, handed' = handed
        PROVE  PairInv'
    BY <1>2, Zenon DEF Inv, PairInv, OneGenerates, Generating, NothingToOverwrite, IsAt, WholeFilesFit,
                LoadedAreFiles, LoadedIs, IsWhole, HandedIsFile, OneFileExists, Loading, Exists
  <1>3. ASSUME NEW i \in Instances, StartServers(i) \/ StopServers(i) PROVE PairInv'
    BY <1>2, <1>3 DEF StartServers, StopServers, files
  <1>4. CASE UNCHANGED vars
    BY <1>2, <1>4 DEF vars, files, servers
  <1> QED BY <1>1, <1>3, <1>4, StartKeepsPair, SavingKeepsPair, LoadKeepsPair, EndKeepsPair DEF Next

----------------------------------------------------------------------------
(* The ports.                                                              *)

LEMMA PortStart == Init => PortInv
PROOF
  <1> SUFFICES ASSUME Init PROVE PortInv
    OBVIOUS
  <1>1. /\ \A i \in Instances : at[i] = "down" /\ told[i] = NotTold
        /\ \A i \in Instances, s \in Servers : port[i][s] = NoPort
        /\ handed = NoKey
    BY DEF Init, Nowhere
  <1>2. SettingsAreMade /\ ToldIsOfUp /\ StartedListens /\ KeyHasPorts
    BY <1>1 DEF SettingsAreMade, ToldIsOfUp, StartedListens, KeyHasPorts, NotTold
  <1>3. PortsAreSet
    BY <1>1 DEF PortsAreSet
  <1> QED BY <1>2, <1>3 DEF PortInv

(* What only holds of complete settings does not change any more.          *)
LEMMA StartKeepsPorts == ASSUME Inv, NEW i \in Instances, Start(i) PROVE PortInv'
PROOF
  <1>1. /\ at[i] = "down" /\ port' = port /\ listens' = listens /\ told' = told /\ handed' = handed
        /\ \A s \in Servers : setting'[s] # Unset
        /\ \A s \in Servers : setting[s] # Unset => setting'[s] = setting[s]
    BY InitializeKeeps DEF Start, servers, Inv
  <1>2. at \in [Instances -> Steps]
    BY FieldTypes DEF Inv
  <1>3. at'[i] \in {"open cert", "load messenger"} /\ \A j \in Instances \ {i} : at'[j] = at[j]
    BY <1>2 DEF Start
  <1>4. \A p, s : s \in Servers /\ IsPortOf(p, s) => IsPortOf(p, s)'
    BY <1>1 DEF IsPortOf
  <1>5. SettingsAreMade'
    BY <1>1 DEF SettingsAreMade
  <1>6. PortsAreSet'
    <2> SUFFICES ASSUME NEW j \in Instances, NEW s \in Servers
                 PROVE  /\ port[j][s] # NoPort => IsPortOf(port[j][s], s)'
                        /\ at'[j] = "load transport" => port[j]["messenger"] # NoPort
                        /\ at'[j] = "up" => port[j][s] # NoPort
      BY <1>1 DEF PortsAreSet, IsPortOf
    <2>1. /\ port[j][s] # NoPort => IsPortOf(port[j][s], s)
          /\ at[j] = "load transport" => port[j]["messenger"] # NoPort
          /\ at[j] = "up" => port[j][s] # NoPort
      BY DEF Inv, PortInv, PortsAreSet
    <2> QED BY <1>1, <1>3, <1>4, <2>1 DEF IsPortOf
  <1>7. ToldIsOfUp'
    BY <1>1, <1>3 DEF Inv, PortInv, ToldIsOfUp
  <1>8. StartedListens'
    BY <1>1 DEF Inv, PortInv, StartedListens
  <1>9. KeyHasPorts'
    BY <1>1 DEF Inv, PortInv, KeyHasPorts, IsPortOf, Servers
  <1> QED BY <1>5, <1>6, <1>7, <1>8, <1>9 DEF PortInv

LEMMA SavingKeepsPorts ==
  ASSUME Inv, NEW i \in Instances,
         OpenCert(i) \/ OpenKey(i) \/ WriteKey(i) \/ WriteCert(i)
  PROVE  PortInv'
PROOF
  <1>1. /\ setting' = setting /\ port' = port /\ listens' = listens
        /\ told' = told /\ handed' = handed
    BY DEF OpenCert, OpenKey, WriteKey, WriteCert, servers
  <1>2. PICK step \in {"down", "open key", "write key", "write cert", "load messenger"} :
          at' = [at EXCEPT ![i] = step]
    BY DEF OpenCert, OpenKey, WriteKey, WriteCert, Fails
  <1>3. at'[i] = step /\ \A j \in Instances \ {i} : at'[j] = at[j]
    BY <1>2, Moved DEF Inv, Steps
  <1>4. at[i] \in {"open cert", "open key", "write key", "write cert"}
    BY DEF OpenCert, OpenKey, WriteKey, WriteCert
  <1>5. SettingsAreMade' /\ ToldIsOfUp' /\ StartedListens' /\ KeyHasPorts'
    BY <1>1, <1>3, <1>4 DEF Inv, PortInv, SettingsAreMade, ToldIsOfUp, StartedListens, KeyHasPorts,
                            IsPortOf
  <1>6. PortsAreSet'
    BY <1>1, <1>3 DEF Inv, PortInv, PortsAreSet, IsPortOf
  <1> QED BY <1>5, <1>6 DEF PortInv

LEMMA LoadKeepsPorts ==
  ASSUME Inv, NEW i \in Instances, LoadMessenger(i) \/ LoadTransport(i)
  PROVE  PortInv'
PROOF
  <1>1. setting' = setting /\ listens' = listens /\ told' = told /\ handed' = handed
    BY DEF LoadMessenger, LoadTransport, Load
  <1>2. /\ at \in [Instances -> Steps]
        /\ port \in [Instances -> [Servers -> Ports \cup {NoPort}]]
    BY FieldTypes DEF Inv
  <1>3. \/ /\ at[i] = "load messenger" /\ at' = [at EXCEPT ![i] = "load transport"]
           /\ port' = [port EXCEPT ![i]["messenger"] = QUInt(setting["messenger"])]
        \/ /\ at[i] = "load transport" /\ at' = [at EXCEPT ![i] = "up"]
           /\ port' = [port EXCEPT ![i]["transport"] = QUInt(setting["transport"])]
        \/ /\ Loading(i) /\ at' = [at EXCEPT ![i] = "down"]
           /\ port' = [port EXCEPT ![i] = Nowhere]
    BY DEF LoadMessenger, LoadTransport, Load, Loading
  <1>4. /\ Loading(i) /\ \A j \in Instances \ {i} : at'[j] = at[j] /\ port'[j] = port[j]
        /\ at'[i] \in {"down", "load transport", "up"}
    BY <1>2, <1>3 DEF Loading
  <1>5. \A s \in Servers : setting[s] # Unset /\ setting[s] \in Int
    BY <1>4, SettingTypes DEF Inv, PortInv, SettingsAreMade, Loading, TypeOK, Settings
  <1>6. \A s \in Servers : IsPortOf(QUInt(setting[s]), s) /\ QUInt(setting[s]) # NoPort
    BY <1>5, PortNumbers DEF IsPortOf
  <1>7. told[i] = NotTold
    BY <1>4 DEF Inv, PortInv, ToldIsOfUp, Loading
  <1>8. ToldIsOfUp' /\ StartedListens'
    BY <1>1, <1>4, <1>7 DEF Inv, PortInv, ToldIsOfUp, StartedListens, NotTold
  <1>9. SettingsAreMade' /\ KeyHasPorts'
    BY <1>1, <1>5, Zenon DEF Inv, PortInv, SettingsAreMade, KeyHasPorts, IsPortOf
  <1>10. PortsAreSet'
    <2> SUFFICES ASSUME NEW j \in Instances, NEW s \in Servers
                 PROVE  /\ port'[j][s] # NoPort => IsPortOf(port'[j][s], s)
                        /\ at'[j] = "load transport" => port'[j]["messenger"] # NoPort
                        /\ at'[j] = "up" => port'[j][s] # NoPort
      BY <1>1 DEF PortsAreSet, IsPortOf
    <2>1. \A t \in Servers :
            /\ port[j][t] # NoPort => IsPortOf(port[j][t], t)
            /\ at[j] = "load transport" => port[j]["messenger"] # NoPort
            /\ at[j] = "up" => port[j][t] # NoPort
      BY DEF Inv, PortInv, PortsAreSet
    <2>2. CASE j # i
      BY <1>4, <2>1, <2>2
    <2>3. CASE j = i
      <3>1. "messenger" \in Servers /\ "transport" \in Servers /\ s \in {"messenger", "transport"}
        BY DEF Servers
      <3>2. CASE at' = [at EXCEPT ![i] = "load transport"]
        <4>1. at'[i] = "load transport" /\ port' = [port EXCEPT ![i]["messenger"] = QUInt(setting["messenger"])]
          BY <1>2, <1>3, <3>2
        <4>2. port'[i]["messenger"] = QUInt(setting["messenger"]) /\ port'[i]["transport"] = port[i]["transport"]
          BY <1>2, <3>1, <4>1
        <4> QED BY <1>6, <2>1, <2>3, <3>1, <4>1, <4>2
      <3>3. CASE at' = [at EXCEPT ![i] = "up"]
        <4>1. /\ at[i] = "load transport" /\ at'[i] = "up"
              /\ port' = [port EXCEPT ![i]["transport"] = QUInt(setting["transport"])]
          BY <1>2, <1>3, <3>3
        <4>2. port'[i]["transport"] = QUInt(setting["transport"]) /\ port'[i]["messenger"] = port[i]["messenger"]
          BY <1>2, <3>1, <4>1
        <4> QED BY <1>6, <2>1, <2>3, <3>1, <4>1, <4>2
      <3>4. CASE at' = [at EXCEPT ![i] = "down"]
        <4>1. at'[i] = "down" /\ port' = [port EXCEPT ![i] = Nowhere]
          BY <1>2, <1>3, <3>4
        <4>2. port'[i][s] = NoPort
          BY <1>2, <4>1 DEF Nowhere
        <4> QED BY <2>3, <4>1, <4>2
      <3> QED BY <1>3, <3>2, <3>3, <3>4
    <2> QED BY <2>2, <2>3
  <1> QED BY <1>8, <1>9, <1>10 DEF PortInv

LEMMA EndKeepsPorts == ASSUME Inv, NEW i \in Instances, End(i) PROVE PortInv'
PROOF
  <1>1. /\ setting' = setting /\ handed' = handed
        /\ at' = [at EXCEPT ![i] = "down"] /\ listens' = [listens EXCEPT ![i] = Nowhere]
        /\ told' = [told EXCEPT ![i] = NotTold] /\ port' = [port EXCEPT ![i] = Nowhere]
    BY DEF End
  <1>2. /\ at \in [Instances -> Steps] /\ told \in [Instances -> {NotTold, "started", "error"}]
        /\ port \in [Instances -> [Servers -> Ports \cup {NoPort}]]
        /\ listens \in [Instances -> [Servers -> Ports \cup {NoPort}]]
    BY FieldTypes DEF Inv, TypeOK
  <1>3. /\ \A j \in Instances \ {i} : at'[j] = at[j] /\ told'[j] = told[j] /\ port'[j] = port[j]
                                      /\ listens'[j] = listens[j]
        /\ at'[i] = "down" /\ told'[i] = NotTold /\ port'[i] = Nowhere
    BY <1>1, <1>2
  <1>4. SettingsAreMade' /\ KeyHasPorts'
    BY <1>1, <1>3 DEF Inv, PortInv, SettingsAreMade, KeyHasPorts, IsPortOf
  <1>5. ToldIsOfUp' /\ StartedListens'
    BY <1>3 DEF Inv, PortInv, ToldIsOfUp, StartedListens, NotTold
  <1>6. PortsAreSet'
    <2> SUFFICES ASSUME NEW j \in Instances, NEW s \in Servers
                 PROVE  /\ port'[j][s] # NoPort => IsPortOf(port'[j][s], s)
                        /\ at'[j] = "load transport" => port'[j]["messenger"] # NoPort
                        /\ at'[j] = "up" => port'[j][s] # NoPort
      BY <1>1 DEF PortsAreSet, IsPortOf
    <2>1. CASE j = i
      BY <1>3, <2>1 DEF Nowhere
    <2>2. CASE j # i
      BY <1>3, <2>2 DEF Inv, PortInv, PortsAreSet
    <2> QED BY <2>1, <2>2
  <1> QED BY <1>4, <1>5, <1>6 DEF PortInv

LEMMA ServingKeepsPorts ==
  ASSUME Inv, NEW i \in Instances,
         StartServers(i) \/ StopServers(i) \/ GenerateConnectionKey(i)
  PROVE  PortInv'
PROOF
  <1>1. setting' = setting /\ at' = at /\ port' = port /\ at[i] = "up"
    BY DEF StartServers, StopServers, GenerateConnectionKey
  <1>2. /\ told \in [Instances -> {NotTold, "started", "error"}]
        /\ listens \in [Instances -> [Servers -> Ports \cup {NoPort}]]
    BY DEF Inv, TypeOK
  <1>3. SettingsAreMade' /\ PortsAreSet'
    BY <1>1 DEF Inv, PortInv, SettingsAreMade, PortsAreSet, IsPortOf
  <1>4. \A j \in Instances \ {i} : told'[j] = told[j] /\ listens'[j] = listens[j]
    <2>1. CASE StartServers(i)
      <3> DEFINE messenger == Free(i, "messenger", InUse)
                 transport == Free(i, "transport", IF messenger THEN InUse \cup {port[i]["messenger"]}
                                                                ELSE InUse)
                 p == IF messenger THEN port[i]["messenger"] ELSE NoPort
                 q == IF transport THEN port[i]["transport"] ELSE NoPort
      <3>1. /\ listens' = [listens EXCEPT ![i]["messenger"] = p, ![i]["transport"] = q]
            /\ told' = [told EXCEPT ![i] = Started(messenger, transport)]
        BY <2>1 DEF StartServers
      <3> HIDE DEF p, q
      <3> QED BY <1>2, <3>1
    <2> QED BY <1>2, <2>1 DEF StopServers, GenerateConnectionKey
  <1>5. ToldIsOfUp'
    BY <1>1, <1>4 DEF Inv, PortInv, ToldIsOfUp
  <1>6. told'[i] = "started" => \A s \in Servers : listens'[i][s] = port[i][s]
    <2>1. CASE StartServers(i)
      <3> DEFINE messenger == Free(i, "messenger", InUse)
                 transport == Free(i, "transport", IF messenger THEN InUse \cup {port[i]["messenger"]}
                                                                ELSE InUse)
      <3>1. /\ listens' = [listens EXCEPT
                            ![i]["messenger"] = IF messenger THEN port[i]["messenger"] ELSE NoPort,
                            ![i]["transport"] = IF transport THEN port[i]["transport"] ELSE NoPort]
            /\ told' = [told EXCEPT ![i] = Started(messenger, transport)]
        BY <2>1 DEF StartServers
      <3> HIDE DEF messenger, transport
      <3>2. told'[i] = "started" => messenger /\ transport
        BY <1>2, <3>1 DEF Started
      <3> QED BY <1>2, <3>1, <3>2 DEF Servers
    <2>2. CASE StopServers(i)
      BY <1>2, <2>2 DEF StopServers, NotTold
    <2>3. CASE GenerateConnectionKey(i)
      BY <2>3 DEF GenerateConnectionKey, Inv, PortInv, StartedListens
    <2> QED BY <2>1, <2>2, <2>3
  <1>7. StartedListens'
    BY <1>1, <1>4, <1>6 DEF Inv, PortInv, StartedListens
  <1>8. KeyHasPorts'
    <2>1. CASE handed' = handed
      BY <1>1, <2>1 DEF Inv, PortInv, KeyHasPorts, IsPortOf
    <2>2. CASE handed' = CreateConnectionKey(i)
      <3>1. \A s \in Servers : IsPortOf(port[i][s], s)
        BY <1>1 DEF Inv, PortInv, PortsAreSet
      <3> QED BY <1>1, <2>2, <3>1 DEF KeyHasPorts, IsPortOf, CreateConnectionKey, Servers
    <2> QED BY <2>1, <2>2 DEF StartServers, StopServers, GenerateConnectionKey
  <1> QED BY <1>3, <1>5, <1>7, <1>8 DEF PortInv

LEMMA PortStep == Inv /\ [Next]_vars => PortInv'
PROOF
  <1> SUFFICES ASSUME Inv, [Next]_vars PROVE PortInv'
    OBVIOUS
  <1>1. CASE UNCHANGED vars
    BY <1>1 DEF vars, servers, Inv, PortInv, SettingsAreMade, PortsAreSet, ToldIsOfUp, StartedListens,
                KeyHasPorts, IsPortOf
  <1> QED BY <1>1, StartKeepsPorts, SavingKeepsPorts, LoadKeepsPorts, EndKeepsPorts, ServingKeepsPorts
          DEF Next

----------------------------------------------------------------------------
(* ReportIsTrue keeps itself, where the ports of running servers are set.  *)

LEMMA ReportStart == Init => ReportIsTrue
BY DEF Init, ReportIsTrue

LEMMA ReportStep == Inv /\ ReportIsTrue /\ [Next]_vars => ReportIsTrue'
PROOF
  <1> SUFFICES ASSUME Inv, ReportIsTrue, [Next]_vars PROVE ReportIsTrue'
    OBVIOUS
  <1>1. /\ told \in [Instances -> {NotTold, "started", "error"}]
        /\ listens \in [Instances -> [Servers -> Ports \cup {NoPort}]]
    BY DEF Inv, TypeOK
  <1>2. CASE told' = told /\ listens' = listens
    BY <1>2 DEF ReportIsTrue
  <1>3. ASSUME NEW i \in Instances, told' = [told EXCEPT ![i] = NotTold],
               listens' = [listens EXCEPT ![i] = Nowhere]
        PROVE  ReportIsTrue'
    <2>1. told'[i] = NotTold /\ \A j \in Instances \ {i} : told'[j] = told[j] /\ listens'[j] = listens[j]
      BY <1>1, <1>3
    <2> QED BY <2>1 DEF ReportIsTrue
  <1>4. ASSUME NEW i \in Instances, StartServers(i) PROVE ReportIsTrue'
    <2> DEFINE messenger == Free(i, "messenger", InUse)
               transport == Free(i, "transport", IF messenger THEN InUse \cup {port[i]["messenger"]}
                                                              ELSE InUse)
               p == IF messenger THEN port[i]["messenger"] ELSE NoPort
               q == IF transport THEN port[i]["transport"] ELSE NoPort
    <2>1. /\ listens' = [listens EXCEPT ![i]["messenger"] = p, ![i]["transport"] = q]
          /\ told' = [told EXCEPT ![i] = Started(messenger, transport)] /\ at[i] = "up"
      BY <1>4 DEF StartServers
    <2>2. port[i]["messenger"] # NoPort /\ port[i]["transport"] # NoPort
      BY <2>1 DEF Inv, PortInv, PortsAreSet, Servers
    <2> HIDE DEF messenger, transport
    <2>3. Started(messenger, transport) = "started" <=> p # NoPort /\ q # NoPort
      BY <2>2 DEF Started
    <2> HIDE DEF p, q
    <2>4. /\ told'[i] = Started(messenger, transport)
          /\ listens'[i]["messenger"] = p /\ listens'[i]["transport"] = q
      BY <1>1, <2>1 DEF Servers
    <2>5. told'[i] = "started" <=> \A s \in Servers : listens'[i][s] # NoPort
      BY <2>3, <2>4 DEF Servers
    <2>6. \A j \in Instances \ {i} : told'[j] = told[j] /\ listens'[j] = listens[j]
      BY <1>1, <2>1
    <2> QED BY <2>5, <2>6 DEF ReportIsTrue
  <1>5. ASSUME NEW i \in Instances, StopServers(i) \/ End(i) PROVE ReportIsTrue'
    BY <1>3, <1>5 DEF StopServers, End
  <1>6. ASSUME NEW i \in Instances,
               \/ Start(i) \/ OpenCert(i) \/ OpenKey(i) \/ WriteKey(i) \/ WriteCert(i)
               \/ LoadMessenger(i) \/ LoadTransport(i) \/ GenerateConnectionKey(i)
        PROVE  ReportIsTrue'
    BY <1>2, <1>6 DEF Start, OpenCert, OpenKey, WriteKey, WriteCert, LoadMessenger, LoadTransport,
                      Load, GenerateConnectionKey, servers
  <1>7. CASE UNCHANGED vars
    BY <1>2, <1>7 DEF vars, servers
  <1> QED BY <1>4, <1>5, <1>6, <1>7 DEF Next

----------------------------------------------------------------------------
(* The theorems.                                                           *)

LEMMA Invariance == Spec => []Inv
PROOF
  <1>1. Init => Inv
    BY TypesStart, FilesStart, PairStart, PortStart DEF Inv
  <1>2. Inv /\ [Next]_vars => Inv'
    BY TypeStep, FilesStep, PairStep, PortStep DEF Inv
  <1> QED BY <1>1, <1>2, PTL DEF Spec

(* Every state of the start-up and of the servers is well-formed; with it, *)
(* the ports stay within the range of a port number.                       *)
THEOREM ApplicationTypeCorrect == Spec => []TypeOK
PROOF
  <1>1. Inv => TypeOK
    BY DEF Inv
  <1> QED BY <1>1, Invariance, PTL

(* The servers of a running program use a certificate and a key of one     *)
(* pair, whatever earlier saves of saveCertificateToFile have left behind. *)
THEOREM CertificateFitsKey == Spec => []PairFits
PROOF
  <1>1. ASSUME Inv PROVE PairFits
    <2> SUFFICES ASSUME NEW i \in Instances, NEW s \in Servers, at[i] = "up", ~clash
                 PROVE  loaded[i][s].cert = loaded[i][s].key
      BY DEF PairFits
    <2>1. LoadedIs(i, s) /\ WholeFilesFit
      BY <1>1 DEF Inv, PairInv, LoadedAreFiles, IsAt
    <2> QED BY <2>1 DEF LoadedIs, WholeFilesFit
  <1> QED BY <1>1, Invariance, PTL

(* The certificate of a connection key is shown by every later server: no  *)
(* start replaces a pair that has been loaded once.                        *)
THEOREM HandedKeysStayGood == Spec => []KeysStayGood
PROOF
  <1>1. ASSUME Inv PROVE KeysStayGood
    <2> SUFFICES ASSUME NEW i \in Instances, NEW s \in Servers, at[i] = "up", handed # NoKey, ~clash
                 PROVE  loaded[i][s].cert = handed.print
      BY DEF KeysStayGood
    <2>1. LoadedIs(i, s) /\ handed.print = cert
      BY <1>1 DEF Inv, PairInv, LoadedAreFiles, IsAt, HandedIsFile
    <2> QED BY <2>1 DEF LoadedIs
  <1> QED BY <1>1, Invariance, PTL

(* The constructor of a server ends the program for want of a certificate  *)
(* only after a save was cut short or while one is going on, and not when  *)
(* neither file was left.                                                  *)
THEOREM RefusesOnlyWhenTorn == Spec => RefusesWhenTorn
PROOF
  <1>1. ASSUME Inv, NEW i \in Instances PROVE RefusalIsDue(i)
    <2> SUFFICES ASSUME Loading(i), cert \notin Pairs \/ key \notin Pairs
                 PROVE  /\ torn \/ \E j \in Instances : Generating(j)
                        /\ pair[i] = Absent /\ ~clash => ~({cert, key} \subseteq {Absent, Small})
      BY DEF RefusalIsDue
    <2>1. ASSUME ~torn, \A j \in Instances : ~Generating(j) PROVE FALSE
      <3>1. cert # Absent
        BY <1>1 DEF Loading, Inv, FilesInv, CertIsOpened
      <3>2. cert # Torn /\ key # Torn /\ cert # Small /\ key # Small /\ key # Absent
        BY <1>1, <2>1, <3>1 DEF Inv, FilesInv, FilesAreFilled, IsAt, Generating
      <3>3. cert \in Contents /\ key \in Contents
        BY <1>1, FieldTypes DEF Inv
      <3> QED BY <3>1, <3>2, <3>3 DEF Contents
    <2>2. ASSUME pair[i] = Absent, ~clash PROVE ~({cert, key} \subseteq {Absent, Small})
      BY <1>1, <2>2 DEF Inv, PairInv, OneFileExists, Exists
    <2> QED BY <2>1, <2>2
  <1>2. Inv => \A i \in Instances : RefusalIsDue(i)
    BY <1>1
  <1> QED BY <1>2, Invariance, PTL DEF RefusesWhenTorn

(* startServers reports that both servers were started if and only if both *)
(* listen.                                                                 *)
THEOREM StartServersTellsTheTruth == Spec => []ReportIsTrue
PROOF
  <1>1. Init => ReportIsTrue
    BY ReportStart
  <1>2. Inv /\ Inv' /\ ReportIsTrue /\ [Next]_vars => ReportIsTrue'
    BY ReportStep
  <1> QED BY <1>1, <1>2, Invariance, PTL DEF Spec

(* The ports a client reads of a connection key are those the servers      *)
(* listen on, for every width of a port number: a quint16, made a qint16   *)
(* and a quint16 again, is what it was.                                    *)
THEOREM KeyLeadsToTheServers == Spec => []KeyLeadsThere
PROOF
  <1>1. ASSUME Inv PROVE KeyLeadsThere
    <2> SUFFICES ASSUME NEW i \in Instances, told[i] = "started", handed # NoKey
                 PROVE  /\ TransportPort(handed) = listens[i]["transport"]
                        /\ listens[i]["messenger"] \in 1..(HalfRange - 1)
                             => MessengerPort(handed) = listens[i]["messenger"]
      BY DEF KeyLeadsThere
    <2>1. /\ handed.messenger = QUInt(setting["messenger"])
          /\ handed.transport = QUInt(setting["transport"])
      BY <1>1 DEF Inv, PortInv, KeyHasPorts, IsPortOf
    <2>2. at[i] = "up" /\ \A s \in Servers : listens[i][s] = port[i][s]
      BY <1>1 DEF Inv, PortInv, ToldIsOfUp, StartedListens, NotTold
    <2>3. \A s \in Servers : listens[i][s] = QUInt(setting[s])
      BY <1>1, <2>2 DEF Inv, PortInv, PortsAreSet, IsPortOf
    <2>4. /\ listens[i]["transport"] = handed.transport
          /\ listens[i]["messenger"] = handed.messenger
      BY <2>1, <2>3 DEF Servers
    <2>5. handed.transport \in Ports /\ handed.messenger \in Ports
      BY <1>1 DEF Inv, TypeOK
    <2>6. TransportPort(handed) = handed.transport
      BY <2>5, PortNumbers DEF TransportPort, QuickConnection
    <2>7. handed.messenger \in 1..(HalfRange - 1) => MessengerPort(handed) = handed.messenger
      <3> SUFFICES ASSUME handed.messenger \in 1..(HalfRange - 1)
                   PROVE  MessengerPort(handed) = handed.messenger
        OBVIOUS
      <3>1. handed.messenger < HalfRange /\ handed.messenger >= 0
        BY RangeAssumption
      <3>2. QInt(handed.messenger) = handed.messenger
        BY <2>5, <3>1, PortNumbers
      <3> QED BY <3>1, <3>2 DEF MessengerPort, QuickConnection
    <2> QED BY <2>4, <2>6, <2>7
  <1> QED BY <1>1, Invariance, PTL
=============================================================================
