---------------------------- MODULE Application ----------------------------
(***************************************************************************)
(* The program from its start: Initialize makes the settings and the       *)
(* certificate, the two servers load them, startServers and stopServers let *)
(* them listen, and a connection key tells another user where.             *)
(*                                                                         *)
(* Nothing keeps the program from being started twice; both instances have *)
(* the same files and settings and want the same ports.  A certificate and *)
(* its private key are known by the number of the pair.  The directories,  *)
(* the host key, the address and the relay are left out.                   *)
(***************************************************************************)
EXTENDS Integers, FiniteSets

CONSTANTS Instances,     \* processes of the program
          MaxPairs,      \* bound on the pairs known at a time
          HalfRange,     \* a port number is below twice this, 2^15 for 16 bits
          PortSettings,  \* what the settings may hold at first
          DefaultPort    \* the default port of each server

Servers == {"messenger", "transport"}
Unset == -1
ASSUME PairsAssumption == MaxPairs \in Nat
ASSUME RangeAssumption == HalfRange \in Nat \ {0}
ASSUME PortsAssumption ==
  /\ PortSettings \subseteq Nat \cup {Unset}
  /\ DefaultPort \in [Servers -> Nat]

(* What a file has: nothing, too little to count, a part, or a whole PEM.  *)
Absent == 0
Small == -1
Torn == -2
Pairs == 1..MaxPairs
Contents == Pairs \cup {Absent, Small, Torn}
IsWhole(content) == content \in Pairs

(* The ports: a quint16 in the servers and in the key, a qint16 in the     *)
(* connection of the client.                                               *)
PortRange == 2 * HalfRange
Ports == 0..(PortRange - 1)
AnyPort == 0
NoPort == -1
Unbounded(n) == n                                                  \* mutant
QUInt(n) == n % PortRange
QInt(n) == LET u == QUInt(n) IN IF u < HalfRange THEN u ELSE u - PortRange

NotTold == "not told"
NoKey == [messenger |-> AnyPort, transport |-> AnyPort, print |-> Absent]
Nowhere == [s \in Servers |-> NoPort]
NotLoaded == [s \in Servers |-> [cert |-> Absent, key |-> Absent]]

VARIABLES
  setting,  \* the settings' ports
  cert,     \* server_cert.crt
  key,      \* server_key.key
  at,       \* at[i]: what instance i does next
  pair,     \* pair[i]: the pair it has generated in this start
  loaded,   \* loaded[i][s]: what server s uses
  port,     \* port[i][s]: m_port
  listens,  \* listens[i][s]: the port it listens on
  told,     \* told[i]: what startServers has returned
  handed,   \* the connection key handed out last
  torn,     \* history: a save was cut short or failed
  clash     \* history: two instances made a pair at the same time

files == <<cert, key, torn, clash>>
servers == <<loaded, port, listens, told, handed>>
vars == <<setting, files, at, pair, servers>>

Init ==
  /\ setting \in [Servers -> PortSettings]
  /\ cert = Absent /\ key = Absent
  /\ at = [i \in Instances |-> "down"]
  /\ pair = [i \in Instances |-> Absent]
  /\ loaded = [i \in Instances |-> NotLoaded]
  /\ port = [i \in Instances |-> Nowhere]
  /\ listens = [i \in Instances |-> Nowhere]
  /\ told = [i \in Instances |-> NotTold]
  /\ handed = NoKey
  /\ torn = FALSE /\ clash = FALSE

Generating(i) == at[i] \in {"open cert", "open key", "write key", "write cert"}
Loading(i) == at[i] \in {"load messenger", "load transport"}

----------------------------------------------------------------------------
(* initializeSettings.                                                     *)
InitializeSettings ==
  setting' = [s \in Servers |-> IF setting[s] = Unset THEN DefaultPort[s] ELSE setting[s]]

ExistsAtAll(content) == content # Absent                           \* mutant
Exists(content) == content \notin {Absent, Small}

NotAsked == TRUE                                                   \* mutant
MissesBoth == ~Exists(cert) /\ ~Exists(key)

(* The pairs that are somewhere; a new one is none of them.                *)
Known ==
  {cert, key, handed.print} \cup {pair[i] : i \in Instances}
    \cup UNION {{loaded[i][s].cert, loaded[i][s].key} : i \in Instances, s \in Servers}

(* generateSelfSignedEcdsaCertificate, as far as the pair.                 *)
GeneratePair(i) ==
  \E n \in Pairs \ Known :
    /\ \A m \in Pairs \ Known : n <= m
    /\ pair' = [pair EXCEPT ![i] = n]

RepairKey(i) ==                                                    \* mutant
  /\ at[i] = "down"
  /\ InitializeSettings
  /\ IF ~Exists(key)
     THEN /\ GeneratePair(i)
          /\ at' = [at EXCEPT ![i] = IF Exists(cert) THEN "open key" ELSE "open cert"]
          /\ clash' = (clash \/ \E j \in Instances : Generating(j))
     ELSE /\ at' = [at EXCEPT ![i] = "load messenger"]
          /\ pair' = [pair EXCEPT ![i] = Absent]
          /\ UNCHANGED clash
  /\ UNCHANGED <<cert, key, torn, servers>>

(* The program starts: Initialize, as far as the decision of generateCerts.*)
Start(i) ==
  /\ at[i] = "down"
  /\ InitializeSettings
  /\ IF MissesBoth
     THEN /\ GeneratePair(i)
          /\ at' = [at EXCEPT ![i] = "open cert"]
          /\ clash' = (clash \/ \E j \in Instances : Generating(j))
     ELSE /\ at' = [at EXCEPT ![i] = "load messenger"]
          /\ pair' = [pair EXCEPT ![i] = Absent]
          /\ UNCHANGED clash
  /\ UNCHANGED <<cert, key, torn, servers>>

(* A write of a file's buffer: all of it, or as much as there is room for. *)
Written(i) == {pair[i], Torn, Small}
Fails(i) == /\ at' = [at EXCEPT ![i] = "down"]
            /\ pair' = [pair EXCEPT ![i] = Absent]
            /\ torn' = TRUE

(* saveCertificateToFile.  What it writes is in the files' buffers until   *)
(* they are closed on return, the key first; a write that fails there is   *)
(* not noticed.                                                            *)
OpenCert(i) ==
  /\ at[i] = "open cert"
  /\ \/ /\ cert' = Small
        /\ at' = [at EXCEPT ![i] = "open key"]
        /\ UNCHANGED <<torn, pair>>
     \/ Fails(i) /\ UNCHANGED cert
  /\ UNCHANGED <<setting, key, clash, servers>>

OpenKey(i) ==
  /\ at[i] = "open key"
  /\ \/ /\ key' = Small
        /\ at' = [at EXCEPT ![i] = "write key"]
        /\ UNCHANGED <<cert, torn, pair>>
     \/ /\ Fails(i)
        /\ cert' \in Written(i)
        /\ UNCHANGED key
  /\ UNCHANGED <<setting, clash, servers>>

WriteKey(i) ==
  /\ at[i] = "write key"
  /\ key' \in Written(i)
  /\ torn' = (torn \/ key' # pair[i])
  /\ at' = [at EXCEPT ![i] = "write cert"]
  /\ UNCHANGED <<setting, cert, clash, pair, servers>>

WriteCert(i) ==
  /\ at[i] = "write cert"
  /\ cert' \in Written(i)
  /\ torn' = (torn \/ cert' # pair[i])
  /\ at' = [at EXCEPT ![i] = "load messenger"]
  /\ UNCHANGED <<setting, key, clash, pair, servers>>

(* The constructor of a server, which ends the program when the certificate*)
(* or the key cannot be read.                                              *)
Load(i, s, next) ==
  /\ IF IsWhole(cert) /\ IsWhole(key)
     THEN /\ loaded' = [loaded EXCEPT ![i][s] = [cert |-> cert, key |-> key]]
          /\ port' = [port EXCEPT ![i][s] = QUInt(setting[s])]
          /\ at' = [at EXCEPT ![i] = next]
     ELSE /\ at' = [at EXCEPT ![i] = "down"]
          /\ loaded' = [loaded EXCEPT ![i] = NotLoaded]
          /\ port' = [port EXCEPT ![i] = Nowhere]
  /\ pair' = [pair EXCEPT ![i] = Absent]
  /\ UNCHANGED <<setting, files, listens, told, handed>>

LoadMessenger(i) == at[i] = "load messenger" /\ Load(i, "messenger", "load transport")
LoadTransport(i) == at[i] = "load transport" /\ Load(i, "transport", "up")

(* The process ends, in whatever it does; the destructor of Server stops   *)
(* the servers.                                                            *)
End(i) ==
  /\ at[i] # "down"
  /\ at' = [at EXCEPT ![i] = "down"]
  /\ torn' = (torn \/ Generating(i))
  /\ listens' = [listens EXCEPT ![i] = Nowhere]
  /\ told' = [told EXCEPT ![i] = NotTold]
  /\ loaded' = [loaded EXCEPT ![i] = NotLoaded]
  /\ port' = [port EXCEPT ![i] = Nowhere]
  /\ pair' = [pair EXCEPT ![i] = Absent]
  /\ UNCHANGED <<setting, cert, key, clash, handed>>

----------------------------------------------------------------------------
(* listen(): the port is free, or the system may choose one.               *)
Free(i, s, inUse) == port[i][s] = AnyPort \/ port[i][s] \notin inUse
InUse == {listens[j][s] : j \in Instances, s \in Servers}

OneIsEnough(messenger, transport) ==                               \* mutant
  IF messenger \/ transport THEN "started" ELSE "error"
Started(messenger, transport) == IF messenger /\ transport THEN "started" ELSE "error"

(* startServers: the transport is started also when the messenger has      *)
(* failed, and a server that has started stays so.  The user's switch calls*)
(* startServers and stopServers by turns.                                  *)
StartServers(i) ==
  LET messenger == Free(i, "messenger", InUse)
      transport == Free(i, "transport", IF messenger THEN InUse \cup {port[i]["messenger"]}
                                                     ELSE InUse)
  IN /\ at[i] = "up" /\ told[i] = NotTold
     /\ listens' = [listens EXCEPT
                     ![i]["messenger"] = IF messenger THEN port[i]["messenger"] ELSE NoPort,
                     ![i]["transport"] = IF transport THEN port[i]["transport"] ELSE NoPort]
     /\ told' = [told EXCEPT ![i] = Started(messenger, transport)]
     /\ UNCHANGED <<setting, files, at, pair, loaded, port, handed>>

StopServers(i) ==
  /\ at[i] = "up" /\ told[i] # NotTold
  /\ listens' = [listens EXCEPT ![i] = Nowhere]
  /\ told' = [told EXCEPT ![i] = NotTold]
  /\ UNCHANGED <<setting, files, at, pair, loaded, port, handed>>

SwappedPorts(i) ==                                                 \* mutant
  [messenger |-> port[i]["transport"], transport |-> port[i]["messenger"], print |-> cert]
(* createConnectionKey, which takes the fingerprint from the file.         *)
CreateConnectionKey(i) ==
  [messenger |-> port[i]["messenger"], transport |-> port[i]["transport"], print |-> cert]
GenerateConnectionKey(i) ==
  /\ at[i] = "up"
  /\ handed' = CreateConnectionKey(i)
  /\ UNCHANGED <<setting, files, at, pair, loaded, port, listens, told>>

Next ==
  \E i \in Instances :
    \/ Start(i) \/ OpenCert(i) \/ OpenKey(i) \/ WriteKey(i) \/ WriteCert(i)
    \/ LoadMessenger(i) \/ LoadTransport(i) \/ End(i)
    \/ StartServers(i) \/ StopServers(i) \/ GenerateConnectionKey(i)

Spec == Init /\ [][Next]_vars

----------------------------------------------------------------------------
(* The client: parseConnectionKey and addQuickConnection, and where the    *)
(* connection's transport and messenger then look for the server.  The     *)
(* transport's port is made a quint16 again; the messenger's is written    *)
(* into an address, which is no address when it is negative.               *)
QuickConnection(k) == [messenger |-> QInt(k.messenger), transport |-> QInt(k.transport)]
TransportPort(k) == QUInt(QuickConnection(k).transport)
MessengerPort(k) ==
  LET p == QuickConnection(k).messenger IN IF p >= 0 THEN p ELSE NoPort

(* Type invariant.                                                         *)
TypeOK ==
  /\ setting \in [Servers -> PortSettings \cup {DefaultPort[s] : s \in Servers}]
  /\ cert \in Contents /\ key \in Contents
  /\ at \in [Instances -> {"down", "open cert", "open key", "write key", "write cert",
                           "load messenger", "load transport", "up"}]
  /\ pair \in [Instances -> Pairs \cup {Absent}]
  /\ loaded \in [Instances -> [Servers -> [cert : Contents, key : Contents]]]
  /\ port \in [Instances -> [Servers -> Ports \cup {NoPort}]]
  /\ listens \in [Instances -> [Servers -> Ports \cup {NoPort}]]
  /\ told \in [Instances -> {NotTold, "started", "error"}]
  /\ handed \in [messenger : Ports, transport : Ports, print : Contents]
  /\ torn \in BOOLEAN /\ clash \in BOOLEAN

(* The servers use a certificate and a key that belong together, after     *)
(* whatever was cut short before, unless two instances made them at once.  *)
PairFits ==
  \A i \in Instances, s \in Servers :
    at[i] = "up" /\ ~clash => loaded[i][s].cert = loaded[i][s].key

(* A connection key stays good: whichever instance is up later, its servers*)
(* show the certificate whose fingerprint was handed out, unless two made  *)
(* one at once.                                                            *)
KeysStayGood ==
  \A i \in Instances, s \in Servers :
    at[i] = "up" /\ handed # NoKey /\ ~clash => loaded[i][s].cert = handed.print

(* The program refuses to start only when a save was cut short or failed,  *)
(* or is going on in another instance, and the next time only when one of  *)
(* the two files was left: with neither written it makes a new pair.       *)
RefusalIsDue(i) ==
  Loading(i) /\ at'[i] = "down" /\ (cert \notin Pairs \/ key \notin Pairs)
    => /\ torn \/ \E j \in Instances : Generating(j)
       /\ pair[i] = Absent /\ ~clash => ~({cert, key} \subseteq {Absent, Small})
RefusesWhenTorn == [][\A i \in Instances : RefusalIsDue(i)]_vars

(* startServers tells the truth, for as long as the user does not switch:  *)
(* both servers listen if and only if it said so.                          *)
ReportIsTrue ==
  \A i \in Instances :
    told[i] # NotTold => (told[i] = "started" <=> \A s \in Servers : listens[i][s] # NoPort)

(* A key leads to the ports the servers listen on, through every width and *)
(* sign the number has on its way; a messenger's port from half the range  *)
(* on does not survive, and a port that the system chose is not told.      *)
KeyLeadsThere ==
  \A i \in Instances :
    told[i] = "started" /\ handed # NoKey
      => /\ listens[i]["transport"] # AnyPort => TransportPort(handed) = listens[i]["transport"]
         /\ listens[i]["messenger"] \in 1..(HalfRange - 1)
              => MessengerPort(handed) = listens[i]["messenger"]
=============================================================================
