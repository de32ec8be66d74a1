------------------------------- MODULE Config -------------------------------
(***************************************************************************)
(* The start of the server: main.run reads the environment with            *)
(* config.Load, which validates it, builds the client, and starts the      *)
(* transport, where server.runSSE reads the environment again.  A variable *)
(* that is unset or empty is {}, one that is set is a set of one.          *)
(***************************************************************************)
EXTENDS Integers, Sequences

CONSTANTS
    Second,         \* time.Second in the unit of time.Duration (10^9)
    Word,           \* how many values a time.Duration has (2^64)
    MinTimeoutSec,  \* 1
    MaxTimeoutSec,  \* 120
    Seconds,        \* bound: values of HELIXON_TIMEOUT_SECONDS
    NotANumber      \* a value of it that strconv.Atoi refuses

ASSUME TimeAssumption ==
    /\ Second \in Nat \ {0} /\ Word \in Nat \ {0} /\ Word % 2 = 0
    /\ MinTimeoutSec \in Nat \ {0} /\ MaxTimeoutSec \in Nat
    /\ MinTimeoutSec <= MaxTimeoutSec
    /\ MaxTimeoutSec * Second < Word \div 2
    /\ 30 \in MinTimeoutSec..MaxTimeoutSec         \* the default
ASSUME SecondsAssumption == Seconds \subseteq Int /\ NotANumber \notin Seconds

VARIABLES
    args,       \* what the command line asks for
    env,        \* the environment
    phase,      \* where main.run is
    cfg,        \* the Config, as a set of one or none
    addr,       \* the address the SSE server listens on, likewise
    endpoint    \* the address in the URL it gives its MCP clients, likewise

vars == <<args, env, phase, cfg, addr, endpoint>>

Maybe(S) == {{}} \union {{v} : v \in S}

(* The host of a URL: localhost in any case, addresses by class, a name.   *)
LoopbackHosts == {"localhost", "loopback4", "loopback6"}
Hosts == LoopbackHosts \union {"other4", "other6", "otherName", "none"}
Bracketed == {"loopback6", "other6"}

URLs == [parses: BOOLEAN, scheme: {"http", "https", "ftp"}, host: Hosts,
         port: BOOLEAN]

DefaultURL == [parses |-> TRUE, scheme |-> "http", host |-> "localhost", port |-> TRUE]

(* A listen address: host "" stands for every address of the machine.      *)
Address(host, port) == [host |-> host, port |-> port]

ListenAddresses == {Address("", 8080), Address("127.0.0.1", 8080)}

Environments ==
    [HELIXON_BASE_URL: Maybe(URLs),
     HELIXON_TIMEOUT_SECONDS: Maybe(Seconds \union {NotANumber}),
     HELIXON_ALLOW_NON_LOCALHOST: Maybe({"true", "TRUE"}),
     MCP_TRANSPORT: Maybe({"stdio", "sse", "grpc"}),
     MCP_SSE_ADDR: Maybe(ListenAddresses),
     LOG_LEVEL: Maybe({"debug", "trace"})]

-----------------------------------------------------------------------------
EnvOrDefault(v, default) == IF v = {} THEN default ELSE CHOOSE x \in v : TRUE

(* time.Duration(secs) * time.Second, an int64.                            *)
Duration(secs) ==
    LET d == (secs * Second) % Word IN IF d < Word \div 2 THEN d ELSE d - Word

(* extractHost: without a port net.SplitHostPort fails, and an IPv6        *)
(* address keeps its brackets.                                             *)
ExtractHost(u) == [name |-> u.host, brackets |-> u.host \in Bracketed /\ ~u.port]

Trim(host) == [host EXCEPT !.brackets = FALSE]
(* Variant: any IP address passes for loopback.                            *)
AnyAddress(host) == host.name \in LoopbackHosts \union {"other4", "other6"}
(* requireLocalhost: an IP that is loopback, or the name localhost, once   *)
(* the brackets are off.                                                   *)
IsLoopback(host) == host.name \in LoopbackHosts /\ ~host.brackets
RequireLocalhost(host) == IsLoopback(Trim(host))

(* u.Host is not empty: ":3000" passes for a host.                         *)
HasHost(u) == u.host # "none" \/ u.port

ValidateBaseURL(u, allow) ==
    /\ u.parses
    /\ u.scheme \in {"http", "https"}
    /\ HasHost(u)
    /\ allow \/ RequireLocalhost(ExtractHost(u))

(* The Config of an environment, before it is validated.                   *)
Parse(e) ==
    [baseURL   |-> EnvOrDefault(e.HELIXON_BASE_URL, DefaultURL),
     timeout   |-> Duration(EnvOrDefault(e.HELIXON_TIMEOUT_SECONDS, 30)),
     allow     |-> e.HELIXON_ALLOW_NON_LOCALHOST = {"true"},
     transport |-> EnvOrDefault(e.MCP_TRANSPORT, "stdio"),
     sseAddr   |-> EnvOrDefault(e.MCP_SSE_ADDR, Address("", 8080)),
     logLevel  |-> EnvOrDefault(e.LOG_LEVEL, "info")]

Validate(c) ==
    /\ ValidateBaseURL(c.baseURL, c.allow)
    /\ c.transport \in {"stdio", "sse"}
    /\ c.timeout >= MinTimeoutSec * Second
    /\ c.timeout <= MaxTimeoutSec * Second
    /\ c.logLevel \in {"debug", "info", "warn", "error"}

-----------------------------------------------------------------------------
Init ==
    /\ args \in {"none", "version", "help"}
    /\ env \in Environments
    /\ phase = "start"
    /\ cfg = {}
    /\ addr = {}
    /\ endpoint = {}

(* --version and --help come before the environment is read.               *)
PrintAndExit ==
    /\ phase = "start" /\ args # "none"
    /\ phase' = "exited"
    /\ UNCHANGED <<args, env, cfg, addr, endpoint>>

(* Load: a timeout that is no number is refused before validation.         *)
Load ==
    /\ phase = "start" /\ args = "none"
    /\ IF env.HELIXON_TIMEOUT_SECONDS # {NotANumber} /\ Validate(Parse(env))
       THEN phase' = "loaded" /\ cfg' = {Parse(env)}
       ELSE phase' = "refused" /\ UNCHANGED cfg
    /\ UNCHANGED <<args, env, addr, endpoint>>

(* The base URL of the SSE server: "http://localhost" and then the listen  *)
(* address, host and all.                                                  *)
Endpoint(a) == [a EXCEPT !.host = IF @ = "" THEN "localhost" ELSE "localhost" \o @]

(* The default of runSSE is not the one of Load.                           *)
OtherDefault == Address("", 9090)

(* Run by the transport; runSSE does not look at Config.SSEAddr.           *)
Run ==
    /\ phase = "loaded"
    /\ phase' = "serving"
    /\ \E a \in {EnvOrDefault(env.MCP_SSE_ADDR, OtherDefault)}, c \in cfg :
          \/ c.transport = "sse" /\ addr' = {a} /\ endpoint' = {Endpoint(a)}
          \/ c.transport # "sse" /\ UNCHANGED <<addr, endpoint>>
    /\ UNCHANGED <<args, env, cfg>>

Next == PrintAndExit \/ Load \/ Run

Spec == Init /\ [][Next]_vars

-----------------------------------------------------------------------------
Running == phase = "serving"

(* The documents' view of an environment (docs/configuration.md:9-17,      *)
(* README.md:128-133), without overflow and brackets.                      *)
InRange(v) == v = {} \/ \E s \in Seconds : v = {s} /\ MinTimeoutSec <= s /\ s <= MaxTimeoutSec
Documented(e) ==
    LET u == EnvOrDefault(e.HELIXON_BASE_URL, DefaultURL)
    IN  /\ u.parses /\ u.scheme \in {"http", "https"} /\ HasHost(u)
        /\ u.host \in LoopbackHosts \/ e.HELIXON_ALLOW_NON_LOCALHOST = {"true"}
        /\ e.MCP_TRANSPORT \in Maybe({"stdio", "sse"})
        /\ InRange(e.HELIXON_TIMEOUT_SECONDS)
        /\ e.LOG_LEVEL \in Maybe({"debug", "info", "warn", "error"})

(* No value of a timeout in the environment overflows.                     *)
NoOverflow == \A s \in Seconds : env.HELIXON_TIMEOUT_SECONDS = {s} =>
                 s * Second < Word \div 2 /\ s * Second >= -(Word \div 2)

(* The server starts exactly with the environments the documents allow,    *)
(* unless the timeout overflows: in particular with a loopback URL however *)
(* it is written, and with no other unless that is allowed                 *)
(* (config.go:52-161).                                                     *)
AcceptsDocumented ==
    (NoOverflow /\ args = "none") =>
        /\ phase \in {"loaded", "serving"} => Documented(env)
        /\ phase = "refused" => ~Documented(env)

(* docs/configuration.md:13, "Valid range: 1 to 120": a running server has *)
(* the timeout that the environment asks for, and it is in that range.     *)
TimeoutAsAsked ==
    Running => \A s \in Seconds : env.HELIXON_TIMEOUT_SECONDS = {s} =>
        s \in MinTimeoutSec..MaxTimeoutSec /\ \A c \in cfg : c.timeout = s * Second

(* docs/configuration.md:49-53, the SSE example, with a host in the listen *)
(* address: the URL an SSE server gives its clients names that host, or    *)
(* localhost when the server listens on every address.                     *)
EndpointIsServed ==
    \A a \in addr, e \in endpoint :
        e = Address(IF a.host = "" THEN "localhost" ELSE a.host, a.port)
=============================================================================
