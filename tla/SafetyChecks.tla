----------------------------- MODULE SafetyChecks -----------------------------
(***************************************************************************)
(* The checks of src/safety/safety.c that a tool makes before it acts: of the   *)
(* command of bash, of the URL of web_fetch and rest_api, and of every address   *)
(* these connect to.  Each behaviour is one request.                         *)
(*                                                                         *)
(* A command is a sequence of characters, of which "sp" is a blank and ";",     *)
(* "|", "&" and "lf" separate.  A host is an IPv4 address in digits, an IPv6     *)
(* literal of a class, or a name, its labels from the last to the first.        *)
(***************************************************************************)
EXTENDS Integers, Sequences, SequencesExt, FiniteSets

CONSTANTS Commands, Patterns,  \* commands and the patterns of refused ones
          Urls, DomainLists,   \* URLs, values of allowed_domains: sets of names
          Addresses            \* what a name resolves to
ASSUME ChecksAssumption == Commands \subseteq Seq(STRING) /\ \A p \in Patterns : p \in Seq(STRING) /\ p # <<>>

VARIABLES check  \* [kind, mode, network, domains, command, url, address, ok]

\* ---- commands: str_split, str_trim, check_segment, safety_check_command ----
Cuts(text, sep) == {0, Len(text) + 1} \cup {k \in DOMAIN text : text[k] = sep}
SplitAt(text, sep) ==
  {SubSeq(text, c[1] + 1, c[2] - 1) : c \in {d \in Cuts(text, sep) \X Cuts(text, sep) :
     d[1] < d[2] /\ ~\E k \in Cuts(text, sep) : d[1] < k /\ k < d[2]}}
Inked(text) == {k \in DOMAIN text : text[k] \notin {"sp", "lf"}}
Stripped(text) ==
  IF Inked(text) = {} THEN <<>>
  ELSE SubSeq(text, CHOOSE a \in Inked(text) : \A k \in Inked(text) : a <= k, CHOOSE b \in Inked(text) : \A k \in Inked(text) : b >= k)
Pieces(text, sep) == {Stripped(p) : p \in SplitAt(text, sep)} \ {<<>>}
Hits(text) == \E p \in Patterns : \E k \in 1 .. Len(text) + 1 - Len(p) : SubSeq(text, k, k + Len(p) - 1) = p
SegmentOk(text) == \A sep \in {"|", "&"} : \A p \in Pieces(text, sep) : ~Hits(p)
\* Mutant of CommandOk: the lines of a piece are not taken apart.
CommandOkLine(mode, text) ==
  mode = "unrestricted" \/ \A s \in Pieces(text, ";") : SegmentOk(SubSeq(s, 1, SelectInSeq(s \o <<"lf">>, LAMBDA c : c = "lf") - 1))
CommandOk(mode, text) == mode = "unrestricted" \/ \A s \in Pieces(text, ";") : \A l \in Pieces(s, "lf") : SegmentOk(l)

\* ---- URLs and addresses ----
V4(a, b) == [kind |-> "v4", a |-> a, b |-> b]
V6(class) == [kind |-> "v6", class |-> class]
PrivateHost(h) ==
  CASE h.kind = "v4" -> h.a \in {0, 10, 127} \/ (h.a = 169 /\ h.b = 254) \/ (h.a = 192 /\ h.b = 168) \/ (h.a = 172 /\ h.b \in 16 .. 31)
    [] h.kind = "v6" -> h.class \in {"loopback", "link-local", "unique-local"}
    [] OTHER -> h.labels[1] \in {"localhost"} \/ h.fcfd
Domain(h, d) == h.kind = "name" /\ IsPrefix(d, h.labels)
UrlOk(mode, network, domains, url) ==
  \/ mode = "unrestricted"
  \/ /\ network /\ url.scheme \in {"http", "https"} /\ ~url.user /\ ~PrivateHost(url.host)
     /\ domains = {} \/ \E d \in domains : Domain(url.host, d)
\* Mutant of PublicV4: the last /16 of 172.16/12 is forgotten.
PublicV4Short(a, b) ==
  ~(a \in {0, 10, 127} \/ a >= 224 \/ (a = 100 /\ b \in 64 .. 127) \/ (a = 169 /\ b = 254) \/ (a = 172 /\ b \in 16 .. 30)
    \/ (a = 192 /\ b \in {0, 168}) \/ (a = 198 /\ b \in {18, 19}))
PublicV4(a, b) ==
  ~(a \in {0, 10, 127} \/ a >= 224 \/ (a = 100 /\ b \in 64 .. 127) \/ (a = 169 /\ b = 254) \/ (a = 172 /\ b \in 16 .. 31)
    \/ (a = 192 /\ b \in {0, 168}) \/ (a = 198 /\ b \in {18, 19}))
SocketOk(mode, address) ==
  \/ mode = "unrestricted"
  \/ address.kind = "v4" /\ PublicV4(address.a, address.b)
  \/ address.kind = "v6" /\ address.class \notin {"unspecified", "loopback", "link-local", "multicast", "unique-local"}
       /\ (address.class = "mapped" => PublicV4(address.a, address.b))

NoCheck == [kind |-> "none"]
ChecksInit == check = NoCheck
Modes == {"restricted", "approve_all", "unrestricted"}
CheckCommand ==
  /\ check = NoCheck
  /\ \E mode \in Modes, c \in Commands : check' = [kind |-> "command", mode |-> mode, command |-> c, ok |-> CommandOk(mode, c)]
\* The host of a literal is its address; a redirect is not followed.
Fetch ==
  /\ check = NoCheck
  /\ \E mode \in Modes, network \in BOOLEAN, domains \in DomainLists, url \in Urls, a \in Addresses :
       LET address == IF url.host.kind = "name" THEN a ELSE url.host
       IN check' = [kind |-> "fetch", mode |-> mode, network |-> network, domains |-> domains, url |-> url,
                    address |-> address, ok |-> UrlOk(mode, network, domains, url) /\ SocketOk(mode, address)]
ChecksNext == CheckCommand \/ Fetch

(***************************************************************************)
(* Properties and claims.                                                   *)
(***************************************************************************)
Separators == {";", "|", "&", "lf"}
Plain(p) == Range(p) \cap Separators = {} /\ p[1] # "sp" /\ p[Len(p)] # "sp"
\* Taking a command apart changes nothing: one is refused just when a pattern
\* with no separator and no blank at its ends occurs in it, as it stands.
CutsChangeNothing ==
  check.kind = "command" /\ check.mode # "unrestricted" /\ (\A p \in Patterns : Plain(p)) => check.ok = ~Hits(check.command)
\* What is fetched is at an address that no private network uses, and of an
\* allowed domain if there are any; a literal that the check of the URL refuses
\* the check of its address refuses too.
FetchesInBounds ==
  check.kind = "fetch" /\ check.mode # "unrestricted" =>
    /\ check.ok => /\ check.network /\ ~PrivateHost(check.address)
                   /\ check.domains # {} => \E d \in check.domains : Domain(check.url.host, d)
    /\ check.url.host.kind # "name" /\ PrivateHost(check.url.host) => ~SocketOk(check.mode, check.url.host)
=============================================================================
