------------------------------ MODULE OscScanner ------------------------------
(***************************************************************************)
(* The scanner of tiny-ssh-cli/src/term.rs that looks for OSC 7 and OSC    *)
(* 133 in the output of the remote, beside the terminal emulator and one   *)
(* byte at a time, so that the boundaries of the chunks do not matter, and *)
(* the decoding of the directory in an OSC 7.                              *)
(*                                                                         *)
(* The stream is made of units a terminal understands.  Bytes are opaque,  *)
(* but for being ASCII or not; the prefixes of payloads and URLs count as  *)
(* one byte each, and two bytes stand for any character beyond ASCII.      *)
(***************************************************************************)
EXTENDS SequencesExt

CONSTANTS
    OSC_PAYLOAD_CAP,
    Bytes,          \* what streams are made of
    HexValue,       \* the byte of a pair of hex digits
    Latin1,         \* the character Unicode has for each byte beyond ASCII
    Wide,           \* the pairs of bytes that are a character of UTF-8
    Directories,    \* directories, as bytes, with the URL that reports them
    Params,         \* what may follow the letter of a marker
    Noise,          \* the payloads of OSCs that report nothing
    LoneEscapes,    \* the units of an ESC and the byte that ends it
    MaxUnits        \* bound: units in the stream

ASSUME CapAssumption == OSC_PAYLOAD_CAP \in Nat \ {0, 1}
ASSUME UnitsAssumption == MaxUnits \in Nat

VARIABLES
    state,          \* ScanState
    payload,
    out,            \* pending_osc: the events found
    stream,         \* what is left of the unit being received
    expected,       \* the events of the units received so far
    bare,           \* how many bare ESCs came last: "none", "odd" or "even"
    nUnits

vars == <<state, payload, out, stream, expected, bare, nUnits>>

Esc == "ESC"
Bel == "BEL"
Prompt == "133;"
CwdPrefix == "7;"
FilePrefix == "file://"

(* OscEvent: a marker by its letter, a directory as its bytes. *)
Marker == [A |-> <<"prompt_start">>, B |-> <<"prompt_end">>,
           C |-> <<"command_start">>, D |-> <<"command_end">>]

(* What a payload may hold. *)
PayloadByte == Bytes \ {Esc, Bel}

ASSUME BytesAssumption ==
    {Esc, Bel, "]", "\\", "x", Prompt, CwdPrefix} \cup DOMAIN Marker \subseteq Bytes
ASSUME StreamAssumption ==
    /\ \A d \in Directories : d.url \in Seq(PayloadByte)
    /\ Params \cup Noise \subseteq Seq(PayloadByte)
    /\ LoneEscapes \subseteq {<<Esc, b>> : b \in Bytes \ {"]", Esc}}

(* What a path may hold, and how a shell spells it in a URL: a byte stands  *)
(* for itself or is written as % and two hex digits.                        *)
PathByte == PayloadByte \cup {HexValue[h] : h \in DOMAIN HexValue}

ASSUME HexAssumption ==
    \A h \in DOMAIN HexValue : h[1] # "%" /\ h = <<h[1], h[2]>>

(* char::from: a byte beyond ASCII becomes the character with its number,   *)
(* whatever character it is a part of.                                      *)
CharFrom(b) == IF b \in DOMAIN Latin1 THEN Latin1[b] ELSE b

(* A path, one character for each of its bytes.                             *)
Read(path) == [i \in DOMAIN path |-> CharFrom(path[i])]

ASSUME LatinAssumption ==
    /\ \A b \in DOMAIN Latin1 : Latin1[b] # b
    /\ \A a, b \in PathByte : CharFrom(a) = CharFrom(b) => a = b
    /\ \A l \in DOMAIN Marker : Marker[l][1] \notin DOMAIN Latin1

(* str::from_utf8: every byte beyond ASCII is half of a character.          *)
IsText(url) ==
    \A i \in 1..Len(url) : url[i] \in DOMAIN Latin1 =>
        \/ i < Len(url) /\ <<url[i], url[i + 1]>> \in Wide
        \/ i > 1 /\ <<url[i - 1], url[i]>> \in Wide

Piece(part, s, t, c) ==
    \/ t = s + 1 /\ part[t] = c /\ c # "%"
    \/ /\ t = s + 3 /\ part[s + 1] = "%"
       /\ <<part[s + 2], part[t]>> \in DOMAIN HexValue
       /\ c = HexValue[<<part[s + 2], part[t]>>]

(* The first k bytes spell the path; its i-th byte ends at cut[i].          *)
Spells(part, k, path) ==
    \E cut \in [0..Len(path) -> 0..k] :
        /\ cut[0] = 0 /\ cut[Len(path)] = k
        /\ \A i \in 1..Len(path) : Piece(part, cut[i - 1], cut[i], path[i])

(* The path of a URL begins behind its n-th byte. *)
Host(url, n) ==
    IF url # <<>> /\ url[1] = FilePrefix
    THEN /\ n \in 1..(Len(url) - 1) /\ url[n + 1] = "/"
         /\ \A i \in 1..n : url[i] # "/"
    ELSE n = 0

Names(url, path) ==
    /\ path # <<>> /\ IsText(url)
    /\ \E n \in 0..Len(url) :
          Host(url, n) /\ Spells(SubSeq(url, n + 1, Len(url)), Len(url) - n, path)

(* What the cap leaves of a payload. *)
Kept(p) == IF Len(p) <= OSC_PAYLOAD_CAP THEN p ELSE SubSeq(p, 1, OSC_PAYLOAD_CAP)

(* A payload that is neither a marker nor names a directory. *)
Silent(p) ==
    /\ p # <<>> /\ p[1] = Prompt => Len(p) = 1 \/ p[2] \notin DOMAIN Marker
    /\ p # <<>> /\ p[1] = CwdPrefix =>
          \A n \in 0..(Len(p) - 1) : \A path \in [1..n -> PathByte] : ~Names(Tail(p), path)

ASSUME PayloadsAssumption ==
    /\ \A d \in Directories : /\ d.path \in Seq(PathByte) /\ Names(d.url, d.path)
                             /\ Len(d.url) < OSC_PAYLOAD_CAP
    /\ \A p \in Noise : Silent(Kept(p))

(* What the remote reports, and what App is told of it.                     *)
SentEvents == {Marker[l] : l \in DOMAIN Marker} \cup {d.path : d \in Directories}
Events == {Read(e) : e \in SentEvents}

Reported(events) == [i \in DOMAIN events |-> Read(events[i])]

-----------------------------------------------------------------------------
(* dispatch, and parse_file_url. *)

(* The path of a URL: what follows the host, all of it if there is none.    *)
PathPart(url) ==
    IF url # <<>> /\ url[1] = FilePrefix
    THEN LET slash == SelectInSeq(url, LAMBDA b : b = "/")
         IN  IF slash = 0 THEN <<>> ELSE SubSeq(url, slash, Len(url))
    ELSE url

(* Faulty variant: an escape that is not hexadecimal decodes to its %. *)
DecodeStepLax(st, b) ==
    IF st.esc = <<>>
    THEN IF b = "%" THEN [st EXCEPT !.esc = <<b>>]
         ELSE [st EXCEPT !.path = Append(@, CharFrom(b))]
    ELSE IF Len(st.esc) = 1 THEN [st EXCEPT !.esc = Append(@, b)]
    ELSE IF <<st.esc[2], b>> \in DOMAIN HexValue
    THEN [esc |-> <<>>,
          path |-> Append(st.path, CharFrom(HexValue[<<st.esc[2], b>>]))]
    ELSE [esc |-> <<>>, path |-> Append(st.path, "%")]

(* The percent-decoding, byte by byte, which makes a character of each      *)
(* byte; an escape that is no pair of hex digits never completes, and       *)
(* leaves the URL without a path.                                           *)
DecodeStep(st, b) ==
    IF st.esc = <<>>
    THEN IF b = "%" THEN [st EXCEPT !.esc = <<b>>]
         ELSE [st EXCEPT !.path = Append(@, CharFrom(b))]
    ELSE IF Len(st.esc) = 1 THEN [st EXCEPT !.esc = Append(@, b)]
    ELSE IF <<st.esc[2], b>> \in DOMAIN HexValue
    THEN [esc |-> <<>>,
          path |-> Append(st.path, CharFrom(HexValue[<<st.esc[2], b>>]))]
    ELSE [st EXCEPT !.esc = <<"%", "%">>]

Decoded(part) ==
    LET st[i \in 0..Len(part)] ==
            IF i = 0 THEN [path |-> <<>>, esc |-> <<>>]
                     ELSE DecodeStep(st[i - 1], part[i])
    IN  st[Len(part)]

Directory(url) ==
    LET st == Decoded(PathPart(url))
    IN  IF IsText(url) /\ st.esc = <<>> /\ st.path # <<>>
        THEN <<st.path>> ELSE <<>>

(* The events of a payload: a marker ignores what follows its letter, a     *)
(* directory is all that follows it, other OSCs have none.                  *)
Dispatched(p) ==
    IF p = <<>> THEN <<>>
    ELSE IF p[1] = CwdPrefix THEN Directory(Tail(p))
    ELSE IF p[1] = Prompt /\ Len(p) > 1 /\ p[2] \in DOMAIN Marker
         THEN <<Marker[p[2]]>>
    ELSE <<>>

Init ==
    /\ state = "Plain" /\ payload = <<>> /\ out = <<>>
    /\ stream = <<>> /\ expected = <<>> /\ bare = "none" /\ nUnits = 0

(* The remote sends a unit (external).  Behind a bare ESC the next unit     *)
(* begins with an ESC, or the two would be one.                             *)
Receive(bytes, events, escs) ==
    /\ stream = <<>>
    /\ nUnits < MaxUnits
    /\ nUnits' = nUnits + 1
    /\ stream' = bytes
    /\ expected' = expected \o events
    /\ bare' = escs
    /\ UNCHANGED <<state, payload, out>>

Text ==
    /\ bare = "none"
    /\ \E b \in {Bel, "]", "\\", "x"} : Receive(<<b>>, <<>>, "none")
Escape == \E u \in LoneEscapes : Receive(u, <<>>, "none")
BareEscape == Receive(<<Esc>>, <<>>, IF bare = "odd" THEN "even" ELSE "odd")

(* The scanner takes the ESC of an OSC for the byte that ends a bare ESC    *)
(* before it, and misses the OSC: its events are not expected.              *)
Heard(events) == IF bare = "odd" THEN <<>> ELSE events

Osc(p, events) ==
    \E end \in {<<Bel>>, <<Esc, "\\">>} :
        Receive(<<Esc, "]">> \o p \o end, Heard(events), "none")

OscMarker == \E l \in DOMAIN Marker, rest \in Params :
                Osc(<<Prompt, l>> \o rest, <<Marker[l]>>)
OscDirectory == \E d \in Directories : Osc(<<CwdPrefix>> \o d.url, <<d.path>>)
OscNoise == \E p \in Noise : Osc(p, <<>>)

-----------------------------------------------------------------------------
(* scan(): one byte. *)

Scan(from, to, newPayload, found) ==
    /\ state = from
    /\ state' = to
    /\ payload' = newPayload
    /\ out' = out \o found
    /\ stream' = Tail(stream)
    /\ UNCHANGED <<expected, bare, nUnits>>

ScanPlain(b) == Scan("Plain", IF b = Esc THEN "Esc" ELSE "Plain", payload, <<>>)

ScanEsc(b) ==
    \/ b = "]" /\ Scan("Esc", "InOsc", <<>>, <<>>)
    \/ b # "]" /\ Scan("Esc", "Plain", payload, <<>>)

(* Faulty variant: the cap admits one byte too many. *)
ScanInOscOverCap(b) ==
    \/ b = Bel /\ Scan("InOsc", "Plain", <<>>, Dispatched(payload))
    \/ b = Esc /\ Scan("InOsc", "OscMaybeSt", payload, <<>>)
    \/ /\ b \notin {Bel, Esc}
       /\ Scan("InOsc", "InOsc",
               IF Len(payload) <= OSC_PAYLOAD_CAP THEN Append(payload, b)
                                                  ELSE payload, <<>>)

ScanInOsc(b) ==
    \/ b = Bel /\ Scan("InOsc", "Plain", <<>>, Dispatched(payload))
    \/ b = Esc /\ Scan("InOsc", "OscMaybeSt", payload, <<>>)
    \/ /\ b \notin {Bel, Esc}
       /\ Scan("InOsc", "InOsc",
               IF Len(payload) < OSC_PAYLOAD_CAP THEN Append(payload, b)
                                                 ELSE payload, <<>>)

(* Faulty variant: the string terminator is not recognised. *)
ScanMaybeStDeaf(b) == Scan("OscMaybeSt", "Plain", <<>>, <<>>)

ScanMaybeSt(b) ==
    Scan("OscMaybeSt", "Plain", <<>>,
         IF b = "\\" THEN Dispatched(payload) ELSE <<>>)

ScanByte ==
    /\ stream # <<>>
    /\ LET b == Head(stream)
       IN  ScanPlain(b) \/ ScanEsc(b) \/ ScanInOsc(b) \/ ScanMaybeSt(b)

Next ==
    \/ Text \/ Escape \/ BareEscape
    \/ OscMarker \/ OscDirectory \/ OscNoise
    \/ ScanByte

(* scan() goes on to the end of what it is fed. *)
Spec == Init /\ [][Next]_vars /\ WF_vars(ScanByte)

-----------------------------------------------------------------------------
(* Properties. *)

(* Type invariant; the payload never outgrows its cap, whatever the remote  *)
(* sends (term.rs:150, 179).                                                *)
TypeOK ==
    /\ state \in {"Plain", "Esc", "InOsc", "OscMaybeSt"}
    /\ payload \in Seq(PayloadByte) /\ Len(payload) <= OSC_PAYLOAD_CAP
    /\ stream \in Seq(Bytes)
    /\ bare \in {"none", "odd", "even"}
    /\ nUnits \in 0..MaxUnits

(* Between two units, the events found are those of the OSCs received, in   *)
(* order, with either terminator, after any text and any escape, with       *)
(* directories decoded and malformed ones left out (term.rs:133-241), with  *)
(* two exceptions.  An OSC right behind a bare ESC is missed (Heard),       *)
(* although a test says that a lone ESC does not keep a real OSC after it   *)
(* from being recognised (term.rs:344-345).  And a directory whose name is  *)
(* not all ASCII is reported under another name (Read): char::from makes a  *)
(* character of each of its bytes (term.rs:231, 233).                       *)
Recognised == stream = <<>> => out = Reported(expected)

(* The scanner implements OscMarkers: an event is never found before it is  *)
(* sent, out of turn or twice, and every one is found in the end.           *)
Markers == INSTANCE OscMarkers WITH
    Events <- Events, sent <- Reported(expected), seen <- out
MarkersSpec == Markers!Spec
=============================================================================
