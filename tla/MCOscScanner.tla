---------------------------- MODULE MCOscScanner ----------------------------
(* Instances of OscScanner for TLC: a cap of eight bytes, which the longest *)
(* directory just fits and markers and titles may exceed.  0xC3 0xA9 is a   *)
(* character of two bytes, 0xFF is in no text.                              *)
EXTENDS OscScanner

MCBytes == {Esc, Bel, "]", "\\", "x", "/", "%", "2", "0", "3", "9",
            "A", "B", "C", "D", "0xC3", "0xA9", "0xFF",
            Prompt, CwdPrefix, FilePrefix}
MCHexValue == [p \in {<<"2", "0">>, <<"C", "3">>, <<"A", "9">>} |->
                 CASE p = <<"2", "0">> -> " "
                   [] p = <<"C", "3">> -> "0xC3"
                   [] p = <<"A", "9">> -> "0xA9"]
MCLatin1 == [b \in {"0xC3", "0xA9", "0xFF"} |->
               CASE b = "0xC3" -> "A tilde"
                 [] b = "0xA9" -> "copyright"
                 [] b = "0xFF" -> "y diaeresis"]
MCWide == {<<"0xC3", "0xA9">>}

MCDirectories == {
    [path |-> <<"/">>, url |-> <<FilePrefix, "/">>],
    [path |-> <<"/">>, url |-> <<FilePrefix, "x", "/">>],
    [path |-> <<"/", "x">>, url |-> <<"/", "x">>],
    [path |-> <<"/", " ">>, url |-> <<FilePrefix, "/", "%", "2", "0">>],
    [path |-> <<"/", "0xC3", "0xA9">>, url |-> <<"/", "0xC3", "0xA9">>],
    [path |-> <<"/", "0xC3", "0xA9">>,
     url |-> <<"/", "%", "C", "3", "%", "A", "9">>]}

MCParams == {<<>>, <<"x", "]", "x", "x", "x", "x", "x">>}

(* Other OSCs, a marker of no kind, an empty directory, a URL without a     *)
(* path, escapes cut short or not hexadecimal, and bytes that are no text:  *)
(* one that never is, and a character cut in two.                           *)
MCNoise == {<<>>, <<"x", "\\", "x", "x", "x", "x", "x", "x", "x">>, <<Prompt>>,
            <<Prompt, "x">>, <<CwdPrefix>>, <<CwdPrefix, FilePrefix, "x">>,
            <<CwdPrefix, "/", "%", "2">>, <<CwdPrefix, "%", "x", "0">>,
            <<CwdPrefix, "/", "0xFF">>, <<CwdPrefix, "/", "0xC3">>}

TwoByteEscapes == {<<Esc, "x">>, <<Esc, "\\">>, <<Esc, Bel>>}
=============================================================================
