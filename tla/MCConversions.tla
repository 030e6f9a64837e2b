--------------------------- MODULE MCConversions ---------------------------
(***************************************************************************)
(* Numbers of 5 bits, hbars of 100 tinybars, milliseconds of 10            *)
(* nanoseconds, ten of them in a second; every amount up to a few times    *)
(* the largest safe integer, every timestamp of up to 3 seconds written    *)
(* with up to 3 digits, and paths of one or two names with up to three     *)
(* tokens more: slashes and null bytes.  Bytes of four bits, up to four of *)
(* them: base64 then ends in no, one and two pads, behind none and behind  *)
(* one full group; and base64 with fewer and more pads than it should      *)
(* have.  Identifiers of every shape, good and bad.  Every method of the   *)
(* client and every tool, with ids that contain what a path would choke    *)
(* on and parameters of every kind, and every field that an answer holds.  *)
(***************************************************************************)
EXTENDS ClientCalls

MCAmounts == -260 .. 260

MCDecimals(wholes, signs) ==
  {d \in [neg : signs, whole : wholes, frac : 0 .. 999, places : 0 .. 3] :
     d.frac < Power(10, d.places)}

MCHbars == MCDecimals(0 .. 1, BOOLEAN)
MCTimeStrings == {d \in MCDecimals(0 .. 2, {FALSE}) : d.frac % 7 < 3}
MCDates == -25 .. 25
MCEarliestDate == -60

\* Clean paths, and all that one, two and three tokens more make of them.
MCPaths ==
  LET cleaned == {<<"/", "a">>, <<"/", "a", "/", "b">>, <<"https", ":", "/", "/", "host", "/", "a">>}
      spelled[n \in 0 .. 3] ==
        IF n = 0 THEN {<<path>> : path \in cleaned}
        ELSE UNION {{Append(s, path) : path \in Respellings(Last(s))} : s \in spelled[n - 1]}
  IN UNION {spelled[n] : n \in 0 .. 3}

MCByteStrings ==
  UNION {[1 .. n -> 0 .. 15] : n \in 0 .. 2} \cup [1 .. 3 -> {0, 3, 6, 9, 15}]
    \cup [1 .. 4 -> {1, 10, 12}]

Spelling(spelling, stands) == [spelling |-> spelling, meant |-> stands]

MCHexSpellings ==
  {Spelling([BytesToHex(bytes) EXCEPT !.prefix = prefix], bytes) :
     prefix \in {"", "0x", "0X"}, bytes \in UNION {[1 .. n -> {0, 7, 12}] : n \in 0 .. 2}}
  \cup {Spelling(Hex("", digits), None) : digits \in [1 .. 1 -> 0 .. 3] \cup [1 .. 3 -> 0 .. 3]}

\* Base64 without its pads, which every decoder takes too, and with any number of
\* them, which not every one does.
MCBase64Spellings ==
  {Spelling(Unpadded(Btoa(bytes)) \o [k \in 1 .. pads |-> Pad], bytes) :
     bytes \in UNION {[1 .. n -> {0, 7, 12}] : n \in 0 .. 4}, pads \in 0 .. 4}

MCFields ==
  LET two == <<".", ".">>
      five == <<0, 0, 5, 7, 9>>
      stamps == {two \o stamp : stamp \in [1 .. 2 -> {".", "-", "at", "/"}]}
      shapes ==
        {<<f, two>> : f \in [1 .. 3 -> {Junk, 0, 5}]}
        \cup {<<f, << >>>> : f \in {<<Junk>>, <<5>>}}
        \cup {<<<<0, 5>>, <<".">>>>, <<<<0, 0, 5, 0>>, two \o <<".">>>>}
        \cup {<<f, stamp>> : f \in {five, [five EXCEPT ![3] = Junk]}, stamp \in stamps}
  IN {Id(shape[1], shape[2], zeros) : shape \in shapes, zeros \in BOOLEAN}

\* Texts that a number rounds, to the even neighbour below and above.
MCNumbers ==
  {id \in [digits : BOOLEAN, text : BOOLEAN, more : BOOLEAN, whole : -1 .. 2 \cup {32, 33, 35}] :
     id.text \/ id.whole \in -1 .. 32}

MCIds ==
  [kind \in IdKinds |->
     CASE kind \in {"entity id", "transaction id"} -> MCFields
       [] kind \in {"block number", "serial number"} -> MCNumbers
       [] OTHER -> [prefix : {"", "0x", "0X"}, length : {0, 40, 64, 66, 96}, hex : BOOLEAN,
                    upper : BOOLEAN]]

MCSpellings == ("hex" :> MCHexSpellings) @@ ("base64" :> MCBase64Spellings)

MCNumerals == {<<"5">>, <<"7">>}
MCArguments ==
  MCNumerals \cup {<<"x", "/", "y">>, <<"x", ":", "/", "/">>, <<"NUL", "x">>, <<"/">>, <<"x", "NUL">>}
MCParameters ==
  LET items == <<Operator(<<"gte", ":">>, <<"1">>), Operator(<<"lt", ":">>, <<"5">>)>>
      plain == <<Scalar(<<"5">>)>>
  IN {Missing, Empty, Scalar(<<"5">>), Operator(<<"gt", ":">>, <<"5">>), OperatorFilter(items)}
       \cup {Several(array) : array \in {<< >>, items, plain, items \o plain}}
MCWireNumbers == {-70, -31, -1, 0, 1, 31, 32, 33, 63, 65, 67}
============================================================================
