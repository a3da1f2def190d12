----------------------------- MODULE JsonBoundary -----------------------------
(***************************************************************************)
(* Values on their way between JavaScript and native JSON                  *)
(* (src/json-boundary.js): which numbers pass, as what, which requests and  *)
(* which texts.                                                            *)
(*                                                                         *)
(* Numbers are counted in halves, so that some are no integers.  A double  *)
(* is a mantissa below 2^Precision times a power of two.                   *)
(***************************************************************************)
EXTENDS Integers, Sequences

CONSTANTS
  Precision,  \* bits of a double's mantissa (53)
  Width,      \* bits of a native unsigned integer (64)
  Magnitude,  \* doubles are below 2^Magnitude, in halves (1025)
  Byte,       \* bits of the smallest native unsigned integer (8)
  TextLimit,  \* bytes a message or a signature may have (4096)
  AddressLimit, \* bytes an address may have (128)
  OtherLimit, \* bytes another text may have (16)
  MaxToken,   \* bound: numbers have at most this many halves
  MaxUnits    \* bound: code units in a text

ASSUME BoundaryAssumption ==
  /\ {Precision, Width, Magnitude, Byte, TextLimit, AddressLimit, OtherLimit,
      MaxToken, MaxUnits} \subseteq Nat \ {0}
  /\ Byte < Precision /\ Precision < Width /\ Width < Magnitude

VARIABLES
  direction,  \* what crossed last
  given,      \* what it was before
  taken       \* what arrived, or that an error was thrown

boundaryVars == <<direction, given, taken>>

Halves == -MaxToken .. MaxToken
Whole(h) == h % 2 = 0
Size(h) == IF h < 0 THEN -h ELSE h

\* Two to the power of n.
Power[n \in Nat] == IF n = 0 THEN 1 ELSE 2 * Power[n - 1]

\* Rounding to the nearest double, to an even mantissa in the middle.
Exponent(h) ==
  CHOOSE e \in 0 .. Size(h) :
    /\ Size(h) < Power[Precision + e]
    /\ e = 0 \/ Size(h) >= Power[Precision + e - 1]
Double(h) ==
  LET step == Power[Exponent(h)]
      mantissa == Size(h) \div step
      rest == 2 * (Size(h) % step)
      up == rest > step \/ (rest = step /\ mantissa % 2 = 1)
      size == step * (IF up THEN mantissa + 1 ELSE mantissa)
  IN  IF h < 0 THEN -size ELSE size

Finite(h) == Size(Double(h)) < Power[Magnitude]

Number(h) == [type |-> "number", value |-> h]
Text(h) == [type |-> "text", value |-> h]
Error == [type |-> "error", value |-> 0]
Failed(result) == result.type = "error"

\* Other values of a field: one it does not have, null, and a string of this
\* many characters that is no number, of hexadecimal digits or not.
Undefined == [type |-> "undefined", value |-> 0]
Null == [type |-> "null", value |-> 0]
Word(n) == [type |-> "word", value |-> n]
Hex(n) == [type |-> "hex", value |-> n]

\* Mutation: the first unsafe integer is taken for safe.
SafeInteger_Inclusive(h) == Whole(h) /\ Size(h) <= 2 * Power[Precision]

\* Number.isSafeInteger
SafeInteger(h) == Whole(h) /\ Size(h) < 2 * Power[Precision]

\* checkedNumber, of what a JavaScript number holds.
Checked(h) ==
  IF ~Finite(h) \/ (Whole(Double(h)) /\ ~SafeInteger(Double(h)))
    THEN Error
    ELSE Number(Double(h))

\* Mutation: what is no safe integer is refused, however it is written.
Parsed_Strict(token) == Checked(token.value)

\* parse: a token written as an integer becomes its digits if it is not safe.
Parsed(token) ==
  IF token.integer /\ ~(Finite(token.value) /\ SafeInteger(Double(token.value)))
    THEN Text(token.value)
    ELSE Checked(token.value)

\* Mutation: digits are converted to a number before they are looked at.
Unsigned_Converted(amount) ==
  IF /\ amount.type \in {"number", "text"}
     /\ ~Failed(Checked(amount.value)) /\ Whole(Double(amount.value)) /\ amount.value >= 0
    THEN Checked(amount.value)
    ELSE Error

\* burnRequest's uint64, of a number or of canonical decimal digits.
Unsigned(amount) ==
  LET exact == IF amount.type = "number" THEN Double(amount.value) ELSE amount.value
  IN  IF /\ amount.type \in {"number", "text"}
         /\ amount.type = "number" => ~Failed(Checked(amount.value)) /\ Whole(exact)
         /\ exact >= 0 /\ exact < 2 * Power[Width]
        THEN Number(exact)
        ELSE Error

-------------------------------------------------------------------------------
(***************************************************************************)
(* Requests.  An object is a function from its keys to their values.       *)
(***************************************************************************)
Object(fields) == [type |-> "object", value |-> fields]
Field(request, key) ==
  IF key \in DOMAIN request.value THEN request.value[key] ELSE Undefined

PaymentKey == {"invoice", "amt_msat", "asset_id", "asset_amount"}
BurnKey == {"asset_id", "amount", "burn_recipient", "fee_rate", "min_confirmations"}

\* stringify: numbers are checked, and what is undefined has no key.
Stringified(request) ==
  IF \E key \in DOMAIN request.value :
       request.value[key].type = "number" /\ Failed(Checked(request.value[key].value))
    THEN Error
    ELSE Object([key \in {k \in DOMAIN request.value : request.value[k] # Undefined} |->
                   IF request.value[key].type = "number"
                     THEN Checked(request.value[key].value)
                     ELSE request.value[key]])

\* Mutation: keys released RLN does not know are sent along.
PaymentRequest_Open(request) ==
  IF request.type # "object" THEN Error ELSE Stringified(request)

\* paymentRequest
PaymentRequest(request) ==
  IF request.type # "object" \/ ~DOMAIN request.value \subseteq PaymentKey
    THEN Error
    ELSE Stringified(request)

IsText(v) == v.type \in {"text", "word", "hex"} /\ v # Word(0)
IsByte(v) ==
  v.type = "number" /\ Finite(v.value) /\ Whole(Double(v.value))
                    /\ Double(v.value) >= 0 /\ Double(v.value) < 2 * Power[Byte]
IsRecipient(v) == v \in {Undefined, Null, Hex(64)}

\* What a burn sends: a new object of the five fields, the undefined left out.
Rewritten(request) ==
  LET sent == [key \in BurnKey |->
                 IF key \in {"amount", "fee_rate"}
                   THEN Unsigned(Field(request, key))
                   ELSE Field(request, key)]
  IN  IF \/ request.type # "object"
         \/ ~IsText(sent["asset_id"]) \/ ~IsByte(sent["min_confirmations"])
         \/ ~IsRecipient(sent["burn_recipient"])
         \/ Failed(sent["amount"]) \/ Failed(sent["fee_rate"])
        THEN Error
        ELSE Object([key \in {k \in BurnKey : sent[k] # Undefined} |-> sent[key]])

\* Mutation: unknown keys are not looked for.
BurnRequest_Lax(request) == Rewritten(request)

\* burnRequest
BurnRequest(request) ==
  IF DOMAIN request.value \subseteq BurnKey THEN Rewritten(request) ELSE Error

-------------------------------------------------------------------------------
(***************************************************************************)
(* Texts                                                                   *)
(***************************************************************************)
Unit == {"ascii", "two", "three", "high", "low"}

\* The bytes a code unit stands for; of a pair the first stands for four.
Bytes(unit) ==
  CASE unit = "ascii" -> 1
    [] unit = "two" -> 2
    [] unit = "three" -> 3
    [] unit = "high" -> 4

Limit(key) == CASE key \in {"message", "signature"} -> TextLimit
                [] key = "address" -> AddressLimit
                [] OTHER -> OtherLimit

\* Mutation: the second of a pair is looked at once more.
Accepted_NoSkip(units, limit) ==
  LET passed[i \in 1 .. Len(units) + 2] ==
        IF i > Len(units)
          THEN 0 .. limit
          ELSE LET more == IF units[i] = "low" THEN 4 ELSE Bytes(units[i])
                   rest == passed[i + 1]
               IN  {bytes \in 0 .. limit :
                      /\ units[i] # "low" \/ (i > 1 /\ units[i - 1] = "high")
                      /\ units[i] = "high" => i < Len(units) /\ units[i + 1] = "low"
                      /\ bytes + more \in rest}
  IN  0 \in passed[1]

\* bip322Request walks the code units, two at a time over a pair, and throws at
\* an unpaired one and as soon as the limit is exceeded: the numbers of bytes
\* with which it passes from a unit on.
Accepted(units, limit) ==
  LET passed[i \in 1 .. Len(units) + 2] ==
        IF i > Len(units)
          THEN 0 .. limit
          ELSE LET rest == passed[IF units[i] = "high" THEN i + 2 ELSE i + 1]
               IN  {bytes \in 0 .. limit :
                      /\ units[i] # "low"
                      /\ units[i] = "high" => i < Len(units) /\ units[i + 1] = "low"
                      /\ bytes + Bytes(units[i]) \in rest}
  IN  0 \in passed[1]

String(units) == [type |-> "string", value |-> units]

Bip322Request(request) ==
  IF \A key \in DOMAIN request.value :
       /\ request.value[key].type = "string"
       /\ Accepted(request.value[key].value, Limit(key))
    THEN request
    ELSE Error

-------------------------------------------------------------------------------
(***************************************************************************)
(* The inputs: each field in turn takes every value, the others a usual    *)
(* one.                                                                    *)
(***************************************************************************)
Token == {token \in [value : Halves, integer : BOOLEAN] :
            token.integer => Whole(token.value)}
Digits == {Text(h) : h \in {h \in 0 .. MaxToken : Whole(h)}}
Numbers == {Number(h) : h \in Halves}

Usual == [key \in PaymentKey \cup BurnKey \cup {"other"} |->
            CASE key \in {"invoice", "asset_id", "other"} -> Word(1)
              [] key = "burn_recipient" -> Null
              [] OTHER -> Number(2)]
Values(key) ==
  CASE key \in {"amount", "fee_rate", "amt_msat"} -> Numbers \cup Digits \cup {Undefined, Null, Word(0), Word(1)}
    [] key = "min_confirmations" -> Numbers \cup {Undefined, Text(2)}
    [] key = "burn_recipient" -> {Undefined, Null, Word(64), Hex(62), Hex(64), Number(64)}
    [] OTHER -> {Null, Word(0), Word(1), Number(2)}

\* Objects and arrays of these keys, and objects of some of them or of others.
Unusual(keys, key) ==
  {[type |-> type, value |-> [k \in keys |-> IF k = key THEN v ELSE Usual[k]]] :
     type \in {"object", "array"}, v \in Values(key)}
Requests(keys) ==
  (UNION {Unusual(keys, key) : key \in keys})
    \cup {Object([key \in some |-> Usual[key]]) : some \in SUBSET (keys \cup {"other"})}

\* The texts of requests to sign and, offline, to verify.
SigningKeys == {{"message", "address"}, {"message", "address", "signature", "network"}}
Signature(keys, key, v) ==
  Object([k \in keys |-> IF k = key THEN v ELSE String(<<"ascii">>)])

BoundaryInit == direction = "none" /\ given = Error /\ taken = Error

\* A native answer is read.
Receive(token) ==
  /\ direction' = "in"
  /\ given' = token
  /\ taken' = Parsed(token)

\* A JavaScript number, written as this literal, is sent in a request.
Send(h) ==
  /\ direction' = "out"
  /\ given' = Number(h)
  /\ taken' = Checked(h)

Pay(request) ==
  /\ direction' = "pay"
  /\ given' = request
  /\ taken' = PaymentRequest(request)

Burn(request) ==
  /\ direction' = "burn"
  /\ given' = request
  /\ taken' = BurnRequest(request)

\* What a burn of this amount sends as one.
Burnt(amount) ==
  LET sent == BurnRequest(Object([key \in BurnKey |->
                IF key = "amount" THEN amount ELSE Usual[key]]))
  IN  IF Failed(sent) THEN Error ELSE sent.value["amount"]

\* What was read is burnt as it is.
BurnReceived ==
  /\ direction = "in" /\ ~Failed(taken)
  /\ direction' = "back"
  /\ given' = given
  /\ taken' = Burnt(taken)

Sign(request) ==
  /\ direction' = "text"
  /\ given' = request
  /\ taken' = Bip322Request(request)

\* Crossings have no effect on each other: a behaviour is one, or an answer read
\* and burnt.
BoundaryNext ==
  \/ direction = "none" /\ \E token \in Token : Receive(token)
  \/ direction = "none" /\ \E h \in Halves : Send(h)
  \/ direction = "none" /\ \E request \in Requests(PaymentKey) : Pay(request)
  \/ direction = "none" /\ \E request \in Requests(BurnKey) : Burn(request)
  \/ BurnReceived
  \/ direction = "none" /\ \E keys \in SigningKeys : \E key \in keys :
       \/ Sign(Signature(keys, key, Undefined))
       \/ \E n \in 0 .. MaxUnits : \E units \in [1 .. n -> Unit] :
            Sign(Signature(keys, key, String(units)))

BoundarySpec == BoundaryInit /\ [][BoundaryNext]_boundaryVars

-------------------------------------------------------------------------------
(***************************************************************************)
(* Properties                                                              *)
(***************************************************************************)

\* An integer crosses exactly or not at all, in whatever direction and in
\* whatever field; one in a native answer can be read, and what was read can be
\* burnt just as it was read if it is a native unsigned integer.
IntegersCrossExactly ==
  /\ direction \in {"in", "out", "back"} /\ Whole(given.value) =>
       /\ Failed(taken) \/ taken.value = given.value
       /\ direction = "in" /\ given.integer => ~Failed(taken)
       /\ direction = "back" /\ given.integer =>
            (~Failed(taken) <=> given.value >= 0 /\ given.value < 2 * Power[Width])
  /\ direction \in {"pay", "burn"} /\ ~Failed(taken) =>
       \A key \in DOMAIN taken.value :
         given.value[key].type \in {"number", "text"} /\ Whole(given.value[key].value) =>
           taken.value[key].value = given.value[key].value

\* Nothing a caller asks for is lost on the way: a request that is sent has all
\* the fields it was given (those with a value), no field native code would
\* ignore, and a number of confirmations that fits in the native byte.
RequestsKeepTheirFields ==
  direction \in {"pay", "burn"} /\ ~Failed(taken) =>
    /\ DOMAIN taken.value = {key \in DOMAIN given.value : given.value[key] # Undefined}
    /\ DOMAIN taken.value \subseteq (IF direction = "pay" THEN PaymentKey ELSE BurnKey)
    /\ direction = "burn" =>
         taken.value["min_confirmations"].value \in 0 .. 2 * (Power[Byte] - 1)

\* A request to sign is sent just if in each of its texts each code unit of a
\* pair has the other beside it and the UTF-8 form is within that field's limit;
\* each of a pair accounts for two bytes.
Share(unit) == CASE unit = "ascii" -> 1 [] unit = "three" -> 3 [] OTHER -> 2
Maximum == [message |-> TextLimit, signature |-> TextLimit,
            address |-> AddressLimit, network |-> OtherLimit]

WellFormed(units, limit) ==
  LET share[i \in 0 .. Len(units)] ==
        IF i = 0 THEN 0 ELSE share[i - 1] + Share(units[i])
  IN  /\ \A i \in 1 .. Len(units) :
           /\ units[i] = "high" => i < Len(units) /\ units[i + 1] = "low"
           /\ units[i] = "low" => i > 1 /\ units[i - 1] = "high"
      /\ share[Len(units)] <= limit

TextsAreWellFormed ==
  direction = "text" =>
    (~Failed(taken) <=>
       \A key \in DOMAIN given.value :
         /\ given.value[key].type = "string"
         /\ WellFormed(given.value[key].value, Maximum[key]))
===============================================================================
