-------------------------------- MODULE X509 --------------------------------
(***************************************************************************)
(* The decoder of X.509 certificates (proto-x509.c): a state for every tag *)
(* and length of a certificate, and a stack of the lengths of the fields   *)
(* that are open.  A state is <<field, part>>; "rest" stands for every     *)
(* state that passes over what is left of a field: the contents of fields  *)
(* without structure, PADDING, ERROR.  What is written to the banner is    *)
(* left out, but not the subject type that decides on it.                  *)
(***************************************************************************)
EXTENDS Smack

\* The order of enum X509state, where state++ leads on.
Fields == <<"tag0", "tag1", "version0", "version1", "serial", "sig0", "sig1",
    "issuer0", "issuer1", "issuer2", "issuerid", "issuername", "validity",
    "vnbefore", "vnafter", "subject0", "subject1", "subject2", "subjectid",
    "subjectname", "pubkey0", "extensionsA", "extensionsS", "extension",
    "extensionid", "extvalue", "extvalue2", "extvalue3", "dnsname",
    "algoid0", "algoid1", "enc">>
OidFields == {"sig1", "issuerid", "subjectid", "extensionid", "algoid1"}
WithContents == OidFields \cup {"version1", "serial", "issuername", "vnbefore",
    "vnafter", "subjectname", "pubkey0", "dnsname", "enc"}
AnyTag == {"issuername", "subjectname", "issuer1", "subject1", "vnbefore", "vnafter"}

TagOf(f) == CASE f \in OidFields -> 6
              [] f \in {"version1", "serial"} -> 2
              [] f = "version0" -> 160
              [] f = "extensionsA" -> 163
              [] f = "enc" -> 3
              [] OTHER -> 48

Rest == <<"rest", "contents">>
TagState(f) == <<f, "tag">>

\* kludge_next: the field that follows at the same level.
KludgeNext(f) ==
    CASE f = "tag1" -> TagState("algoid0")
      [] f = "algoid0" -> TagState("enc")
      [] f = "serial" -> TagState("sig0")
      [] f = "version0" -> TagState("serial")
      [] f = "sig0" -> TagState("issuer0")
      [] f = "issuer0" -> TagState("validity")
      [] f = "subject0" -> TagState("pubkey0")
      [] f \in {"issuer1", "subject1", "extension"} -> TagState(f)
      [] f = "issuerid" -> TagState("issuername")
      [] f = "extensionid" -> TagState("extvalue")
      [] f = "dnsname" -> TagState("extvalue3")
      [] f = "subjectid" -> TagState("subjectname")
      [] f = "validity" -> TagState("subject0")
      [] f = "vnbefore" -> TagState("vnafter")
      [] f = "pubkey0" -> TagState("extensionsA")
      [] OTHER -> Rest

\* The object ids that say what a name is, with two of those that do not.
Mib == CompileCase(<<
    ObjectId(<<42>>, "1.2"), ObjectId(<<85>>, "2.5"),
    ObjectId(<<85, 4>>, "2.5.4"), ObjectId(<<85, 4, 3>>, "common"),
    ObjectId(<<85, 29>>, "2.5.29"), ObjectId(<<85, 29, 17>>, "common")>>)

----------------------------------------------------------------------------
\* A field of n bytes opens inside the innermost one.
Opened(x, next, n) ==
    LET outer == x.stack
        shrunk == [i \in DOMAIN outer |->
                     IF i = 1 THEN [outer[i] EXCEPT !.rem = @ - n] ELSE outer[i]]
    IN  [x EXCEPT !.stack = <<[rem |-> n, next |-> next]>> \o shrunk]

\* Fault: a field may be longer than the one around it.
ASN1_push_Unbounded(x, next, n) ==
    IF n >= 65536 \/ Len(x.stack) >= 9 THEN [x EXCEPT !.failed = TRUE]
    ELSE Opened(x, next, n)

\* ASN1_push.  A refused length sets x->state to ERROR, which takes effect
\* when the next fragment comes.
ASN1_push(x, next, n) ==
    IF \/ n >= 65536 \/ Len(x.stack) >= 9
       \/ x.stack # <<>> /\ n > x.stack[1].rem
    THEN [x EXCEPT !.failed = TRUE]
    ELSE Opened(x, next, n)

\* x509_decode_init, for the first certificate of a connection or a later one.
X509Init(n, first) ==
    ASN1_push([state |-> TagState("tag0"), stack |-> <<>>, failed |-> FALSE,
               lol |-> 0, num |-> 0, common |-> FALSE, first |-> first],
              Rest, n)

\* Leave the fields that have come to their end.
RECURSIVE PopAll(_)
PopAll(x) ==
    IF x.stack = <<>> \/ Head(x.stack).rem > 0 THEN x
    ELSE PopAll([x EXCEPT !.state = Head(x.stack).next, !.stack = Tail(@)])

TagByte(x, f, c) ==
    LET len == [x EXCEPT !.state = <<f, "len">>]
        rest == [x EXCEPT !.state = Rest]
    IN  CASE f \in {"issuer1", "subject1"} -> [len EXCEPT !.common = FALSE]
          [] f \in AnyTag \ {"issuer1", "subject1"} -> len
          [] f = "extvalue3" ->
                IF x.common /\ c = 130 THEN [x EXCEPT !.state = <<"dnsname", "len">>] ELSE rest
          [] f = "extvalue" -> IF c = 4 THEN len ELSE rest
          [] OTHER -> IF c = TagOf(f) THEN len ELSE rest

\* The length n of field f is complete.
Descend(x, f, n) ==
    LET after == Fields[1 + CHOOSE i \in DOMAIN Fields : Fields[i] = f]
    IN  [ASN1_push(x, KludgeNext(f), n)
            EXCEPT !.state = IF f \in WithContents THEN <<f, "contents">> ELSE TagState(after),
                   !.num = 0, !.lol = 0]

\* The last byte of a component looks at what the object id is so far, r.
OidByte(x, f, c, r) ==
    LET common == CASE r.id = NotFound \/ c >= 128 -> x.common
                    [] r.id = "common" /\ c < 128 -> f # "subjectid" \/ x.first
                    [] OTHER -> FALSE
    IN  [x EXCEPT !.num = Wrap16(r.state), !.common = common]

\* A byte of the innermost field that is open, taken off its length.
FieldByte(x, c) ==
    LET f == x.state[1]
        part == x.state[2]
        n == Wrap16(x.num * 256 + c)
    IN  CASE part = "tag" -> TagByte(x, f, c)
          [] part = "len" ->
                IF c >= 128 THEN [x EXCEPT !.state = <<f, "lenlen">>, !.lol = c - 128, !.num = 0]
                ELSE Descend(x, f, c)
          [] part = "lenlen" ->
                IF x.lol = 1 THEN Descend(x, f, n)
                ELSE [x EXCEPT !.lol = Wrap8(@ + 255), !.num = n]
          [] part = "contents" /\ f \in OidFields ->
                OidByte(x, f, c, SearchNext(Mib, x.num, <<c>>, 0))
          [] OTHER -> x

\* One round of the loop of x509_decode.
X509Byte(x, c) ==
    LET y == PopAll(x)
    IN  IF y.stack = <<>> THEN x ELSE FieldByte([y EXCEPT !.stack[1].rem = @ - 1], c)

\* x509_decode returns and saves the state, unless a push has failed.
X509Save(x) == IF x.failed THEN [x EXCEPT !.state = Rest] ELSE x

\* What is left of the open fields, one around the other, is no more than n.
X509Inside(x, n) ==
    /\ \A i \in DOMAIN x.stack : x.stack[i].rem >= 0
    /\ FoldLeft(LAMBDA sum, level : sum + level.rem, 0, x.stack) <= n
=============================================================================
