-------------------------------- MODULE Output --------------------------------
(* output.c, the out-*.c formats and in-binary.c: the file a receive thread *)
(* keeps its results in, how that file is rotated, and how a binary file is *)
(* read back.  A file is a sequence of cells: the text a format puts before *)
(* the first record and after the last one, commas, and records.  Wording,  *)
(* escaping and the interactive screen are left out.                        *)
(*                                                                          *)
(* The file system is [dir, files]: what each name denotes, and the cells.  *)
(* A stream is [file, at, append]: where it writes next, or at the end.      *)
(* A world w is [fs, o, stop]: the file system, one thread's struct Output, *)
(* and whether is_tx_done was set because a file could not be opened.       *)
EXTENDS Integers, Sequences

CONSTANT Forever                        \* later than any clock of the model

(* ---- the formats: what each writes at the start, at the end, per record *)
Text(t) == [text |-> t]
Format(open, close, status, banner) ==
    [open |-> open, close |-> close, status |-> status, banner |-> banner, comma |-> FALSE, bytes |-> FALSE]
text_output == Format(<<Text("#masscan")>>, <<Text("# end")>>, TRUE, TRUE)
xml_output == Format(<<Text("<nmaprun>")>>, <<Text("</nmaprun>")>>, TRUE, TRUE)
json_output == [Format(<<Text("[")>>, <<Text("]")>>, TRUE, TRUE) EXCEPT !.comma = TRUE]
ndjson_output == Format(<<>>, <<>>, TRUE, TRUE)
unicornscan_output == Format(<<Text("#masscan")>>, <<Text("# end")>>, TRUE, FALSE)
grepable_output == Format(<<Text("# Masscan")>>, <<Text("# Masscan done")>>, TRUE, TRUE)
\* Certificates go to the terminal, and there is nothing else to report.
certs_output == Format(<<>>, <<Text("{finished: 1}")>>, FALSE, FALSE)
binary_output == [Format(<<Text("masscan/1.1.02")>>, <<Text("masscan/1.1")>>, TRUE, TRUE) EXCEPT !.bytes = TRUE]
null_output == Format(<<>>, <<>>, FALSE, FALSE)
Formats == [list |-> text_output, xml |-> xml_output, json |-> json_output, ndjson |-> ndjson_output,
            unicorn |-> unicornscan_output, grep |-> grepable_output, certs |-> certs_output,
            binary |-> binary_output, none |-> null_output]

(* ---- records *)
Status(s, ip, proto, port) == [kind |-> "status", status |-> s, ip |-> ip, proto |-> proto, port |-> port]
Banner(app, ip, proto, port, length) ==
    [kind |-> "banner", app |-> app, ip |-> ip, proto |-> proto, port |-> port, length |-> length]

\* The binary form: a type, the length in base 128, and what follows it.
binary_out_status(r) ==
    [type |-> CASE r.status = "open" -> 6 [] r.status = "closed" -> 7 [] r.status = "up" -> 8,
     length |-> <<13>>, follow |-> 13, of |-> r]
binary_out_banner(r) ==
    LET n == r.length + 14 IN
    [type |-> 9, length |-> IF n < 128 THEN <<n>> ELSE <<n \div 128 + 128, n % 128>>, follow |-> n, of |-> r]
BinaryKeeps(r) == r.kind = "status" \/ r.length < 128 * 128 - 14
RecordCell(r) == IF r.kind = "status" THEN binary_out_status(r) ELSE binary_out_banner(r)
CellBytes(cell) == 1 + Len(cell.length) + cell.follow
FileHeaderBytes == 2 + 97                                        \* 2 + 'a'

(* ---- the file system *)
NoFiles == [dir |-> <<>>, files |-> <<>>]
Named(fs, name) == name \in DOMAIN fs.dir

\* fopen() for appending, or for writing: the latter empties the file.
pixie_fopen(fs, name, append) ==
    LET old == Named(fs, name)
        n == IF old THEN fs.dir[name] ELSE Len(fs.files) + 1
        kept == IF old /\ append THEN fs.files[n] ELSE <<>>
    IN [fs |-> [dir |-> [x \in (DOMAIN fs.dir) \cup {name} |-> IF x = name THEN n ELSE fs.dir[x]],
                files |-> [i \in 1..(IF old THEN Len(fs.files) ELSE n) |-> IF i = n THEN kept ELSE fs.files[i]]],
        fp |-> [file |-> n, at |-> 0, append |-> append, open |-> TRUE]]

\* A name that is already taken is replaced.
rename(fs, from, to) ==
    [fs EXCEPT !.dir = [x \in ((DOMAIN fs.dir) \ {from}) \cup {to} |-> fs.dir[IF x = to THEN from ELSE x]]]

Hole == Text("")
\* A stream that does not append overwrites what is at its own position.
fwrite(fs, fp, cells) ==
    LET old == fs.files[fp.file]
        at == IF fp.append THEN Len(old) ELSE fp.at
        end == at + Len(cells)
        new == [i \in 1..(IF end > Len(old) THEN end ELSE Len(old)) |->
                   IF i > at /\ i <= end THEN cells[i - at]
                   ELSE IF i <= Len(old) THEN old[i] ELSE Hole]
    IN [fs |-> [fs EXCEPT !.files[fp.file] = new],
        fp |-> IF fp.append THEN fp ELSE [fp EXCEPT !.at = end]]
Closed == [open |-> FALSE]                                       \* fp == NULL

(* ---- struct Output *)
Put(w, cells, bytes) ==
    LET x == fwrite(w.fs, w.o.fp, cells) IN
    [w EXCEPT !.fs = x.fs, !.o.fp = x.fp, !.o.bytes = @ + bytes]

\* Names: the file of the configuration, the one of an adapter, and those
\* that rotation gives, numbered or dated.
Configured == [nic |-> 0, cut |-> "no", n |-> 0]
indexed_filename(nic) == [nic |-> nic, cut |-> "no", n |-> 0]

\* Fault: a period from now, not from the last full one.
next_rotate_time_Now(last, period, offset) == last + period + offset
next_rotate_time(last, period, offset) == last - (last % period) + period + offset

open_rotate(w, name, c, ok) ==
    IF ok THEN LET x == pixie_fopen(w.fs, name, c.append) IN
               [w EXCEPT !.fs = x.fs, !.opened = x.fp, !.o.virgin = TRUE]
    ELSE [w EXCEPT !.opened = Closed, !.stop = TRUE]

close_rotate(w, c) ==
    LET t == Formats[c.format]
        end == IF w.o.virgin THEN w ELSE Put(w, t.close, IF t.bytes THEN FileHeaderBytes ELSE 0)
    IN [end EXCEPT !.o.fp = Closed]

\* The scan does not start unless the file can be opened.
output_create(fs, c, nic, now) ==
    LET file == c.format # "none"
        w0 == [fs |-> fs, stop |-> FALSE, opened |-> Closed,
               o |-> [fp |-> Closed, virgin |-> TRUE, first |-> FALSE, last |-> 0, next |-> Forever,
                      bytes |-> 0, filecount |-> 0,
                      filename |-> IF c.nics <= 1 THEN Configured ELSE indexed_filename(nic)]]
        w1 == IF file THEN open_rotate(w0, Configured, c, TRUE) ELSE w0
        last == IF file THEN now ELSE 0
        next == IF c.period = 0 THEN Forever
                ELSE next_rotate_time(IF c.offset > 1 THEN last - c.period ELSE last, c.period, c.offset)
    IN [w1 EXCEPT !.o.fp = w1.opened, !.o.last = last, !.o.next = next]

\* By size the files are numbered, without a look at what is there; by time
\* they bear the time the file was begun, or one second later if that is taken.
RotatedName(w, c) ==
    LET dated == [nic |-> w.o.filename.nic, cut |-> "time", n |-> w.o.last] IN
    IF c.filesize > 0 THEN [nic |-> w.o.filename.nic, cut |-> "size", n |-> w.o.filecount]
    ELSE IF Named(w.fs, dated) THEN [dated EXCEPT !.n = @ + 1] ELSE dated

output_do_rotate(w, c, now, closing, ok) ==
    IF ~w.o.fp.open THEN w
    ELSE LET counted == IF c.filesize > 0 THEN [w EXCEPT !.o.filecount = @ + 1] ELSE w
             moved == [counted EXCEPT !.fs = rename(@, w.o.filename, RotatedName(w, c)), !.o.bytes = 0,
                                      !.o.next = IF c.period > 0 THEN next_rotate_time(now, c.period, c.offset) ELSE @]
             reopened == open_rotate(moved, w.o.filename, c, ok)
         IN IF ~Named(w.fs, w.o.filename) THEN counted            \* rename() fails
            ELSE IF closing THEN [moved EXCEPT !.o.fp = Closed]
            ELSE IF ~reopened.opened.open THEN reopened
            ELSE [close_rotate(reopened, c) EXCEPT !.o.fp = reopened.opened, !.o.last = now]

is_rotate_time(o, c, now) ==
    /\ ~o.virgin
    /\ now >= o.next \/ (c.filesize > 0 /\ o.bytes >= c.filesize)

\* Rotate if it is time, put the header into a new file, then the record.
Rotated(w, c, at, now, ok) == IF is_rotate_time(w.o, c, at) THEN output_do_rotate(w, c, now, FALSE, ok) ELSE w
Headed(w, c) ==
    LET t == Formats[c.format] IN
    IF w.o.virgin THEN [Put(w, t.open, IF t.bytes THEN FileHeaderBytes ELSE 0) EXCEPT !.o.virgin = FALSE] ELSE w
Recorded(w, t, r) ==
    LET cell == IF t.bytes THEN RecordCell(r) ELSE [of |-> r]
        wanted == IF r.kind = "status" THEN t.status ELSE t.banner /\ (t.bytes => BinaryKeeps(r))
    IN IF ~wanted THEN w
       ELSE [Put(w, (IF t.comma /\ w.o.first THEN <<Text(",")>> ELSE <<>>) \o <<cell>>,
                 IF t.bytes THEN CellBytes(cell) ELSE 0)
             EXCEPT !.o.first = t.comma]
WriteRecord(w, c, at, now, r, ok) == Recorded(Headed(Rotated(w, c, at, now, ok), c), Formats[c.format], r)

Shown(c, r) ==
    IF r.kind = "banner" THEN c.banners
    ELSE (r.status = "closed" => c.show_closed) /\ (r.status = "open" => c.show_open)
\* A port is rotated by the time, a banner by the stamp it bears; the new file's
\* period is that of the time in both cases.
output_report_status(w, c, now, r, ok) ==
    IF Shown(c, r) /\ w.o.fp.open THEN WriteRecord(w, c, now, now, r, ok) ELSE w
output_report_banner(w, c, at, now, r, ok) ==
    IF Shown(c, r) /\ w.o.fp.open THEN WriteRecord(w, c, at, now, r, ok) ELSE w

\* The last file is moved like the others when files are rotated; otherwise
\* it gets its trailer and is closed.
output_destroy(w, c, now) ==
    LET w1 == IF c.period > 0 \/ c.filesize > 0 THEN output_do_rotate(w, c, now, TRUE, TRUE) ELSE w IN
    IF w1.o.fp.open THEN close_rotate(w1, c) ELSE w1

(* ---- --readscan: what a binary file gives back *)
DecodedLength(bytes) == IF Len(bytes) = 1 THEN bytes[1] ELSE (bytes[1] % 128) * 128 + bytes[2]
parse_status2(status, cell) == <<[cell.of EXCEPT !.status = status]>>
readscan_filter_pass(r, ips, ports) == (ips # {} => r.ip \in ips) /\ (ports # {} => r.port \in ports)
parse_banner9(cell) == <<cell.of>>

ParseCell(cell, ips, ports) ==
    LET pass == readscan_filter_pass(cell.of, ips, ports) IN
    CASE cell.type = 6 /\ pass -> parse_status2("open", cell)
      [] cell.type = 7 /\ pass -> parse_status2("closed", cell)
      [] cell.type = 9 /\ pass -> parse_banner9(cell)
      [] OTHER -> <<>>
\* A header where a record could be is skipped; a record of another type, or
\* one whose length is not what follows, ends the reading.
IsHeader(cell) == cell \in {Text("masscan/1.1.02"), Text("masscan/1.1")}
Readable(cell) ==
    \/ IsHeader(cell)
    \/ "type" \in DOMAIN cell /\ cell.type \in {6, 7, 9} /\ DecodedLength(cell.length) = cell.follow

parse_file(cells, ips, ports) ==
    LET ok == {n \in 0..Len(cells) : \A i \in 1..n : Readable(cells[i])}
        last == CHOOSE n \in ok : \A m \in ok : m <= n
        step[i \in 0..last] ==
            IF i = 0 THEN <<>>
            ELSE step[i-1] \o (IF IsHeader(cells[i]) THEN <<>>
                               ELSE ParseCell(cells[i], ips, ports))
    IN IF cells # <<>> /\ IsHeader(cells[1]) THEN step[last] ELSE <<>>
==============================================================================
