# nar-serve in TLA+

nar-serve is an HTTP server that unpacks Nix archives (NARs) out of a binary cache while it
serves them: a request for `/nix/store/<hash>-<name>/<path>` is answered with the file, a page
of the directory, or a redirect for a symlink. This directory holds a model of its core, the
configurations that TLC checks it with, and proofs that TLAPS checks.

Run `tlc -config <cfg> <module>` for a configuration and `tlapm <module>_proofs.tla` for the
proofs. `PROJECT.json` lists the runs, the lines of code each definition models, the mutant that
breaks each property, the findings, and the hazards the properties are aimed at. All paths below
are relative to `src/`.

## The system

| component | state | operations | interacts with |
|---|---|---|---|
| NAR reader, `pkg/nar/reader.go` | input position, the limited reader on the current file, parser goroutine with its recursive calls, three channels, last header | `NewReader`, `Next`, `Read`, `Close` | `wire` (packets), `util.go` (order); used by the handler |
| Path order, `pkg/nar/util.go` | none | `PathIsLexicographicallyOrdered`, `IsValidNodeName` | reader and writer |
| NAR writer, `pkg/nar/writer.go` | emitter goroutine with its recursive calls, two channels, the content writer | `NewWriter`, `WriteHeader`, `Write`, `Close` | `wire`, `util.go`; used by `DumpPath` |
| `DumpPath`, `pkg/nar/dump.go` | the walk of a directory | `DumpPath`, `DumpPathFilter` | writer, file system |
| Wire format, `pkg/wire` | bytes read or written of a packet | `ReadUint64`, `ReadBytes`, `ReadString`, `BytesReader`, `BytesWriter`, padding | reader and writer |
| Request handler, `api/unpack` | per request: narinfo, listing, fetched file, reader, response | `ServeHTTP`, `ServeNAR`, `MountPath` | reader, listings, caches |
| Listings, `pkg/nar/ls` | a tree of nodes | `ParseLS`, `Lookup` | handler |
| Concurrency limit, `main.go` | the channel `slots` | `limitConcurrency` | wraps the handler |
| Metrics, `pkg/metrics` | gauge `InFlight`, counters | `Middleware` | wraps everything |
| narinfo, `pkg/narinfo` | what the lines read so far have set | `Parse`, `Check`, `String`, `ParseSignatureLine` | nixhash, nixpath; the handler calls `Parse` |
| nixhash, `pkg/nixhash` | none | `ParseAny`, `HashWithEncoding.String` | narinfo |
| nixbase32, `pkg/nixbase32` | the loop of one call | `EncodeToString`, `DecodeString`, `ValidateString` | nixhash, store paths |
| Store paths, `pkg/nixpath` | none | `FromString`, `Validate`, `String` | nixbase32; used by narinfo and the scanner |
| Reference scanner, `pkg/nixpath/references` | a buffer of 32 bytes, the hits | `NewReferenceScanner`, `Write`, `References` | none in the server |
| Binary caches, `pkg/libstore` | clients of HTTP, S3, GCS, files | `GetFile`, `FileExists`, `GetURL` | handler |
| Compression, `pkg/compression` | none | a table of decompressors | handler |

What is hard in it, and what makes each part correct:

* **Reader.** Two goroutines share `nr.r` and `nr.contentReader` without a lock. They are kept
  apart by a hand-shake on `nr.next` only. The parser closes two channels and deposits its
  verdict in a third while `Next` selects among them; the consumer may stop at any point and
  `Close`; the source may fail between any two packets. It is correct when reads are exclusive,
  `Next` never returns neither a header nor an error, headers come in the canonical order, a
  file's bytes are that file's, `io.EOF` means the whole archive, and no goroutine is left over.
* **Writer.** The same shape the other way round, with unbuffered channels: a header travels up
  through the calls of `emitNode` until one of them wants it. It is correct when a nil error
  means that the tree that was announced is what was written, calls return, and `Close` ends
  the emitter wherever the destination failed.
* **Handler.** A walk that stops early, a listing that replaces the walk, ETags that are compared
  before anything is fetched, and an upstream that fails after the status has been sent. It is
  correct when every answer is the archive's, or visibly is none.
* **Limiter and metrics.** Panics, clients that leave while they wait, and a cache that hangs. A
  slot must neither leak nor be given out twice; waiting must end; the gauge must be exact.
* **Path order.** `/` is neither the lowest nor the highest byte of a name, so comparing strings
  is not comparing paths; walks and their early ends rest on the order.
* **`DumpPath`.** The tree may change between `Lstat`, `Readlink`, `ReadDir`, `Open` and the copy. It is
  correct when a nil error means a whole archive in which every header was true at some moment and
  every file is as long as its header says, and when the emitter is gone at the end.
* **Wire.** A source hands out what it likes at a time, and ends anywhere. It is correct when what
  was written is read whichever way it is cut up, and an error says where the source ended.
* **Scanner, nixbase32, store paths.** Boundaries: of a run of characters, of a byte, of a field.
* **narinfo.** Read and written by different rules: what is rendered must be read again as it was.

## Modules

```
NarPath ------- ArchiveIterator <--- refined by --- NarReader <-- read by -- RoundTrip
   |                  ^                                                        |
   |                  +--- used by --- ServeNar --- Listing                NarWriter
   |                                                                           |
   +-- NarFormat (what an archive is, for NarReader)                     Dump (its caller)
   |
PathOrder (implements NarPath!Ordered)

Admission     Wire     Scanner     NixPath --- NixBase32     NarInfo --- NixHash
```

**NarPath** is the vocabulary. A path is a sequence of components, and `Ordered` compares two of
them component by component over an abstract strict order of names (`NameOrder`); `Join` is
`path.Join`, for which `..` leads up. `Name` is what `IsValidNodeName` accepts, which includes
the empty name, `.` and `..`.

**PathOrder** is the loop of `PathIsLexicographicallyOrdered` as it is in the code, byte by byte,
over any set of bytes. It is shown to compute the order of `NarPath` on bytes in which `/` comes
first (`ComputesOrder`) and, for clean paths, the order by components that all other modules use
(`OrdersByComponent`).

**NarReader** has the parser goroutine with one label for each read of the input (`ppc`), the
calls of `parseNode` in `stack`, and the consumer (`cpc`). The input is a sequence of *words*: a
string packet with its padding is one word; a file is a length word and one word for each 8
bytes. A file's data may itself spell packets. The three channels are `headers` (unbuffered: a
send and its receive are one step), `errors` (room for one) and `next`; the select in `Next` is
four actions that are enabled together. `Next` after `Close` panics in the code, and `Read`
after an error is of no use; no caller in the repository does either, and the model leaves them
out.

**NarFormat** says what makes a sequence of words an archive, without a parser. The *layout* of an archive gives each word
its place: the part it plays, the nodes it stands in, and how many headers are complete in front of it. That a layout fits
the words (`LaidOut`) is a question about neighbours only. Archives of `MCNarReader` have the layouts of the trees they were
made from; the reader knows nothing of them.

**ArchiveIterator** says what a consumer may rely on, without goroutines: headers come in the
order of the archive, `io.EOF` after the last, an error at any time if the archive is broken or
not sorted. `NarReader` implements it (`IteratesArchive`), and `ServeNar` runs on it instead of
on the reader.

**NarWriter** has the emitter goroutine (`epc`, with the calls of `emitNode` in `stack` and the
header that is passed up in `next`) and the caller (`wpc`). What it writes are words as
`NarReader` reads them. `accepted` is the history of headers for which `WriteHeader` returned
nil. Every write may fail. A destination that failed is not looked at again. The caller keeps to
what `dumpPath` does: after an error it calls nothing but `Close`.

**RoundTrip** hands an archive that was closed without an error to the reader. It checks that
two machines that were written separately agree on the format.

**Dump** puts `DumpPathFilter` in the place of that caller. The recursion of `dumpPath` only ever
goes on to the next path, so that `todo`, the paths that are left, stands for its calls; `dpc` has a
label for each system call. Others may change a path between any two of them (`Change`), and may
write to a file that is open. What `Lstat` said is in `fi`, what `Open` opened in `opened`: a symlink that
has taken a file's place is followed. `known` is the history of all that was ever true of the file system.
`Children` is what `ReadDir` may return, and there is one such sequence: what is in the directory, in the order of the names.

**Wire** is one packet, byte by byte, for `ReadString` and for `ReadBytes` with its `Read` and `Close`. A
step is one `Read` of the source. `Radix` is 256 in the code and `Block` 8: a length of
`Radix^Block / 2` or more is negative as an `int64`, which is what the limited reader is given.

**Listing** is `ParseLS` and `Lookup`. A listing is a function from paths to nodes. `validateNode` walks
maps, in any order, so that `ParseLS` is the set of its possible outcomes: with two faults in a
listing it may return an error or panic.

**ServeNar** is a request at a time: `archivePath`, the ETag match, narinfo, the listing, the
fetch, the walk, a page, the copy of a file. A listing may be there at one request and not at
the next, may hold a node of an unknown type or a symlink without a target, or make `ParseLS` panic or
fail. `given` is what ETags a client has collected, `upstream` a history of what the cache did.
Requests do not share state in the code, other than through the limiter; two in a row are modelled
for the ETags that the first leaves with the client. The router goes by the path that `middleware.CleanPath` makes (`RoutePath`), the handler
by the URL as it is; a subdomain that is no hash is answered 500 before anything else. `Expected` is the relation between a request and its answers
that the properties use: what the archive has at the path, and for a directory its entries in order.

**Admission** is `limitConcurrency` inside of `metrics.Middleware`. `slots` is the number of
elements in the channel, `queue` the channel's queue of blocked senders: a receive from a full
Go channel moves the first blocked sender's value in with the same step, and a select that gives
up takes itself out of the queue.

**Scanner** is `ReferenceScanner`, with a step for each byte of `Write`: nothing but `buf`, `n` and the
hits outlives a byte, so that the cuts between calls of `Write` make no difference. `stream` is the history
of what was written. **NixBase32** has the loop of `decodeString`, a character a step, with and without a
destination, and `EncodeToString` as a function; an index outside of the destination is a panic.
**NixPath** runs it twice, as `FromString` does.

**NarInfo** reads a file a line at a time. A line is a key and a value; what a value may be is
a set for each kind of field. `Scanned` is what `bufio.ScanLines` hands on of a line, in a file of the cache and in one that
`String` has written: a text has lost a return at its end (`Chomp`). Then it checks, or renders what it has read and reads that again.
**NixHash** gives a text by its prefix, its separator, its length and what each decoder makes of it, as
`ParseAny` chooses a decoder by the length alone.

## Runs

| run | what it shows |
|---|---|
| `MCNarReader` | Six sound trees, three that must be refused (unsorted, unsorted below, too large), and one with an entry called `)`, each complete and with the source failing behind every word; and three trees with every word replaced by each of nine others, dropped, or all behind it missing (`damaged`). On all that are not damaged, and have no entry called `)` (`Faithful`), the reader implements `ArchiveIterator`, and `Close` frees the parser, as no data spells a `)` (`OpaqueData`). On all of them reads are exclusive, `Next` is definite and returns, headers are in order and files in place. |
| `MCAdmission` | One slot, three requests that want it and one that does not. Panics and clients that leave everywhere. Budget, no idle slot beside a queue, gauge, turns; no starvation when walks end (`WalksEnd`); and the route beside the limiter is answered when they do not. |
| `MCServeNar` | Two store paths, 23 URLs, two of them with two slashes between names, and a subdomain that is no hash; two requests in a row, each by either route, GET or HEAD, with or without a listing, sound or one of four that are not, with the upstream failing or breaking off at every point. |
| `MCRoundTrip` | Up to six headers of seven, sound or not, in any order, with any amount of data written in between, and a destination that may fail at every write: the writer's own properties. Then the reader on every archive that was closed without an error: it delivers what was announced, field by field, unless an entry is called `)`, as one offer has it. |
| `MCDump` | Five trees (nested directories, a socket, a name that begins with `..`, a file as the root, a dangling symlink), three filters, two changes of any path at any moment, and a destination that may fail at every write. What nobody changes is dumped as it is, without an error if all of it can be dumped; a nil error is a whole archive; and the dump and the emitter end. |
| `MCScanner` | Six lists of candidates, whose hashes overlap themselves and each other, and every stream of up to seven bytes. |
| `MCNixPath` | Every string of up to five characters for the decoder, and some 15,000 store paths with something wrong, or not, in each of their parts. |
| `MCCalls` | `PathOrder`, `Wire` and `NarInfo`, in one run as they have nothing to do with each other: a behaviour makes one call. All pairs of clean paths of up to five bytes over a byte below `/` and one above, and some with a third. Packets of ten lengths with sound and with dirty padding, cut off, and failing, behind every byte, read in pieces of any size. Every narinfo file of up to three lines, from nothing or behind three lines that an uncompressed archive's narinfo begins with: parsed, checked, rendered and parsed again. |

### Runs that find a disagreement

Each of these checks one sentence of the repository and finds what the code does instead.
`PROJECT.json` quotes the sentence.

| run | finding |
|---|---|
| `MCNarReaderTruncated` | A truncated archive ends in `io.EOF` like a whole one, where the next token is read without `expectString`. |
| `MCNarReaderClose` | After a `Close`, the parser takes what is left of a file's data for the structure of the archive, and stays at a send where it spells an entry. `reader_test.go:371-373` asks that it goes. |
| `MCServeNarSlashes` | With two slashes between names in a URL, a listing gives a page where a walk answers 404. `listing_test.go:109-110` asks that pages match. |
| `MCCallsCheck` | `Check` panics where it should compare two hashes, of an archive that is not compressed. |

### Met, and without a run

The models do as the code does in all of these, unless it says otherwise.

* Reader. The test for the end of a directory looks at the name of the last entry (`reader.go:299`), so that an entry named `)` ends
  it; stray tokens, `..` as a name, and a name given twice are taken (`:258`, `:278`, `:347`). One archive of `MCNarReader` has an
  entry of that name, and `IteratesArchive` and `OpaqueParserExits` leave it out. The writer takes such an entry, so that
  what it wrote is not read back; `ReadsBack` names the exception (`CalledLikeAnEnd`).
* Writer. A child whose name begins with `..` is taken for a node further up (`writer.go:224`), so that such a
  tree cannot be dumped (against `:223`). Right behind a directory its own path may be announced again, as anything, and is written
  as an entry `.` of it (`:205`), where the comment at `:203-204` asks for a greater path and `writer_test.go:269` has a link
  refused; `SuccessMeansSound` names the exception (`Attached`).
* `DumpPath`. The filter cannot omit a socket: its type is looked at first (`dump.go:62`, against `:11-13`). `DumpsTree` demands
  neither an error nor none of such a tree, nor of one with a name that begins with `..`.
* Wire. `Close` returns nil for a source that ends inside of a content whose length is a multiple of 8; `io.EOF`
  is also returned right behind a length field; of a length of 2^63 or more nothing is skipped; and the error of
  the deferred `Close` in `ReadBytesFull` is dropped, so that dirty padding of a string goes unnoticed.
* Metrics. A request whose handler panicked is not counted at all (`metrics.go:77`, against `main.go:121-122`). Only the
  gauge is in the model.
* Listings. A `null` entry panics (`list.go:55`), where `index.go:244-246` has the walk take over; a node without entries is
  not validated at all. `AnswersTree` leaves out both, as `upstream` says. `FailureShows` takes the 500 of the panic for an
  answer, and would not catch it. What a listing says of a path with two slashes between names is left out of both (`ListedPlainly`), and has
  a run of its own, `MCServeNarSlashes`.
* narinfo. A signature longer than 64 bytes panics (`signature.go:25`); `String` panics without a `NarHash` (`types.go:55`);
  `Check` refuses a narinfo that has no deriver; and `ParseAny` takes base64 of another number of bytes than the
  algorithm's, if the text has the length (`parse.go:62`). With carriage returns inside, which the decoder passes over, such
  a text is written back shorter than it was read, and is refused when it is read again; `RendersBack` names the case (`Shortened`).
  A text whose line ended with several carriage returns keeps all but one of them, and loses another each time that it is
  rendered and parsed (`parser.go:26-29`); `RendersBack` says so (`Chomped`).
* Store paths. The characters in front of and behind the hash are not looked at (`nixpath.go:81-92`).
* Scanner. A hash that begins inside of a run of base32 characters is not found (`refs.go:94`).

### Bounds

Everything that is bounded is a constant or a set of the MC modules.

* *Archives* are trees of up to six nodes and depth three: a directory in a directory with
  something behind it, which is the smallest tree where a wrong return from `parseNode`, a path
  joined wrongly or an order compared only among neighbours shows. Files are 0, 1, 2 or 5 words
  long, with padding and without, so that a consumer can read none, some or all of one. `MaxSize`
  is 9 words for `math.MaxInt64`.
* *Names* include `(`, `)`, `entry` and the other tokens of the format, `.`, `..` and the empty
  name, as these are what the parser could mistake for something else.
* *Requests to the limiter*: with one slot, a second waits, a third shows the order of
  the queue.
* *Paths*: five bytes hold `/a/b-` against `/a-`, which is where `/` and `-` matter.
* *Writer*: `MaxHeaders` is 6, all of the sound offers: a directory, one below it, two nodes in that
  one, and a node further up. A header passes through two calls, and one may be announced twice.
* *Changes under a dump*: `MaxChanges` is 2. With one, a file grows or goes; with two, it goes and is replaced,
  or becomes a symlink and a file again between two system calls. A file has up to three words, and is
  copied one or two at a time, so that it can change in the middle.
* *Packets*: with `Radix` 4 and `Block` 2, lengths are below 16, and those from 8 on no positive `int64`. Lengths of 0 to 5 have
  all paddings twice, and `MaxLength` 5 is met exactly and passed.
* *Streams*: a hash has 3 characters; 7 bytes hold a run that is cut once, an edge, and a whole hash.
* *Digests*: five bytes, as 20 in the code, have no bits to spare in their encoding; the strings that are
  given to the decoder, of every other length up to five, have.
* *narinfo files*: three lines are a key given twice and something else. `MaxRefs`, the references that a line
  of the scanner's buffer has room for, is 2: two lines of references fit, or do not. Texts end with up to two returns, with something in
  front of them or nothing: a return is lost at either parse, and a text or a list of references with it.
* *Routes*: two requests, for an ETag that one leaves with the client and the next sends. `MCServeNarSlashes` needs one.

`CHECK_DEADLOCK FALSE` stands in `MCNarReader`, where a parser may be left at a send that nobody receives
after a `Close`, and in `MCNarReaderClose`, where one is; `NextReturns` and `OpaqueParserExits` say who must not be stuck. It stands in `MCScanner`, `MCNixPath`,
`MCCalls` and `MCCallsCheck`, which model calls that return. Elsewhere, a step called `Finished`, `AllDone`, `Ended`
or `NoMoreRequests` stands for a system that is done, and any other deadlock is an error.

### Fairness

* `NarReader!FairSpec`: weak fairness of the parser and of a call of `Next` that can go on, which
  is what the Go scheduler gives two goroutines. Nothing makes a consumer call `Next` or `Close`.
* `NarWriter!Fairness`, and `RoundTrip!RTFairSpec` with it: the same, for the emitter and a call that can go on.
* `Dump!DumpFairSpec`: the same, for the dump, which goes on until it returns, and for the writer below it. System
  calls return. Nothing makes others change a file.
* `Admission!FairSpec`: goroutines are scheduled, and handlers beside the limiter end. Handlers that
  walk an archive may hang, as nothing puts a deadline on the requests to the cache; that they do not
  is the hypothesis `WalksEnd` of `WaitingEnds`. What a cache that hangs does to others is `OthersAnswered`.

The specifications of the other modules are safety only: their loops end by themselves.

## Proofs

The proofs hold for every value of the constants that satisfies the ASSUMEs of the modules. `tlapm` checks each module by itself, in
two to ten minutes.

* **`NarPath_proofs`**: `Ordered` is a reflexive, transitive, antisymmetric and total order on
  paths, from the names being strictly and totally ordered. The proofs go by the first place
  where two paths differ (`AgreeUpTo`).
* **`NarReader_proofs`**: `Invariance`, of `Inv`. Beside the types it says that there is a frame to
  return from (`Frames`) and where the two goroutines can be together (`Handshake`): a free
  consumer meets a parser that waits or has ended, a verdict is deposited before the channels are
  closed. `TypeOK`, `ReadsAreExclusive` and `NextIsDefinite` follow. None of them is inductive alone:
  that reads are exclusive needs that the parser waits whenever `Next` has returned a header, which needs that
  it waits only there. `OrderedDelivery` adds that the last path accepted is the last one delivered,
  and all before it precede it (`Sequel`); it rests on `OrderedTransitive`. `OwnContents` adds where the input and
  the content reader stand at each label (`Placed`). All of it is for any archives, damaged
  ones included: `ArchivesAreStreams` says only that they are sequences of words.
* **`NarReader_proofs`**, `Refinement`: `IteratesArchive`, for archives of any shape and size. While nothing has failed and nobody has
  called `Close` (`Live`), the parser is at the word that its label is for (`At`, from the layout), its calls are the
  nodes that this word stands in, and what was delivered is the beginning of the archive's entries, as long as the
  layout says (`OnCourse`). A verdict is there for a reason (`Justified`): `io.EOF` behind all entries, an error where the archive is not intact.
  `Tokens`, that no call of `parseNode` holds a `)` for a name, is where an entry of that name is excluded.
* **`Admission_proofs`**: `Invariance` of types, of a queue that holds those who wait, once each,
  of `WithinBudget` and of `NoIdleSlot`; then `TurnsTaken` and, by counting who is between arrival
  and end, `GaugeCounts`. For any finite set of requests and any integer limit.
* **`Scanner_proofs`**: `SoundReports` and `NothingMissed`, for hashes of any length and any streams.
  `Window` says that the buffer holds the last bytes of the stream, and `InStep` that behind an edge nothing
  else has been counted; without these a full buffer could stand for anything.
* **`NixPath_proofs`**: `NoPanicOnEncodings`, that the decoder leaves its destination only for lengths that no
  encoding has, for strings of any length, and `PathsDoNotPanic` for any size of digest. They rest on
  `DecodedLenOfEncoded` and on where the bits of a character go, by the position in the string.
  `DecodingIsExact` (`DecodesBits`) goes by `RowInv`: so far as the loop has come, the bits of the bytes are those of the
  characters, and all other bits are zero, without which "or" would not be the "+" of the model. It rests on lemmas
  about one byte: what a shift puts into it (`Placed`), carries out of it (`Carried`) and takes out of it again (`Taken`), each
  for its eight positions. `ParsingIsExact` (`ParsesPath`) adds what each label of `FromString` knows of the path; its hypothesis
  `NothingToSpare`, a digest of a multiple of five bytes, is true of the 20 bytes of store paths. With other
  sizes a path that `PathRe` matches could be refused, for bits that are over.
* **`NarWriter_proofs`**, about the writer: `Invariance`, of `Inv`, is the hand-shake of the two goroutines
  (`Turns`, `Verdicts`), with the header that is handed up from call to call (`Passed`) and the calls to return
  from (`Frames`); `TypeCorrect` and `ExclusiveWrites` follow. `SoundSuccess` adds `Tree` and `Place`: only the call of
  `emitNode` for the last node compares a header with it, and the calls above take the header on trust, so that the
  invariant has to say that a header in their hands has been compared, and that each call is for a node announced.
  What it says of neighbours in the announced order, that the second is `Attached`, is proved from where the last node
  stands (`Fits`) and from a directory that is left never being entered again (`Beyond`).
  `AllDataWritten` adds `Counted`: the data in the output and the data still owed are those of the files
  announced, and in front of every header nothing is owed.
* **`NarWriter_proofs`**, about `Dump`: `DumpUsesWriter`, that a dump is a caller as `NarWriter` assumes one, so that all of the
  above holds under it. `NilIsWhole` is for any changes to the file system: what is at hand, announced or
  accepted was true at some moment (`Known`). `WholeTree` is for a file system that nobody changes, of any shape,
  under any filter, and says that what is dumped without an error is all of it, and that an error has a reason. Its invariant, `WalkInv`, adds to
  all of the above, as long as nothing has changed or failed (`Quiet`):
  what is left to visit is there and in order (`Todo`) and comes behind what has been announced (`Behind`), or the writer would
  refuse it; what the code holds of the node at hand is so (`Hand`), and the writer waits for that node's data and for no
  other (`Owed`), or `Write` and `Close` would fail; what was announced is as it is (`Faithful`), what is there has been dealt with or
  lies below something to visit (`Complete`); the emitter's calls are for the directories above the last node (`Chain`),
  or it would bounce a header past its directory; and an error means that something cannot be dumped (`Blame`).
* **`ServeNar_proofs`**: `Invariance`, of an invariant that says how far the walk is (`Progress`, `Position`): what the handler
  has seen is the beginning of the archive, the wanted path is not in it, or it is the directory whose page is being
  made. `PromptStop`, `WalkAnswers` and `ListedAnswers` follow with lemmas about canonical archives: all that is below a
  directory comes right behind it, and past a header that the wanted path precedes there is nothing to find.
  `NotModified` follows the tags (`Tags`): each was given with a file of the archive, for URLs of any form.
* **`Calls_proofs`** has the calls that nothing interferes with. `Correct`: the byte loop of `util.go` computes `Ordered` for
  paths of any length; they agree on all bytes before the loop's index. `PacketsRead` and `HonestReading`: `WireInv` says at each label what
  has been read and what the limited reader has left, and takes apart what a caller was handed before the skip (`Begun`) from
  what is known at the end (`Verdict`). `Uint`, the little-endian number, is a recursive function over the bytes; that it is a number
  goes by the smallest counterexample. `RenderedReadsBack`: `InfoInv` says that what the second parse
  has read and the lines that are left make up the narinfo that was rendered (`Halfway`), but for what the scan of its lines takes
  (`ReadsAs`); each field of the file stands between those that `String` writes before and behind it, and a hash is read as what it was (`FormattedHash`).

What the proofs assume, beside the types of the constants, is what the code is given: names are strictly
and totally ordered (`NameOrderIsStrict`); an archive that is not damaged has the layout of a tree, as far
as it goes (`UndamagedAreLaidOut`); the archives of a cache are canonical trees (`ArchivesAreTrees`), its listings are trees
(`ListingsAreTrees`) and a file in one is a file in its archive (`ListedFilesAreFiles`), sound or not; a file system is
a tree of nodes whose headers `WriteHeader` takes, or which are of no type an archive has (`TreesAreOffered`);
the lines of a narinfo have values for their keys (`LineAssumption`), and a text without its last return is a text (`ChompAssumption`);
and no name or target is the mark that stands for data (`DataIsNoText`). TLC evaluates each of them on the instances.

Model-checked only:

* all liveness properties, as ENABLED is beyond the provers: `NextReturns`, `OpaqueParserExits`, `WaitingEnds`, `OthersAnswered`,
  `CallsReturn`, `EmitterStops`, `DumpEnds`;
* `ReadsBack`, of the writer and the reader together;
* `OrdersByComponent`, which splits a path by a fold over its bytes: induction over data is only in reach for a recursive
  function of numbers, as `Uint` is;
* the pages of directories that a listing answers, which the code makes recursively;
* the four properties that the code does not have, `EOFMeansComplete`, `ParserExits`, `PagesMatch` and `CheckAnswers`.

## Not modelled

* Lengths as 64-bit numbers in the reader and the writer, which read and write whole words: `Wire` has them.
  A negative `Header.Size`, which `Validate` lets through, is out.
* `libstore`, `compression`: thin layers over network clients and third-party code, without state that a second call could
  see. The handler takes their outcomes: a file, a failure, a stream that breaks off or ends early. Read, and without
  a property: `FileExists` of the S3 and the file store returns an error for a file that is missing, and that of the
  file store leaves a file open; `GetFile` over HTTP leaves the body open when the status is not 200.
* What nothing in `src/` calls: `ReadBool`, `WriteBool`, `CompressHash`, `Header.FileInfo` with `header_mode.go`.
* The decoding of JSON; the order of `References`; the numbers of bytes in the metrics.
* Wording, MIME types, HTML, the executable bit in answers, start-up, the health and metrics routes.

## What is left

All modules above and the proofs about them are done. Left are a proof of `ReadsBack`, from the layout that the writer's
invariants give to what it has written and `Refinement`, and of `OrdersByComponent`.
