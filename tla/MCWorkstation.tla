---------------------------- MODULE MCWorkstation ----------------------------
(* An instance of Workstation: a file that loads, and what editing one place  *)
(* of it makes of it.                                                        *)
EXTENDS Workstation

Remote(port) == [kind |-> Text("remote"), local_host |-> Text("localhost"),
                 local_port |-> Whole(22), remote_port |-> Whole(port)]
Local(host, port) == [kind |-> Text("local"), local_host |-> Text(host),
                      local_port |-> Whole(port), remote_host |-> Text("inside"),
                      remote_port |-> Raw("digits", 5432, "5432")]
Socks(host, port) == [kind |-> Text("dynamic"), local_host |-> Text(host),
                      local_port |-> Whole(port)]

Ssh == [host |-> Text("server"), options |-> NoKeys]
Web(ssh, tunnels) == [name |-> Text("web"), ssh |-> ssh, tunnels |-> tunnels]

Good == [text |-> "toml", layout |-> "profiles",
         profiles |-> <<Web(Ssh, <<Remote(23334), Socks("127.0.0.1", 1080)>>)>>,
         others |-> {},
         daemon |-> NoKeys, retry |-> NoKeys, health |-> NoKeys, notify |-> NoKeys,
         windows |-> NoKeys, service |-> NoKeys, serve |-> NoKeys]
Tunnels(tunnels) == [Good EXCEPT !.profiles = <<Web(Ssh, tunnels)>>]
Server(ssh) == [Good EXCEPT !.profiles = <<Web(ssh, <<Remote(23334)>>)>>]

MCTemplate ==
    [Good EXCEPT !.layout = "legacy",
                 !.profiles = <<Web([Ssh EXCEPT !.host = Text("example")], <<Remote(23334)>>)>>]

MCContents ==
    {Good, MCTemplate,
     [Good EXCEPT !.text = "broken"], [Good EXCEPT !.text = "binary"],
     [Good EXCEPT !.profiles = @ \o @], [Good EXCEPT !.others = {"tunnel"}],
     Server([host |-> Text("server"), prot |-> Whole(2222), options |-> NoKeys]),
     Tunnels(<<>>),
     Tunnels(<<Remote(23334), Remote(23334)>>),
     Tunnels(<<Local("127.0.0.1", 1080), Socks("127.0.0.1", 1080)>>),
     Tunnels(<<Local("127.0.0.1", 1080), Socks("localhost", 1080), Remote(1080)>>),
     Server([host |-> Text("server"), options |-> [ProxyCommand |-> Text("nc")],
             jump |-> Text("bastion")]),
     Server([host |-> Text("server"), options |-> NoKeys, proxy_jump |-> Text("bastion,inner"),
             identity_file |-> Text("id")]),
     [Good EXCEPT !.daemon = [pid_file |-> Text("own.pid")]],
     [Good EXCEPT !.daemon = [pid_file |-> Text("own.pid")], !.layout = "both"],
     [Good EXCEPT !.retry = [max_retries |-> Infinite]],
     [Good EXCEPT !.retry = [base_delay |-> NotANumber],
                  !.notify = [enabled |-> Bool(TRUE)]],
     [Good EXCEPT !.serve = [host |-> Text("0.0.0.0")]],
     [Good EXCEPT !.serve = [host |-> Text("0.0.0.0"), token |-> Text("secret")]]}

MCKeys == {"id"}

Fine == [ssh |-> "found", direct |-> TRUE, hop |-> TRUE, login |-> TRUE, key |-> "private",
         probe |-> TRUE, remote |-> TRUE, local |-> TRUE, health |-> "yes",
         service |-> "installed", log |-> "there", lastError |-> FALSE]
MCWorlds ==
    {Fine, [Fine EXCEPT !.ssh = "none"], [Fine EXCEPT !.ssh = "raises"],
     [Fine EXCEPT !.direct = FALSE], [Fine EXCEPT !.direct = FALSE, !.hop = FALSE],
     [Fine EXCEPT !.hop = FALSE], [Fine EXCEPT !.login = FALSE],
     [Fine EXCEPT !.key = "open"], [Fine EXCEPT !.probe = FALSE, !.health = "unknown"],
     [Fine EXCEPT !.remote = FALSE, !.health = "no"], [Fine EXCEPT !.local = FALSE],
     [Fine EXCEPT !.hop = FALSE, !.remote = FALSE], [Fine EXCEPT !.health = "none", !.log = "none"],
     [Fine EXCEPT !.service = "unknown", !.log = "nowhere"]}
=============================================================================
