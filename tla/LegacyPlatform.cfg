SPECIFICATION Spec
CONSTANTS
    Reader = {alice, bob}
    Telegram = {alice}
    Ticket = {ticket}
    Risk = {event}
    Absent = Absent
    MaxSteps = 5
    Person = {1, 2}
    Known = {1}
    Owner = 1
    Name = {name1, name2}
    Request = {request}
    Plan = {standard, whitelist, extra}
    Seeded = {standard, whitelist}
    Standard = standard
    Slot = {slot1, slot2}
    Nobody = Nobody
    MaxBegun = 3
    Credential = {token}
    Instance = {emby1, emby2}
    Account = {account}
    Admin = {admin1, admin2}
    Hand = {worker, webhook}
    Missing = Missing
    MaxUsers = 2
    MaxEdits = 2
    MaxFaults = 1
    Service = {emby}
    Rule = {rule}
    Threshold = 1
    Recipient = {admin}
    Worker = {worker1, worker2}
    Unseen = Unseen
    MaxDiagnoses = 2
    MaxRevised = 2
    MaxAttempts = 2
SYMMETRY Alike
INVARIANTS
    CommunityAgrees
    AccessIsExclusive
    InstancesSound
    ServicesReported
    DeliveriesAccounted
CHECK_DEADLOCK FALSE
