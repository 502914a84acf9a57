SPECIFICATION FSFairSpec
CONSTANTS
    Types <- MCTypes
    MaxFiles <- MCMaxFiles
    MaxSaves <- MCThree
INVARIANTS
    FSTypeOK
    FilesAccountedFor
    RecordsInOrder
PROPERTIES
    FormatsAlone
    ImplementsService
